----------------------------- MODULE ListProofs -----------------------------
(***************************************************************************)
(* Theorems about the parts that keep, send or copy lists: the ring of     *)
(* readings, a list read in pages, the chunks of a job, and the slices     *)
(* that contexts and errors share. The specification of a part is its      *)
(* initial condition and its next-state relation.                          *)
(***************************************************************************)
EXTENDS CirQueue, Pages, Chunks, Derive, SequenceTheorems, TLAPS

RingSpec == RingInit /\ [][RingNext]_ringvars
PagesSpec == PagesInit /\ [][PagesNext]_pagevars
ChunksSpec == ChunksInit /\ [][ChunksNext]_chunkvars
DeriveSpec == DeriveInit /\ [][DeriveNext]_derivevars

-----------------------------------------------------------------------------
(* CirQueue. The readings before the one whose Push is at its last         *)
(* assignment: the ring holds the last of them.                            *)
Kept == IF pushing = "idx" THEN pushed - 1 ELSE pushed

\* What slot j holds: those before idx were written in this round, the others
\* in the one before, if there was one.
SlotOf(j) ==
  IF j < idx THEN Kept - idx + j + 1
  ELSE IF Kept >= size THEN Kept - idx + j + 1 - size ELSE 0

RingTyped ==
  /\ size \in Sizes /\ over \in BOOLEAN /\ idx \in 0..size - 1
  /\ slots \in [0..size - 1 -> Nat] /\ pushed \in Nat
  /\ pushing \in {"none", "slots", "idx"} /\ Kept \in Nat

RingFilled ==
  /\ Kept < size => idx = Kept
  /\ \A j \in 0..size - 1 :
       slots[j] = IF pushing = "idx" /\ j = idx THEN pushed ELSE SlotOf(j)
  /\ over <=> IF pushing = "none" THEN Kept >= size ELSE Kept >= size - 1

\* The Range under way, however many Pushes it has met: it shows nothing that
\* was gone when it began.
RangeTyped ==
  rng \in [at : {"none", "start", "next", "done"}, size : Nat, idx : Nat,
           out : Seq(Nat), from : Nat, raced : BOOLEAN]

RangeBounded ==
  /\ rng.from <= pushed /\ rng.size <= size /\ rng.idx < size
  /\ Len(rng.out) <= rng.size
  /\ \A i \in 1..Len(rng.out) : rng.out[i] = 0 \/ rng.out[i] + size > rng.from

\* Undisturbed, it has read the oldest of the window so far, and stands at the
\* next one.
Oldest == IF over THEN idx ELSE 0
Ahead(n) == IF Oldest + n < size THEN Oldest + n ELSE Oldest + n - size

RangeExact ==
  ~rng.raced =>
    /\ rng.at # "none" => pushing = "none" /\ rng.from = pushed /\ rng.size = Size
    /\ rng.at \in {"none", "start"} => rng.out = <<>>
    /\ rng.at \in {"next", "done"} =>
         /\ rng.idx = Ahead(Len(rng.out))
         /\ \A i \in 1..Len(rng.out) : rng.out[i] = rng.from - rng.size + i
    /\ rng.at = "done" => Len(rng.out) = rng.size

RingInv == RingTyped /\ RingFilled /\ RangeTyped /\ RangeBounded /\ RangeExact

LEMMA WrapIs ==
  ASSUME size \in Sizes, NEW i \in 0..size - 1
  PROVE  /\ Wrap(i) = IF i = size - 1 THEN 0 ELSE i + 1
         /\ Wrap(i) \in 0..size - 1
<1>1. size \in 1..255
  BY SizesAssumption
<1>2. CASE i = size - 1
  <2>1. size % size = 0
    BY <1>1
  <2> QED
    BY <1>1, <1>2, <2>1 DEF Wrap
<1>3. CASE i # size - 1
  <2> DEFINE j == i + 1
  <2>1. j \in 0..size - 1
    BY <1>1, <1>3
  <2>2. j % size = j
    BY <1>1, <2>1
  <2> QED
    BY <1>1, <1>3, <2>1, <2>2 DEF Wrap
<1> QED
  BY <1>2, <1>3

LEMMA RingInitInv == RingInit => RingInv
<1> SUFFICES ASSUME RingInit PROVE RingInv
  OBVIOUS
<1>1. size \in 1..255
  BY SizesAssumption DEF RingInit
<1>2. rng = [at |-> "none", size |-> 0, idx |-> 0, out |-> <<>>, from |-> 0,
             raced |-> FALSE]
  BY DEF RingInit, Ranging
<1>3. /\ over = FALSE /\ idx = 0 /\ pushed = 0 /\ pushing = "none" /\ Kept = 0
      /\ size \in Sizes /\ slots = [i \in 0..size - 1 |-> 0]
  BY DEF RingInit, Kept
<1>6. RingTyped
  <2>1. slots \in [0..size - 1 -> Nat]
    BY <1>3
  <2>2. idx \in 0..size - 1
    BY <1>1, <1>3
  <2> QED
    BY <1>3, <2>1, <2>2 DEF RingTyped
<1>7. RingFilled
  <2>1. \A j \in 0..size - 1 : SlotOf(j) = 0 /\ slots[j] = 0
    BY <1>1, <1>3 DEF SlotOf
  <2>2. ~(Kept >= size)
    BY <1>1, <1>3
  <2> QED
    BY <1>3, <2>1, <2>2 DEF RingFilled
<1>4. RangeTyped
  BY <1>2 DEF RangeTyped
<1>5. RangeBounded /\ RangeExact
  <2>1. /\ rng.from = 0 /\ rng.size = 0 /\ rng.idx = 0 /\ Len(rng.out) = 0
        /\ rng.at = "none" /\ rng.out = <<>>
    BY <1>2
  <2>2. RangeBounded
    BY <1>1, <1>3, <2>1 DEF RangeBounded
  <2>3. RangeExact
    BY <2>1 DEF RangeExact
  <2> QED
    BY <2>2, <2>3
<1> QED
  BY <1>4, <1>5, <1>6, <1>7 DEF RingInv

(* A Push disturbs the Range under way and takes nothing from it.          *)
LEMMA PushDisturbs ==
  ASSUME RangeTyped, RangeBounded, RingTyped, Race, size' = size,
         pushed' \in Nat, pushed <= pushed'
  PROVE  RangeTyped' /\ RangeBounded' /\ RangeExact'
<1>1. /\ RangeTyped' /\ rng'.raced
      /\ rng'.out = rng.out /\ rng'.size = rng.size /\ rng'.from = rng.from
      /\ rng'.idx = rng.idx
  BY DEF Race, RangeTyped
<1>2. rng.from \in Nat /\ pushed \in Nat
  BY DEF RangeTyped, RingTyped
<1> QED
  BY <1>1, <1>2 DEF RangeBounded, RangeExact

(* Every slot holds nothing or one of the last readings.                   *)
LEMMA SlotsRecent ==
  ASSUME RingTyped, RingFilled, NEW j \in 0..size - 1
  PROVE  slots[j] \in Nat /\ (slots[j] = 0 \/ slots[j] + size > pushed)
<1>1. size \in 1..255
  BY SizesAssumption DEF RingTyped
<1>2. slots[j] \in Nat /\ pushed \in Nat /\ Kept \in Nat /\ idx \in 0..size - 1
  BY DEF RingTyped
<1>3. CASE pushing = "idx" /\ j = idx
  BY <1>1, <1>2, <1>3 DEF RingFilled
<1>4. CASE ~(pushing = "idx" /\ j = idx)
  <2>1. slots[j] = SlotOf(j)
    BY <1>4 DEF RingFilled
  <2>2. CASE j < idx
    BY <1>1, <1>2, <2>1, <2>2 DEF SlotOf, Kept
  <2>3. CASE ~(j < idx) /\ pushing = "idx"
    BY <1>1, <1>2, <1>4, <2>1, <2>3 DEF SlotOf, Kept
  <2>4. CASE ~(j < idx) /\ pushing # "idx"
    BY <1>1, <1>2, <2>1, <2>4 DEF SlotOf, Kept
  <2> QED
    BY <2>2, <2>3, <2>4
<1> QED
  BY <1>3, <1>4

(* An undisturbed Range stands at the slot that holds its next reading.    *)
LEMMA NextReading ==
  ASSUME RingTyped, RingFilled, pushing = "none", NEW n \in Nat, n < Size
  PROVE  Ahead(n) \in 0..size - 1 /\ slots[Ahead(n)] = pushed - Size + n + 1
<1>1. size \in 1..255
  BY SizesAssumption DEF RingTyped
<1>2. /\ idx \in 0..size - 1 /\ pushed \in Nat /\ Kept = pushed
      /\ over \in BOOLEAN /\ over <=> pushed >= size
      /\ \A j \in 0..size - 1 : slots[j] = SlotOf(j)
      /\ pushed < size => idx = pushed
  BY DEF RingTyped, RingFilled, Kept
<1>3. CASE over
  <2>1. Size = size /\ Oldest = idx
    BY <1>3 DEF Size, Oldest
  <2>2. CASE idx + n < size
    <3>1. Ahead(n) = idx + n
      BY <2>1, <2>2 DEF Ahead
    <3>2. SlotOf(idx + n) = pushed - size + n + 1
      BY <1>1, <1>2, <1>3, <2>2 DEF SlotOf
    <3> QED
      BY <1>1, <1>2, <2>1, <2>2, <3>1, <3>2
  <2>3. CASE ~(idx + n < size)
    <3>1. Ahead(n) = idx + n - size
      BY <2>1, <2>3 DEF Ahead
    <3>2. SlotOf(idx + n - size) = pushed - size + n + 1
      BY <1>1, <1>2, <1>3, <2>1, <2>3 DEF SlotOf
    <3> QED
      BY <1>1, <1>2, <2>1, <2>3, <3>1, <3>2
  <2> QED
    BY <2>2, <2>3
<1>4. CASE ~over
  <2>1. Size = idx /\ Oldest = 0 /\ idx = pushed
    BY <1>1, <1>2, <1>4 DEF Size, Oldest
  <2>2. Ahead(n) = n
    BY <1>1, <1>2, <2>1 DEF Ahead
  <2>3. SlotOf(n) = n + 1
    BY <1>1, <1>2, <2>1 DEF SlotOf
  <2> QED
    BY <1>1, <1>2, <2>1, <2>2, <2>3
<1> QED
  BY <1>2, <1>3, <1>4

LEMMA RingNextInv == RingInv /\ [RingNext]_ringvars => RingInv'
<1> SUFFICES ASSUME RingInv, [RingNext]_ringvars PROVE RingInv'
  OBVIOUS
<1>0. /\ RingTyped /\ RingFilled /\ RangeTyped /\ RangeBounded /\ RangeExact
      /\ size \in 1..255
  BY SizesAssumption DEF RingInv, RingTyped
<1>a. /\ idx \in 0..size - 1 /\ pushed \in Nat /\ Kept \in Nat /\ over \in BOOLEAN
      /\ pushing \in {"none", "slots", "idx"}
  BY <1>0 DEF RingTyped
<1>1. CASE PushOver
  <2>1. /\ pushing = "none" /\ pushing' = "slots" /\ Race
        /\ over' = (over \/ idx = size - 1)
        /\ UNCHANGED <<size, idx, slots, pushed>>
    BY <1>1 DEF PushOver
  <2>2. Kept' = Kept
    BY <2>1 DEF Kept
  <2>3. RingTyped'
    BY <1>0, <2>1, <2>2 DEF RingTyped
  <2>4. RingFilled'
    <3>1. over' <=> Kept >= size - 1
      <4>1. over <=> Kept >= size
        BY <1>0, <2>1 DEF RingFilled
      <4>2. Kept < size => idx = Kept
        BY <1>0 DEF RingFilled
      <4>3. Kept >= size - 1 <=> (Kept >= size \/ idx = size - 1)
        BY <1>0, <1>a, <4>2
      <4> QED
        BY <2>1, <4>1, <4>3
    <3>2. \A j \in 0..size - 1 : SlotOf(j)' = SlotOf(j)
      BY <2>1, <2>2 DEF SlotOf
    <3> QED
      BY <1>0, <2>1, <2>2, <3>1, <3>2 DEF RingFilled
  <2> QED
    BY <1>0, <1>a, <2>1, <2>3, <2>4, PushDisturbs DEF RingInv
<1>2. CASE PushData
  <2>1. /\ pushing = "slots" /\ pushing' = "idx" /\ Race /\ pushed' = pushed + 1
        /\ slots' = [slots EXCEPT ![idx] = pushed + 1]
        /\ UNCHANGED <<size, over, idx>>
    BY <1>2 DEF PushData
  <2>2. Kept' = Kept /\ Kept = pushed
    BY <1>a, <2>1 DEF Kept
  <2>3. RingTyped'
    BY <1>0, <1>a, <2>1, <2>2 DEF RingTyped
  <2>4. RingFilled'
    <3>1. \A j \in 0..size - 1 : SlotOf(j)' = SlotOf(j)
      BY <2>1, <2>2 DEF SlotOf
    <3>2. \A j \in 0..size - 1 :
            slots'[j] = IF j = idx THEN pushed + 1 ELSE slots[j]
      BY <1>0, <1>a, <2>1 DEF RingTyped
    <3> QED
      BY <1>0, <2>1, <2>2, <3>1, <3>2 DEF RingFilled
  <2> QED
    BY <1>0, <1>a, <2>1, <2>3, <2>4, PushDisturbs DEF RingInv
<1>3. CASE PushIdx
  <2>1. /\ pushing = "idx" /\ pushing' = "none" /\ Race /\ idx' = Wrap(idx)
        /\ UNCHANGED <<size, over, slots, pushed>>
    BY <1>3 DEF PushIdx
  <2>2. Kept = pushed - 1 /\ Kept' = pushed /\ pushed >= 1
    BY <1>a, <2>1 DEF Kept
  <2>3. idx' \in 0..size - 1 /\ idx' = IF idx = size - 1 THEN 0 ELSE idx + 1
    BY <1>0, <1>a, <2>1, WrapIs DEF RingTyped
  <2>4. RingTyped'
    BY <1>0, <1>a, <2>1, <2>2, <2>3 DEF RingTyped
  <2>5. RingFilled'
    <3>1. Kept < size => idx = Kept
      BY <1>0 DEF RingFilled
    <3>2. Kept' < size => idx' = Kept'
      BY <1>0, <1>a, <2>2, <2>3, <3>1
    <3>3. over' <=> Kept' >= size
      BY <1>0, <1>a, <2>1, <2>2 DEF RingFilled
    <3>4. ASSUME NEW j \in 0..size - 1 PROVE slots'[j] = SlotOf(j)'
      <4>1. slots'[j] = slots[j]
        BY <2>1
      <4>2. CASE j = idx
        <5>1. slots[j] = pushed
          BY <1>0, <2>1, <4>2 DEF RingFilled
        <5> QED
          BY <1>0, <1>a, <2>1, <2>2, <2>3, <3>1, <4>1, <4>2, <5>1 DEF SlotOf
      <4>3. CASE j # idx
        <5>1. slots[j] = SlotOf(j)
          BY <1>0, <4>3 DEF RingFilled
        <5>2. CASE idx = size - 1
          BY <1>0, <1>a, <2>1, <2>2, <2>3, <3>1, <4>1, <4>3, <5>1, <5>2 DEF SlotOf
        <5>3. CASE idx # size - 1
          BY <1>0, <1>a, <2>1, <2>2, <2>3, <3>1, <4>1, <4>3, <5>1, <5>3 DEF SlotOf
        <5> QED
          BY <5>2, <5>3
      <4> QED
        BY <4>2, <4>3
    <3> QED
      BY <2>1, <3>2, <3>3, <3>4 DEF RingFilled
  <2> QED
    BY <1>0, <1>a, <2>1, <2>4, <2>5, PushDisturbs DEF RingInv
<1>4. ASSUME UNCHANGED <<size, over, idx, slots, pushed, pushing>>
      PROVE  /\ RingTyped' /\ RingFilled' /\ Size' = Size
             /\ \A n : Ahead(n)' = Ahead(n)
  BY <1>0, <1>4 DEF RingTyped, RingFilled, Kept, SlotOf, Size, Ahead, Oldest
<1>5. CASE RangeSize
  <2>1. UNCHANGED <<size, over, idx, slots, pushed, pushing>>
    BY <1>5 DEF RangeSize
  <2>2. rng' = [at |-> "start", size |-> Size, idx |-> 0, out |-> <<>>,
                from |-> pushed, raced |-> pushing # "none"]
    BY <1>5 DEF RangeSize, Ranging
  <2>3. Size \in 0..size
    BY <1>0, <1>a DEF Size
  <2>4. RangeTyped'
    BY <1>0, <1>a, <2>2, <2>3 DEF RangeTyped
  <2>5. RangeBounded' /\ RangeExact'
    <3>1. /\ rng'.at = "start" /\ rng'.size = Size /\ rng'.idx = 0
          /\ rng'.out = <<>> /\ rng'.from = pushed /\ Len(rng'.out) = 0
      BY <2>2
    <3>2. rng'.raced <=> pushing # "none"
      BY <2>2
    <3>3. RangeBounded'
      BY <1>0, <1>a, <2>1, <2>3, <3>1 DEF RangeBounded
    <3>4. RangeExact'
      BY <1>4, <2>1, <3>1, <3>2 DEF RangeExact
    <3> QED
      BY <3>3, <3>4
  <2> QED
    BY <1>4, <2>1, <2>4, <2>5 DEF RingInv
<1>6. CASE RangeStart
  <2>1. UNCHANGED <<size, over, idx, slots, pushed, pushing>> /\ rng.at = "start"
    BY <1>6 DEF RangeStart
  <2>2. rng' = [rng EXCEPT !.at = "next", !.idx = Oldest]
    BY <1>6 DEF RangeStart, RangeFrom, Oldest
  <2>3. Oldest \in 0..size - 1
    BY <1>0, <1>a DEF Oldest
  <2>4. /\ RangeTyped' /\ rng'.at = "next" /\ rng'.idx = Oldest
        /\ rng'.size = rng.size /\ rng'.out = rng.out /\ rng'.from = rng.from
        /\ rng'.raced = rng.raced
    <3>1. Oldest \in Nat
      BY <1>0, <2>3
    <3>2. RangeTyped'
      BY <1>0, <2>2, <3>1 DEF RangeTyped
    <3>3. rng'.at = "next" /\ rng'.idx = Oldest /\ rng'.size = rng.size
      BY <1>0, <2>2 DEF RangeTyped
    <3>4. rng'.out = rng.out /\ rng'.from = rng.from /\ rng'.raced = rng.raced
      BY <1>0, <2>2 DEF RangeTyped
    <3> QED
      BY <3>2, <3>3, <3>4
  <2>5. RangeBounded'
    BY <1>0, <2>1, <2>3, <2>4 DEF RangeBounded
  <2>6. RangeExact'
    <3>1. ~rng.raced => Len(rng.out) = 0 /\ Ahead(0) = Oldest
      BY <1>0, <2>1, <2>3 DEF RangeExact, Ahead
    <3> QED
      BY <1>0, <1>4, <2>1, <2>4, <3>1 DEF RangeExact
  <2> QED
    BY <1>4, <2>1, <2>4, <2>5, <2>6 DEF RingInv
<1>7. CASE RangeElement
  <2>1. UNCHANGED <<size, over, idx, slots, pushed, pushing>> /\ rng.at = "next"
    BY <1>7 DEF RangeElement
  <2>2. CASE Len(rng.out) = rng.size
    <3>1. rng' = [rng EXCEPT !.at = "done"]
      BY <1>7, <2>2 DEF RangeElement
    <3>2. /\ RangeTyped' /\ rng'.at = "done" /\ rng'.idx = rng.idx
          /\ rng'.size = rng.size /\ rng'.out = rng.out /\ rng'.from = rng.from
          /\ rng'.raced = rng.raced
      BY <1>0, <3>1 DEF RangeTyped
    <3>3. RangeBounded' /\ RangeExact'
      BY <1>0, <1>4, <2>1, <2>2, <3>2 DEF RangeBounded, RangeExact
    <3> QED
      BY <1>4, <2>1, <3>2, <3>3 DEF RingInv
  <2>3. CASE Len(rng.out) # rng.size
    <3> DEFINE n == Len(rng.out)
               x == slots[rng.idx]
    <3>1. rng' = [rng EXCEPT !.out = Append(rng.out, x), !.idx = Wrap(rng.idx)]
      BY <1>7, <2>3 DEF RangeElement
    <3>2. /\ rng.out \in Seq(Nat) /\ n \in Nat /\ rng.size \in Nat
          /\ rng.from \in Nat /\ rng.idx \in 0..size - 1 /\ n < rng.size
      BY <1>0, <2>3 DEF RangeTyped, RangeBounded
    <3>3. x \in Nat /\ (x = 0 \/ x + size > pushed)
      BY <1>0, <3>2, SlotsRecent
    <3>4. Wrap(rng.idx) \in 0..size - 1
          /\ Wrap(rng.idx) = IF rng.idx = size - 1 THEN 0 ELSE rng.idx + 1
      BY <1>0, <3>2, WrapIs DEF RingTyped
    <3>5. /\ Append(rng.out, x) \in Seq(Nat) /\ Len(Append(rng.out, x)) = n + 1
          /\ \A i \in 1..n + 1 :
               Append(rng.out, x)[i] = IF i = n + 1 THEN x ELSE rng.out[i]
      BY <3>2, <3>3
    <3>6. /\ RangeTyped' /\ rng'.at = "next" /\ rng'.idx = Wrap(rng.idx)
          /\ rng'.size = rng.size /\ rng'.out = Append(rng.out, x)
          /\ rng'.from = rng.from /\ rng'.raced = rng.raced
      <4>1. Wrap(rng.idx) \in Nat
        BY <1>0, <3>4
      <4> HIDE DEF x
      <4>2. RangeTyped'
        BY <1>0, <3>1, <3>5, <4>1 DEF RangeTyped
      <4>3. rng'.at = "next" /\ rng'.idx = Wrap(rng.idx) /\ rng'.size = rng.size
        BY <1>0, <2>1, <3>1 DEF RangeTyped
      <4>4. rng'.out = Append(rng.out, x) /\ rng'.from = rng.from
            /\ rng'.raced = rng.raced
        BY <1>0, <3>1 DEF RangeTyped
      <4> QED
        BY <4>2, <4>3, <4>4
    <3> HIDE DEF x
    <3>7. RangeBounded'
      BY <1>0, <1>a, <2>1, <3>2, <3>3, <3>4, <3>5, <3>6, SMTT(30) DEF RangeBounded
    <3>8. RangeExact'
      <4>1. SUFFICES ASSUME ~rng.raced PROVE RangeExact'
        BY <3>6 DEF RangeExact
      <4>2. /\ pushing = "none" /\ rng.from = pushed /\ rng.size = Size
            /\ rng.idx = Ahead(n)
            /\ \A i \in 1..n : rng.out[i] = rng.from - rng.size + i
        BY <1>0, <2>1, <4>1 DEF RangeExact
      <4>3. x = pushed - Size + n + 1
        BY <1>0, <3>2, <4>2, NextReading DEF x
      <4>4. Wrap(rng.idx) = Ahead(n + 1)
        <5>1. Oldest \in 0..size - 1 /\ (Oldest # 0 => rng.size = size)
              /\ rng.size <= size
          <6>1. CASE over
            BY <1>0, <1>a, <4>2, <6>1 DEF Oldest, Size
          <6>2. CASE ~over
            BY <1>0, <1>a, <4>2, <6>2 DEF Oldest, Size
          <6> QED
            BY <6>1, <6>2
        <5> QED
          BY <1>0, <3>2, <3>4, <4>2, <5>1 DEF Ahead
      <4>5. \A i \in 1..n + 1 :
              Append(rng.out, x)[i] = rng.from - rng.size + i
        <5>1. ASSUME NEW i \in 1..n + 1
              PROVE  Append(rng.out, x)[i] = rng.from - rng.size + i
          <6>1. Append(rng.out, x)[i] = IF i = n + 1 THEN x ELSE rng.out[i]
            BY <3>5
          <6>2. CASE i = n + 1
            BY <1>a, <3>2, <4>2, <4>3, <6>1, <6>2
          <6>3. CASE i # n + 1
            BY <3>2, <4>2, <6>1, <6>3
          <6> QED
            BY <6>2, <6>3
        <5> QED
          BY <5>1
      <4> QED
        BY <1>4, <2>1, <3>2, <3>5, <3>6, <4>2, <4>4, <4>5 DEF RangeExact
    <3> QED
      BY <1>4, <2>1, <3>6, <3>7, <3>8 DEF RingInv
  <2> QED
    BY <2>2, <2>3
<1>8. CASE UNCHANGED ringvars
  <2>1. UNCHANGED <<size, over, idx, slots, pushed, pushing>> /\ rng' = rng
    BY <1>8 DEF ringvars
  <2> QED
    BY <1>0, <1>4, <2>1 DEF RingInv, RangeTyped, RangeBounded, RangeExact
<1> QED
  BY <1>1, <1>2, <1>3, <1>5, <1>6, <1>7, <1>8 DEF RingNext

(* A Range that no Push disturbs returns the last readings, oldest first,  *)
(* as many as there are and the ring holds; one that is disturbed shows    *)
(* nothing that was gone when it began. For rings of every size a byte can *)
(* have and any number of readings.                                        *)
THEOREM RangeShowsWindow == RingSpec => []RangeIsWindow
<1>1. RingInv => RangeIsWindow
  <2> SUFFICES ASSUME RingInv, rng.at = "done" PROVE RangeIsWindow
    BY DEF RangeIsWindow
  <2>1. /\ RingTyped /\ RingFilled /\ RangeTyped /\ RangeBounded /\ RangeExact
        /\ size \in 1..255
    BY SizesAssumption DEF RingInv, RingTyped
  <2>2. Len(rng.out) <= size
    BY <2>1 DEF RangeBounded, RangeTyped
  <2>3. ASSUME ~rng.raced, NEW n, n = IF rng.from < size THEN rng.from ELSE size
        PROVE  rng.out = [i \in 1..n |-> rng.from - n + i]
    <3>1. /\ rng.from = pushed /\ rng.size = Size /\ Len(rng.out) = rng.size
          /\ \A i \in 1..Len(rng.out) : rng.out[i] = rng.from - rng.size + i
      BY <2>1, <2>3 DEF RangeExact
    <3>2. Size = n
      BY <2>1, <2>3, <3>1 DEF RangeExact, RingTyped, RingFilled, Kept, Size
    <3>3. rng.out \in Seq(Nat)
      BY <2>1 DEF RangeTyped
    <3> QED
      BY <3>1, <3>2, <3>3, SMTT(30)
  <2> QED
    BY <2>1, <2>2, <2>3 DEF RangeIsWindow, RangeBounded
<1> QED
  BY <1>1, RingInitInv, RingNextInv, PTL DEF RingSpec

-----------------------------------------------------------------------------
(* Pages. Before the short page the client has every row up to the offset  *)
(* of its next request; a page is as long as the offset advances.          *)
Upto(n) == [i \in 1..n |-> i]

PagesTyped ==
  /\ pageSize \in Int /\ page \in Nat /\ rows \in Nat /\ atEnd \in BOOLEAN

PagesInv ==
  /\ PagesTyped
  /\ pageSize \in 1..MaxLimit =>
       IF atEnd THEN listed = Upto(rows)
                ELSE Offset <= rows /\ listed = Upto(Offset)

LEMMA UptoExtends ==
  ASSUME NEW m \in Nat, NEW n \in Nat
  PROVE  Upto(m) \o [i \in 1..n |-> m + i] = Upto(m + n)
<1> DEFINE a == Upto(m)
           b == [i \in 1..n |-> m + i]
           c == Upto(m + n)
<1>1. a \in Seq(Nat) /\ Len(a) = m /\ \A i \in 1..m : a[i] = i
  BY DEF Upto
<1>2. b \in Seq(Nat) /\ Len(b) = n /\ \A i \in 1..n : b[i] = m + i
  OBVIOUS
<1>3. c \in Seq(Nat) /\ Len(c) = m + n /\ \A i \in 1..m + n : c[i] = i
  BY DEF Upto
<1> HIDE DEF a, b, c
<1>4. /\ a \o b \in Seq(Nat) /\ Len(a \o b) = Len(a) + Len(b)
      /\ \A i \in 1..Len(a) + Len(b) :
           (a \o b)[i] = IF i <= Len(a) THEN a[i] ELSE b[i - Len(a)]
  BY <1>1, <1>2, ConcatProperties
<1>5. ASSUME NEW i \in 1..m + n PROVE (a \o b)[i] = c[i]
  <2>1. CASE i <= m
    BY <1>1, <1>2, <1>3, <1>4, <2>1
  <2>2. CASE ~(i <= m)
    <3>1. i - m \in 1..n /\ (a \o b)[i] = b[i - m]
      BY <1>1, <1>2, <1>4, <2>2
    <3> QED
      BY <1>2, <1>3, <3>1
  <2> QED
    BY <2>1, <2>2
<1>6. a \o b = c
  BY <1>1, <1>2, <1>3, <1>4, <1>5, SeqEqual
<1> QED
  BY <1>6 DEF a, b, c

LEMMA PagesInitInv == PagesInit => PagesInv
<1> SUFFICES ASSUME PagesInit PROVE PagesInv
  OBVIOUS
<1>1. /\ pageSize \in Int /\ page \in {0, 1} /\ rows \in Nat
      /\ listed = <<>> /\ atEnd = FALSE
  BY PagesAssumption DEF PagesInit
<1>a. ~atEnd /\ atEnd \in BOOLEAN
  BY DEF PagesInit
<1>b. page \in Nat
  BY <1>1
<1>2. Offset = 0
  <2>1. (IF page < 1 THEN 0 ELSE page - 1) = 0
    BY <1>1
  <2> QED
    BY <1>1, <2>1 DEF Offset
<1>3. listed = Upto(0)
  BY <1>1 DEF Upto
<1>4. PagesTyped
  BY <1>1, <1>a, <1>b DEF PagesTyped
<1>5. ~atEnd /\ Offset <= rows /\ listed = Upto(Offset)
  BY <1>1, <1>a, <1>2, <1>3
<1> QED
  BY <1>4, <1>5 DEF PagesInv

(* The offset of the next page, as far from this one as a page is long.    *)
LEMMA OffsetAdvances ==
  ASSUME pageSize \in 1..MaxLimit, page \in Nat,
         page' = (IF page < 1 THEN 1 ELSE page) + 1, pageSize' = pageSize
  PROVE  Offset \in Nat /\ Offset' = Offset + pageSize
<1> USE PagesAssumption
<1>1. CASE page < 1
  <2>1. page' = 2 /\ Offset = 0 * pageSize /\ Offset' = (2 - 1) * pageSize
    BY <1>1 DEF Offset
  <2> QED
    BY <2>1
<1>2. CASE ~(page < 1)
  <2>1. PICK q \in Nat : page = q + 1
    BY <1>2
  <2>2. Offset = q * pageSize /\ Offset' = (q + 1) * pageSize
    BY <1>2, <2>1 DEF Offset
  <2>3. (q + 1) * pageSize = q * pageSize + pageSize /\ q * pageSize \in Nat
    OBVIOUS
  <2> QED
    BY <2>2, <2>3
<1> QED
  BY <1>1, <1>2

LEMMA PagesNextInv == PagesInv /\ [PagesNext]_pagevars => PagesInv'
<1> SUFFICES ASSUME PagesInv, [PagesNext]_pagevars PROVE PagesInv'
  OBVIOUS
<1>0. PagesTyped
  BY DEF PagesInv
<1>1. CASE ListWithContext
  <2> DEFINE from == IF Offset < 0 THEN 0 ELSE Offset
             n == IF from >= rows THEN 0
                  ELSE IF rows - from < Limit THEN rows - from ELSE Limit
  <2>1. /\ ~atEnd /\ UNCHANGED <<pageSize, rows>>
        /\ page' = (IF page < 1 THEN 1 ELSE page) + 1
        /\ listed' = listed \o [i \in 1..n |-> from + i]
        /\ atEnd' = (n < Limit)
    BY <1>1 DEF ListWithContext
  <2>2. PagesTyped'
    BY <1>0, <2>1 DEF PagesTyped
  <2>3. ASSUME pageSize \in 1..MaxLimit
        PROVE  IF atEnd' THEN listed' = Upto(rows')
                         ELSE Offset' <= rows' /\ listed' = Upto(Offset')
    <3>1. /\ Offset \in Nat /\ Offset' = Offset + pageSize
          /\ Offset <= rows /\ listed = Upto(Offset) /\ rows \in Nat
      BY <1>0, <2>1, <2>3, OffsetAdvances DEF PagesInv, PagesTyped
    <3>2. Limit = pageSize /\ pageSize \in Nat /\ from = Offset
      BY <2>3, <3>1, PagesAssumption DEF Limit
    <3>3. n \in Nat /\ n = IF rows - Offset < pageSize THEN rows - Offset ELSE pageSize
      BY <2>3, <3>1, <3>2
    <3>4. (n < pageSize => Offset + n = rows)
          /\ (~(n < pageSize) => n = pageSize /\ Offset + pageSize <= rows)
      BY <3>1, <3>2, <3>3
    <3> HIDE DEF n, from
    <3>5. listed' = Upto(Offset + n)
      BY <2>1, <3>1, <3>2, <3>3, UptoExtends
    <3>6. atEnd' <=> n < pageSize
      BY <2>1, <3>2
    <3> QED
      BY <2>1, <3>1, <3>4, <3>5, <3>6
  <2> QED
    BY <2>1, <2>2, <2>3 DEF PagesInv
<1>2. CASE AddRow
  <2>1. ~atEnd /\ rows' = rows + 1 /\ UNCHANGED <<pageSize, page, listed, atEnd>>
    BY <1>2 DEF AddRow
  <2>2. Offset' = Offset
    BY <2>1 DEF Offset
  <2>3. pageSize \in 1..MaxLimit => Offset \in Int
    BY <1>0, PagesAssumption DEF PagesTyped, Offset
  <2> QED
    BY <1>0, <2>1, <2>2, <2>3 DEF PagesInv, PagesTyped
<1>3. CASE UNCHANGED pagevars
  BY <1>3 DEF pagevars, PagesInv, PagesTyped, Offset
<1> QED
  BY <1>1, <1>2, <1>3 DEF PagesNext

(* Whoever reads page after page until a short one has had every row once  *)
(* and in order, for every page size the limit admits and however many     *)
(* rows are added at the end meanwhile.                                    *)
THEOREM PagesShowAll == PagesSpec => []PagesCover
<1>1. PagesInv => PagesCover
  BY DEF PagesInv, PagesCover, Upto
<1> QED
  BY <1>1, PagesInitInv, PagesNextInv, PTL DEF PagesSpec

-----------------------------------------------------------------------------
(* Chunks. The job's chunks rise; the one kept back is the last one taken  *)
(* and later than all that is written; what is not kept back is written.   *)
ChunksTyped ==
  /\ job \in Seq(Nat) /\ last \in Nat /\ taken \in Nat /\ written \in Seq(Nat)
  /\ how \in {"sse", "pro", "plain"} /\ failed \in BOOLEAN

JobRises ==
  /\ \A i \in 1..Len(job) : job[i] # 0 => taken < job[i]
  /\ \A i, j \in 1..Len(job) :
       i < j /\ job[i] # 0 /\ job[j] # 0 => job[i] < job[j]

WrittenRises ==
  /\ \A i, j \in 1..Len(written) : i < j => written[i] < written[j]
  /\ \A i \in 1..Len(written) : written[i] <= taken

KeptBack ==
  /\ last # 0 => last = taken
  /\ how = "plain" => last = 0
  /\ ended = "no" /\ last # 0 =>
       \A i \in 1..Len(written) : written[i] < last

LastWritten ==
  ~failed /\ taken > 0 /\ (last = 0 \/ ended = "closed")
    => Len(written) > 0 /\ written[Len(written)] = taken

ChunksInv == ChunksTyped /\ JobRises /\ WrittenRises /\ KeptBack /\ LastWritten

LEMMA ChunksInitInv == ChunksInit => ChunksInv
<1> SUFFICES ASSUME ChunksInit PROVE ChunksInv
  OBVIOUS
<1>1. PICK n \in 0..MaxChunks, blank \in 0..MaxChunks :
        job = [i \in 1..n |-> IF i = blank THEN 0 ELSE i]
  BY DEF ChunksInit, Jobs
<1>2. n \in Nat /\ blank \in Nat
  BY ChunksAssumption
<1>3. /\ job \in Seq(Nat) /\ Len(job) = n
      /\ \A i \in 1..n : job[i] = IF i = blank THEN 0 ELSE i
  BY <1>1, <1>2
<1>4. JobRises
  BY <1>2, <1>3 DEF ChunksInit, JobRises
<1>f. failed \in BOOLEAN
  BY DEF ChunksInit
<1>e. written = <<>> /\ last = 0 /\ taken = 0 /\ how \in {"sse", "pro", "plain"}
  BY DEF ChunksInit
<1>5. ChunksTyped
  BY <1>3, <1>e, <1>f DEF ChunksTyped
<1>6. WrittenRises
  BY DEF ChunksInit, WrittenRises
<1>7. KeptBack /\ LastWritten
  BY DEF ChunksInit, KeptBack, LastWritten
<1> QED
  BY <1>4, <1>5, <1>6, <1>7 DEF ChunksInv

(* Receiving: the rest of the job, whose chunks are later than the one     *)
(* that is taken now.                                                      *)
LEMMA ReceiveRises ==
  ASSUME ChunksTyped, JobRises, Receive,
         taken' = taken \/ (Chunk # 0 /\ taken' = Chunk)
  PROVE  job' \in Seq(Nat) /\ JobRises' /\ Chunk \in Nat
         /\ (Chunk # 0 => taken < Chunk)
<1> USE DEF ChunksTyped
<1>1. CASE job = <<>>
  <2>1. job' = <<>> /\ Chunk = 0 /\ taken' = taken
    BY <1>1 DEF Receive, Chunk
  <2> QED
    BY <2>1 DEF JobRises
<1>2. CASE job # <<>>
  <2>1. /\ Chunk = job[1] /\ job' = Tail(job) /\ Len(job) \in Nat /\ Len(job) >= 1
    BY <1>2 DEF Receive, Chunk
  <2>2. /\ job' \in Seq(Nat) /\ Len(job') = Len(job) - 1
        /\ \A i \in 1..Len(job') : job'[i] = job[i + 1]
    BY <1>2, <2>1
  <2>3. Chunk \in Nat /\ (Chunk # 0 => taken < Chunk)
    BY <2>1 DEF JobRises
  <2>4. ASSUME NEW i \in 1..Len(job'), job'[i] # 0 PROVE taken' < job'[i]
    <3>1. i + 1 \in 1..Len(job) /\ job'[i] = job[i + 1] /\ 1 \in 1..Len(job)
      BY <2>1, <2>2
    <3>2. taken < job[i + 1] /\ (Chunk # 0 => Chunk < job[i + 1])
      BY <2>1, <2>4, <3>1 DEF JobRises
    <3> QED
      BY <3>1, <3>2
  <2>5. ASSUME NEW i \in 1..Len(job'), NEW j \in 1..Len(job'),
               i < j, job'[i] # 0, job'[j] # 0
        PROVE  job'[i] < job'[j]
    <3>1. i + 1 \in 1..Len(job) /\ j + 1 \in 1..Len(job) /\ i + 1 < j + 1
      BY <2>1, <2>2, <2>5
    <3> QED
      BY <2>2, <2>5, <3>1 DEF JobRises
  <2> QED
    BY <2>2, <2>3, <2>4, <2>5 DEF JobRises
<1> QED
  BY <1>1, <1>2

(* A write that succeeds puts a chunk behind all the others.               *)
LEMMA WriteRises ==
  ASSUME written \in Seq(Nat), WrittenRises, NEW c \in Nat, taken \in Nat,
         \A i \in 1..Len(written) : written[i] < c,
         written' = Append(written, c), taken' \in Nat, c <= taken',
         taken <= taken'
  PROVE  /\ written' \in Seq(Nat) /\ WrittenRises'
         /\ Len(written') > 0 /\ written'[Len(written')] = c
<1>1. /\ written' \in Seq(Nat) /\ Len(written') = Len(written) + 1
      /\ Len(written) \in Nat
      /\ \A i \in 1..Len(written') :
           written'[i] = IF i = Len(written) + 1 THEN c ELSE written[i]
  OBVIOUS
<1>2. \A i \in 1..Len(written) : written[i] \in Nat
  OBVIOUS
<1>3. ASSUME NEW i \in 1..Len(written'), NEW j \in 1..Len(written'), i < j
      PROVE  written'[i] < written'[j]
  <2>1. i \in 1..Len(written) /\ written'[i] = written[i]
    BY <1>1, <1>3
  <2>2. CASE j = Len(written) + 1
    BY <1>1, <2>1, <2>2
  <2>3. CASE j # Len(written) + 1
    <3>1. j \in 1..Len(written) /\ written'[j] = written[j]
      BY <1>1, <2>3
    <3> QED
      BY <1>3, <2>1, <3>1 DEF WrittenRises
  <2> QED
    BY <2>2, <2>3
<1>4. \A i \in 1..Len(written') : written'[i] <= taken'
  BY <1>1, <1>2 DEF WrittenRises
<1> QED
  BY <1>1, <1>3, <1>4 DEF WrittenRises

LEMMA ChunksNextInv == ChunksInv /\ [ChunksNext]_chunkvars => ChunksInv'
<1> SUFFICES ASSUME ChunksInv, [ChunksNext]_chunkvars PROVE ChunksInv'
  OBVIOUS
<1>0. ChunksTyped /\ JobRises /\ WrittenRises /\ KeptBack /\ LastWritten
  BY DEF ChunksInv
<1>a. last \in Nat /\ taken \in Nat /\ written \in Seq(Nat)
  BY <1>0 DEF ChunksTyped
<1>1. CASE Tick
  <2>1. /\ ended = "no" /\ how # "plain" /\ last # 0 /\ last' = 0
        /\ Written(last, "no") /\ UNCHANGED <<how, job, taken>>
    BY <1>1 DEF Tick
  <2>2. JobRises'
    BY <1>0, <2>1 DEF JobRises
  <2>3. CASE written' = Append(written, last) /\ ended' = "no" /\ UNCHANGED failed
    <3>1. /\ written' \in Seq(Nat) /\ WrittenRises'
          /\ Len(written') > 0 /\ written'[Len(written')] = last
      BY <1>0, <1>a, <2>1, <2>3, WriteRises DEF KeptBack
    <3> QED
      BY <1>0, <2>1, <2>2, <2>3, <3>1
      DEF ChunksInv, ChunksTyped, KeptBack, LastWritten
  <2>4. CASE failed' = TRUE /\ UNCHANGED written
    BY <1>0, <2>1, <2>2, <2>4
    DEF ChunksInv, ChunksTyped, WrittenRises, KeptBack, LastWritten
  <2> QED
    BY <2>1, <2>3, <2>4 DEF Written
<1>2. CASE KeepChunk
  <2>1. /\ ended = "no" /\ how # "plain" /\ Chunk # 0 /\ last' = Chunk
        /\ taken' = Chunk /\ Receive /\ UNCHANGED <<how, written, failed, ended>>
    BY <1>2 DEF KeepChunk
  <2>r. Receive /\ (taken' = taken \/ (Chunk # 0 /\ taken' = Chunk))
    BY <2>1
  <2>2. job' \in Seq(Nat) /\ JobRises' /\ Chunk \in Nat /\ taken < Chunk
    BY <1>0, <2>1, <2>r, ReceiveRises
  <2>3. \A i \in 1..Len(written) : written[i] \in Nat /\ written[i] < Chunk
    BY <1>0, <1>a, <2>2 DEF WrittenRises
  <2>4. WrittenRises'
    BY <1>0, <2>1, <2>3, <2>2 DEF WrittenRises
  <2> QED
    BY <1>0, <2>1, <2>2, <2>3, <2>4 DEF ChunksInv, ChunksTyped, KeptBack, LastWritten
<1>3. CASE Flush
  <2>1. /\ ended = "no" /\ how # "plain" /\ Receive
        /\ UNCHANGED <<how, last, taken>>
    BY <1>3 DEF Flush
  <2>r. Receive /\ (taken' = taken \/ (Chunk # 0 /\ taken' = Chunk))
    BY <2>1
  <2>2. job' \in Seq(Nat) /\ JobRises'
    BY <1>0, <2>r, ReceiveRises
  <2>3. CASE last # 0 /\ written' = Append(written, last) /\ ended' = "closed"
             /\ UNCHANGED failed
    <3>1. /\ written' \in Seq(Nat) /\ WrittenRises'
          /\ Len(written') > 0 /\ written'[Len(written')] = last
      BY <1>0, <1>a, <2>1, <2>3, WriteRises DEF KeptBack
    <3> QED
      BY <1>0, <2>1, <2>2, <2>3, <3>1
      DEF ChunksInv, ChunksTyped, KeptBack, LastWritten
  <2>4. CASE failed' = TRUE /\ UNCHANGED written /\ ended' \in {"closed", "broken"}
    BY <1>0, <2>1, <2>2, <2>4
    DEF ChunksInv, ChunksTyped, WrittenRises, KeptBack, LastWritten
  <2>5. CASE last = 0 /\ ended' = "closed" /\ UNCHANGED <<written, failed>>
    BY <1>0, <2>1, <2>2, <2>5
    DEF ChunksInv, ChunksTyped, WrittenRises, KeptBack, LastWritten
  <2> QED
    BY <1>3, <2>3, <2>4, <2>5 DEF Flush, Written, Over
<1>4. CASE SendChunk
  <2>1. ended = "no" /\ how = "plain" /\ Receive /\ UNCHANGED <<how, last>> /\ last = 0
    BY <1>0, <1>4 DEF SendChunk, KeptBack
  <2>2. taken' = taken \/ (Chunk # 0 /\ taken' = Chunk)
    BY <1>4 DEF SendChunk
  <2>3. job' \in Seq(Nat) /\ JobRises' /\ Chunk \in Nat /\ (Chunk # 0 => taken < Chunk)
    BY <1>0, <2>1, <2>2, ReceiveRises
  <2>4. \A i \in 1..Len(written) : written[i] \in Nat /\ (Chunk # 0 => written[i] < Chunk)
    BY <1>0, <1>a, <2>3 DEF WrittenRises
  <2>5. CASE Chunk # 0 /\ taken' = Chunk /\ written' = Append(written, Chunk)
             /\ ended' = "no" /\ UNCHANGED failed
    <3>1. /\ written' \in Seq(Nat) /\ WrittenRises'
          /\ Len(written') > 0 /\ written'[Len(written')] = Chunk
      BY <1>0, <1>a, <2>3, <2>4, <2>5, WriteRises
    <3> QED
      BY <1>0, <2>1, <2>3, <2>5, <3>1
      DEF ChunksInv, ChunksTyped, KeptBack, LastWritten
  <2>6. CASE Chunk # 0 /\ taken' = Chunk /\ failed' = TRUE /\ UNCHANGED written
    <3>1. WrittenRises'
      BY <1>0, <2>3, <2>4, <2>6 DEF WrittenRises
    <3> QED
      BY <1>0, <2>1, <2>3, <2>6, <3>1
      DEF ChunksInv, ChunksTyped, KeptBack, LastWritten
  <2>7. CASE ended' = "closed" /\ UNCHANGED <<written, failed, taken>>
    BY <1>0, <2>1, <2>3, <2>7
    DEF ChunksInv, ChunksTyped, WrittenRises, KeptBack, LastWritten
  <2> QED
    BY <1>4, <2>5, <2>6, <2>7 DEF SendChunk, Written, Over
<1>5. CASE UNCHANGED chunkvars
  BY <1>0, <1>5
  DEF chunkvars, ChunksInv, ChunksTyped, JobRises, WrittenRises, KeptBack, LastWritten
<1> QED
  BY <1>1, <1>2, <1>3, <1>4, <1>5 DEF ChunksNext

(* The chunks come in order, whichever ticks come between them, and when   *)
(* the sending is over without a failed write the last one taken from the  *)
(* job is the last one the client has, for a job of any length.            *)
THEOREM LastIsSent == ChunksSpec => []LastDelivered
<1>1. ChunksInv => LastDelivered
  BY DEF ChunksInv, ChunksTyped, WrittenRises, LastWritten, LastDelivered
<1> QED
  BY <1>1, ChunksInitInv, ChunksNextInv, PTL DEF ChunksSpec

-----------------------------------------------------------------------------
(* Derived values. No slice reaches beyond the cells of its array. The     *)
(* details of an error fill more than half of their array, so doubling     *)
(* them needs a new one; the attributes of a context fill an array of one  *)
(* or two cells, and in a larger one they are the first three at least.    *)
SomeArrays(as) ==
  /\ as \in Seq([cap : Nat, cells : Seq(Nat)])
  /\ \A a \in 1..Len(as) : Len(as[a].cells) <= as[a].cap

SliceOf(as, s) ==
  /\ s \in [array : Nat, len : Nat] /\ s.array <= Len(as)
  /\ s.array = 0 => s.len = 0
  /\ s.array # 0 => 0 < s.len /\ s.len <= Len(as[s.array].cells)

ErrorKept(as, x) ==
  /\ x.slice.array # 0 => as[x.slice.array].cap < 2 * x.slice.len
  /\ Content(as, x.slice) = x.given

ContextKept(as, x) ==
  /\ Len(x.given) = x.slice.len
  /\ x.slice.len <= 3 => Content(as, x.slice) = x.given
  /\ x.slice.array # 0 =>
       \/ as[x.slice.array].cap \in {1, 2} /\ x.slice.len = as[x.slice.array].cap
       \/ as[x.slice.array].cap >= 4 /\ x.slice.len >= 3

Kind(as, x) ==
  /\ x \in [slice : [array : Nat, len : Nat], given : Seq(Nat)]
  /\ SliceOf(as, x.slice)
  /\ derives = "error" => ErrorKept(as, x)
  /\ derives = "context" => ContextKept(as, x)

DeriveInv ==
  /\ derives \in {"context", "error"} /\ SomeArrays(arrays)
  /\ nodes \in Seq([slice : [array : Nat, len : Nat], given : Seq(Nat)])
  /\ \A n \in 1..Len(nodes) : Kind(arrays, nodes[n])

(* Sequences with the same domain, and an index within one.                *)
LEMMA SameLength ==
  ASSUME NEW S, NEW p \in Seq(S), NEW q \in Seq(S), DOMAIN p = DOMAIN q
  PROVE  Len(p) = Len(q)
<1> DEFINE m == Len(p)
           n == Len(q)
<1>1. m \in Nat /\ n \in Nat /\ 1..m = 1..n
  BY LenProperties, Zenon
<1> HIDE DEF m, n
<1>2. m = n
  BY <1>1
<1> QED
  BY <1>2 DEF m, n

LEMMA WithinLength ==
  ASSUME NEW S, NEW seq \in Seq(S), NEW i \in Nat, i <= Len(seq), i # 0
  PROVE  i \in 1..Len(seq) /\ seq[i] \in S
<1> DEFINE n == Len(seq)
<1>1. n \in Nat /\ i <= n
  BY LenProperties
<1> HIDE DEF n
<1>2. i \in 1..n
  BY <1>1
<1>3. i \in 1..Len(seq)
  BY <1>2 DEF n
<1>4. seq[i] \in S
  BY <1>3, LenProperties
<1> QED
  BY <1>3, <1>4

LEMMA CellsChanged ==
  ASSUME NEW x \in [cap : Nat, cells : Seq(Nat)], NEW c
  PROVE  [x EXCEPT !.cells = c] = [cap |-> x.cap, cells |-> c]
OBVIOUS

LEMMA SliceTyped ==
  ASSUME NEW as, NEW s, SomeArrays(as), SliceOf(as, s)
  PROVE  /\ Len(as) \in Nat /\ s.array \in Nat /\ s.len \in Nat /\ Cap(as, s) \in Nat
         /\ s.array # 0 =>
              /\ s.array \in 1..Len(as) /\ as[s.array].cells \in Seq(Nat)
              /\ as[s.array] \in [cap : Nat, cells : Seq(Nat)]
              /\ Cap(as, s) = as[s.array].cap /\ Cap(as, s) \in Nat
              /\ Len(as[s.array].cells) \in Nat
              /\ 0 < s.len /\ s.len <= Len(as[s.array].cells)
              /\ Len(as[s.array].cells) <= as[s.array].cap
<1> DEFINE Array == [cap : Nat, cells : Seq(Nat)]
<1>a. as \in Seq(Array) /\ s \in [array : Nat, len : Nat]
  BY DEF SomeArrays, SliceOf
<1>b. s.array <= Len(as) /\ (s.array # 0 => 0 < s.len /\ s.len <= Len(as[s.array].cells))
  BY DEF SliceOf
<1>c. s.array \in Nat /\ s.len \in Nat
  BY <1>a
<1>d. Len(as) \in Nat
  BY <1>a, LenProperties
<1>2. CASE s.array = 0
  BY <1>c, <1>d, <1>2 DEF Cap
<1>3. CASE s.array # 0
  <2>1. s.array \in 1..Len(as) /\ as[s.array] \in Array
    BY <1>a, <1>b, <1>c, <1>3, WithinLength, Zenon
  <2>3. as[s.array].cap \in Nat /\ as[s.array].cells \in Seq(Nat)
    BY <2>1
  <2>4. Len(as[s.array].cells) \in Nat
    BY <2>3, LenProperties, Zenon
  <2>5. Len(as[s.array].cells) <= as[s.array].cap
    BY <2>1 DEF SomeArrays
  <2>6. Cap(as, s) = as[s.array].cap
    BY <1>3 DEF Cap
  <2> QED
    BY <1>b, <1>c, <1>d, <1>3, <2>1, <2>3, <2>4, <2>5, <2>6, Zenon
<1> QED
  BY <1>2, <1>3

(* What a slice shows are the first cells of its array.                    *)
Shows(as, s, c) ==
  /\ c \in Seq(Nat) /\ Len(c) = s.len
  /\ \A i \in 1..s.len : s.array # 0 /\ c[i] = as[s.array].cells[i]

LEMMA ContentShows ==
  ASSUME NEW as, NEW s, SomeArrays(as), SliceOf(as, s)
  PROVE  Shows(as, s, Content(as, s))
<1> USE DEF Shows
<1>1. CASE s.array = 0
  BY <1>1 DEF Content, SliceOf
<1>2. CASE s.array # 0
  <2>1. /\ as[s.array].cells \in Seq(Nat) /\ s.len \in Nat
        /\ s.len <= Len(as[s.array].cells)
    BY <1>2, SliceTyped
  <2> DEFINE a == as[s.array].cells
             c == SubSeq(a, 1, s.len)
  <2>2. \A i \in 1..s.len : a[i] \in Nat
    <3>1. a \in Seq(Nat) /\ s.len <= Len(a) /\ s.len \in Nat
      BY <2>1
    <3> HIDE DEF a
    <3> QED
      BY <3>1
  <2>4. Content(as, s) = c
    BY <1>2 DEF Content
  <2>3. /\ c \in Seq(Nat) /\ Len(c) = s.len
        /\ \A i \in 1..s.len : c[i] = a[i]
    <3>1. s.len \in Nat
      BY <2>1
    <3> HIDE DEF a
    <3> QED
      BY <2>2, <3>1, SubSeqProperties
  <2> HIDE DEF c
  <2> QED
    BY <1>2, <2>3, <2>4
<1> QED
  BY <1>1, <1>2

(* Two arrays that agree on a slice's cells show it alike.                 *)
LEMMA ContentStays ==
  ASSUME NEW as, NEW bs, NEW s, SomeArrays(as), SomeArrays(bs),
         SliceOf(as, s), SliceOf(bs, s),
         \A i \in 1..s.len : bs[s.array].cells[i] = as[s.array].cells[i]
  PROVE  Content(bs, s) = Content(as, s)
<1> DEFINE c == Content(as, s)
           d == Content(bs, s)
<1>1. /\ c \in Seq(Nat) /\ Len(c) = s.len
      /\ \A i \in 1..s.len : c[i] = as[s.array].cells[i]
  <2>1. Shows(as, s, c)
    BY ContentShows, Zenon
  <2> QED
    BY <2>1, Zenon DEF Shows
<1>2. /\ d \in Seq(Nat) /\ Len(d) = s.len
      /\ \A i \in 1..s.len : d[i] = bs[s.array].cells[i]
  <2>1. Shows(bs, s, d)
    BY ContentShows, Zenon
  <2> QED
    BY <2>1, Zenon DEF Shows
<1> HIDE DEF c, d
<1>3. c = d
  BY <1>1, <1>2, SeqEqual
<1> QED
  BY <1>3 DEF c, d

(* An append without room: all arrays stay, the values are in a new one,   *)
(* which they fill to the last cell that was written.                      *)
Moved(as, s, values, r) ==
  LET n == s.len + Len(values) IN
  /\ SomeArrays(r.arrays) /\ SliceOf(r.arrays, r.slice)
  /\ Len(r.arrays) = Len(as) + 1
  /\ \A a \in 1..Len(as) : r.arrays[a] = as[a]
  /\ r.slice = [array |-> Len(as) + 1, len |-> n]
  /\ r.arrays[Len(as) + 1].cap = IF n > 2 * Cap(as, s) THEN n ELSE 2 * Cap(as, s)
  /\ Content(r.arrays, r.slice) = Content(as, s) \o values

LEMMA AppendMoves ==
  ASSUME NEW as, NEW s, NEW values \in Seq(Nat), SomeArrays(as), SliceOf(as, s),
         s.len + Len(values) > Cap(as, s)
  PROVE  Moved(as, s, values, GoAppend(as, s, values))
<1> DEFINE Array == [cap : Nat, cells : Seq(Nat)]
           r == GoAppend(as, s, values)
           k == Len(as)
           old == Cap(as, s)
           n == s.len + Len(values)
           cap == IF n > 2 * old THEN n ELSE 2 * old
           cells == Content(as, s) \o values
           new == [cap |-> cap, cells |-> cells]
           bs == Append(as, new)
           t == [array |-> k + 1, len |-> n]
<1>1. k \in Nat /\ s.len \in Nat /\ old \in Nat
  BY SliceTyped, Zenon
<1>2. Len(values) \in Nat
  BY LenProperties, Zenon
<1>3. n \in Nat /\ n > old
  <2>1. n \in Nat
    BY <1>1, <1>2
  <2> QED
    BY <2>1
<1>4. r.arrays = bs /\ r.slice = t
  <2>1. ~(n <= old)
    <3> HIDE DEF n, old
    <3> QED
      BY <1>1, <1>3
  <2>2. r = [arrays |-> bs, slice |-> t]
    BY <2>1 DEF GoAppend
  <2> HIDE DEF r, bs, t
  <2> QED
    BY <2>2
<1>5. cells \in Seq(Nat) /\ Len(cells) = n
  <2>1. /\ Content(as, s) \in Seq(Nat) /\ Len(Content(as, s)) = s.len
    BY ContentShows, Zenon DEF Shows
  <2>2. cells \in Seq(Nat) /\ Len(cells) = Len(Content(as, s)) + Len(values)
    BY <2>1, ConcatProperties, Zenon
  <2> QED
    BY <2>1, <2>2, Zenon
<1> HIDE DEF old, n, cells, r
<1>6. cap \in Nat /\ n <= cap /\ n > 0
  BY <1>1, <1>3
<1> HIDE DEF cap
<1>7. new \in Array /\ new.cap = cap /\ new.cells = cells
  BY <1>5, <1>6
<1> HIDE DEF new
<1>8. as \in Seq(Array) /\ \A a \in 1..k : Len(as[a].cells) <= as[a].cap
  BY Zenon DEF SomeArrays
<1>9. /\ bs \in Seq(Array) /\ Len(bs) = k + 1
      /\ (\A a \in 1..k : bs[a] = as[a]) /\ bs[k + 1] = new
  <2>0. as \in Seq(Array) /\ new \in Array /\ bs = Append(as, new)
    BY <1>7, <1>8
  <2> HIDE DEF Array, bs
  <2>1. bs \in Seq(Array)
    BY <2>0, AppendProperties
  <2>2. Len(bs) = Len(as) + 1
    BY <2>0, AppendProperties
  <2>3. \A a \in 1..Len(as) : bs[a] = as[a]
    BY <2>0, AppendProperties
  <2>4. bs[Len(as) + 1] = new
    BY <2>0, AppendProperties
  <2> QED
    BY <2>1, <2>2, <2>3, <2>4, Zenon
<1> HIDE DEF bs, k
<1>10. \A a \in 1..k + 1 : Len(bs[a].cells) <= bs[a].cap
  <2> SUFFICES ASSUME NEW a \in 1..k + 1 PROVE Len(bs[a].cells) <= bs[a].cap
    OBVIOUS
  <2>1. CASE a = k + 1
    <3>1. Len(bs[a].cells) = n /\ bs[a].cap = cap
      BY <1>5, <1>7, <1>9, <2>1, Zenon
    <3> QED
      BY <1>6, <3>1
  <2>2. CASE a # k + 1
    <3>1. a \in 1..k
      BY <1>1, <2>2
    <3> QED
      BY <1>8, <1>9, <3>1, Zenon
  <2> QED
    BY <2>1, <2>2
<1>11. SomeArrays(bs)
  BY <1>9, <1>10, Zenon DEF SomeArrays
<1>12. SliceOf(bs, t)
  <2>1. t \in [array : Nat, len : Nat] /\ t.array = k + 1 /\ t.len = n
    BY <1>1, <1>3
  <2>2. k + 1 # 0 /\ k + 1 <= k + 1 /\ n <= n
    BY <1>1, <1>3
  <2>3. bs[t.array].cells = cells
    BY <1>7, <1>9, <2>1, Zenon
  <2> HIDE DEF t
  <2> QED
    BY <1>5, <1>6, <1>9, <2>1, <2>2, <2>3, Zenon DEF SliceOf
<1>13. Content(bs, t) = cells
  <2>1. t.array = k + 1 /\ t.len = n
    BY <1>1, <1>3
  <2> HIDE DEF t
  <2> DEFINE d == Content(bs, t)
  <2>2. /\ d \in Seq(Nat) /\ Len(d) = n
        /\ \A i \in 1..n : d[i] = cells[i]
    <3>1. /\ d \in Seq(Nat) /\ Len(d) = t.len
          /\ \A i \in 1..t.len : d[i] = bs[t.array].cells[i]
      <4>1. Shows(bs, t, d)
        BY <1>11, <1>12, ContentShows, Zenon
      <4> QED
        BY <4>1, Zenon DEF Shows
    <3> HIDE DEF d
    <3>2. bs[t.array].cells = cells
      BY <1>7, <1>9, <2>1, Zenon
    <3> QED
      BY <2>1, <3>1, <3>2, Zenon
  <2> HIDE DEF d
  <2>3. d = cells
    BY <1>5, <2>2, SeqEqual
  <2> QED
    BY <2>3 DEF d
<1>14. bs[k + 1].cap = cap
  BY <1>7, <1>9, Zenon
<1> QED
  BY <1>4, <1>9, <1>11, <1>12, <1>13, <1>14, Zenon DEF Moved, r, k, n, cap, cells, old

(* An append with room: only cells behind the slice change, in its own     *)
(* array, which has as many as before or more.                             *)
InPlace(as, s, values, r) ==
  /\ SomeArrays(r.arrays) /\ SliceOf(r.arrays, r.slice)
  /\ Len(r.arrays) = Len(as) /\ s.array # 0
  /\ \A a \in 1..Len(as) : a # s.array => r.arrays[a] = as[a]
  /\ r.arrays[s.array].cap = as[s.array].cap
  /\ Len(r.arrays[s.array].cells) >= Len(as[s.array].cells)
  /\ \A i \in 1..s.len : r.arrays[s.array].cells[i] = as[s.array].cells[i]
  /\ r.slice = [array |-> s.array, len |-> s.len + Len(values)]
  /\ Content(r.arrays, r.slice) = Content(as, s) \o values

LEMMA AppendInPlace ==
  ASSUME NEW as, NEW s, NEW values \in Seq(Nat), SomeArrays(as), SliceOf(as, s),
         values # <<>>, s.len + Len(values) <= Cap(as, s)
  PROVE  InPlace(as, s, values, GoAppend(as, s, values))
<1> DEFINE Array == [cap : Nat, cells : Seq(Nat)]
           r == GoAppend(as, s, values)
           b == s.array
           k == Len(as)
           old == as[b].cells
           cap == as[b].cap
           n == s.len + Len(values)
           front == Content(as, s) \o values
           tail == SubSeq(old, n + 1, Len(old))
           cells == front \o tail
           new == [cap |-> cap, cells |-> cells]
           bs == [as EXCEPT ![b] = new]
           t == [array |-> b, len |-> n]
<1>1. Len(values) \in Nat /\ Len(values) > 0
  OBVIOUS
<1>2. s.len \in Nat /\ Cap(as, s) \in Nat /\ b \in Nat
  BY SliceTyped, Zenon
<1>3. n \in Nat /\ n > 0 /\ n >= s.len
  BY <1>1, <1>2
<1>4. b # 0
  <2> SUFFICES ASSUME b = 0 PROVE FALSE
    OBVIOUS
  <2>1. Cap(as, s) = 0
    BY DEF Cap
  <2> QED
    BY <1>3, <2>1
<1>5. /\ k \in Nat /\ b \in 1..k /\ as[b] \in Array /\ old \in Seq(Nat)
      /\ Len(old) \in Nat /\ cap \in Nat /\ Len(old) <= cap /\ s.len <= Len(old)
      /\ Cap(as, s) = cap
  BY <1>4, SliceTyped, Zenon
<1>6. /\ Content(as, s) \in Seq(Nat) /\ Len(Content(as, s)) = s.len
      /\ \A i \in 1..s.len : Content(as, s)[i] = old[i]
  <2>1. Shows(as, s, Content(as, s))
    BY ContentShows, Zenon
  <2> QED
    BY <2>1, Zenon DEF Shows
<1>7. /\ front \in Seq(Nat) /\ Len(front) = n
      /\ \A i \in 1..s.len : front[i] = old[i]
  <2> DEFINE c == Content(as, s)
  <2>1. c \in Seq(Nat) /\ Len(c) = s.len /\ \A i \in 1..s.len : c[i] = old[i]
    BY <1>6
  <2> HIDE DEF c, old
  <2>2. c \o values \in Seq(Nat)
    BY <2>1, ConcatProperties, Zenon
  <2>a. Len(c \o values) = Len(c) + Len(values)
    BY <2>1, ConcatProperties, Zenon
  <2>3. Len(c \o values) = n
    BY <2>1, <2>a, Zenon
  <2>4. \A i \in 1..Len(c) + Len(values) :
          (c \o values)[i] = IF i <= Len(c) THEN c[i] ELSE values[i - Len(c)]
    BY <2>1, ConcatProperties, Zenon
  <2>5. \A i \in 1..s.len : (c \o values)[i] = old[i]
    BY <1>1, <1>2, <2>1, <2>4
  <2> QED
    BY <2>2, <2>3, <2>5 DEF c
<1>8. tail \in Seq(Nat) /\ Len(tail) \in Nat /\ n + Len(tail) >= Len(old)
      /\ (Len(old) <= cap /\ n <= cap => n + Len(tail) <= cap)
  <2> HIDE DEF n, old
  <2>1. \A i \in n + 1..Len(old) : old[i] \in Nat
    BY <1>3, <1>5
  <2>2. Len(old) \in Int /\ n + 1 \in Int
    BY <1>3, <1>5
  <2>a. tail \in Seq(Nat)
    BY <2>1, <2>2, SubSeqProperties
  <2>b. Len(tail) = IF n + 1 <= Len(old) THEN Len(old) - (n + 1) + 1 ELSE 0
    BY <2>1, <2>2, SubSeqProperties
  <2>3. tail \in Seq(Nat)
        /\ Len(tail) = IF n + 1 <= Len(old) THEN Len(old) - (n + 1) + 1 ELSE 0
    BY <2>a, <2>b, Zenon
  <2> HIDE DEF tail, cap
  <2> QED
    BY <1>3, <1>5, <2>3
<1>9. n <= cap
  BY <1>5
<1>10. r.arrays = bs /\ r.slice = t
  <2>1. n <= Cap(as, s) /\ b # 0 /\ values # <<>>
    BY <1>4
  <2>2. r = [arrays |-> [as EXCEPT ![b].cells = cells], slice |-> [s EXCEPT !.len = n]]
    BY <2>1, Zenon DEF GoAppend
  <2>3. [s EXCEPT !.len = n] = t
    BY DEF SliceOf
  <2>4. [as[b] EXCEPT !.cells = cells] = new
    BY <1>5, CellsChanged, Zenon
  <2>5. [as EXCEPT ![b].cells = cells] = bs
    BY <2>4, Zenon
  <2>6. r = [arrays |-> bs, slice |-> t]
    BY <2>2, <2>3, <2>5, Zenon
  <2> HIDE DEF r, bs, t
  <2> QED
    BY <2>6
<1> HIDE DEF n, front, tail, old, r
<1>11. /\ cells \in Seq(Nat) /\ Len(cells) = n + Len(tail)
       /\ \A i \in 1..n : cells[i] = front[i]
  <2>1. cells \in Seq(Nat)
    BY <1>7, <1>8, ConcatProperties, Zenon
  <2>2. Len(cells) = n + Len(tail)
    BY <1>7, <1>8, ConcatProperties, Zenon
  <2>3. \A i \in 1..n + Len(tail) :
          cells[i] = IF i <= n THEN front[i] ELSE tail[i - n]
    BY <1>7, <1>8, ConcatProperties, Zenon
  <2> HIDE DEF cells
  <2>4. \A i \in 1..n : cells[i] = front[i]
    BY <1>3, <1>8, <2>3
  <2> QED
    BY <2>1, <2>2, <2>4
<1> HIDE DEF cells, cap
<1>12. /\ Len(cells) >= Len(old) /\ Len(cells) <= cap /\ n <= Len(cells)
       /\ \A i \in 1..s.len : cells[i] = old[i]
  <2>1. Len(cells) >= Len(old) /\ Len(cells) <= cap
    BY <1>5, <1>8, <1>9, <1>11
  <2>2. n <= Len(cells)
    BY <1>3, <1>8, <1>11
  <2>3. ASSUME NEW i \in 1..s.len PROVE cells[i] = old[i]
    <3>1. i \in 1..n
      BY <1>2, <1>3
    <3> QED
      BY <1>7, <1>11, <3>1, Zenon
  <2> QED
    BY <2>1, <2>2, <2>3, Zenon
<1>13. new \in Array /\ new.cap = cap /\ new.cells = cells
  BY <1>5, <1>11
<1> HIDE DEF new
<1>14. as \in Seq(Array) /\ \A a \in 1..k : Len(as[a].cells) <= as[a].cap
  BY Zenon DEF SomeArrays
<1>15. /\ bs \in Seq(Array) /\ Len(bs) = k
       /\ (\A a \in 1..k : a # b => bs[a] = as[a]) /\ bs[b] = new
  <2>0. /\ as \in Seq(Array) /\ new \in Array /\ b \in 1..Len(as)
        /\ bs = [as EXCEPT ![b] = new]
    BY <1>5, <1>13, <1>14
  <2> HIDE DEF Array, b, bs
  <2>1. bs \in Seq(Array)
    BY <2>0, ExceptSeq
  <2>2. as \in [1..Len(as) -> Array]
    BY <2>0, LenProperties
  <2>3. (\A a \in 1..Len(as) : a # b => bs[a] = as[a]) /\ bs[b] = new
    BY <2>0, <2>2
  <2>4. DOMAIN bs = DOMAIN as
    BY <2>0, <2>2
  <2>5. Len(bs) = Len(as)
    BY <2>0, <2>1, <2>4, SameLength, Zenon
  <2> QED
    BY <2>1, <2>3, <2>5, Zenon
<1> HIDE DEF bs, k
<1>16. \A a \in 1..k : Len(bs[a].cells) <= bs[a].cap
  <2> SUFFICES ASSUME NEW a \in 1..k PROVE Len(bs[a].cells) <= bs[a].cap
    OBVIOUS
  <2>1. CASE a = b
    BY <1>12, <1>13, <1>15, <2>1, Zenon
  <2>2. CASE a # b
    BY <1>14, <1>15, <2>2, Zenon
  <2> QED
    BY <2>1, <2>2
<1>17. SomeArrays(bs)
  BY <1>15, <1>16, Zenon DEF SomeArrays
<1>18. t \in [array : Nat, len : Nat] /\ t.array = b /\ t.len = n
  BY <1>2, <1>3
<1>19. SliceOf(bs, t)
  <2>1. bs[t.array].cells = cells
    BY <1>13, <1>15, <1>18, Zenon
  <2>2. b <= k
    BY <1>5
  <2> HIDE DEF t
  <2> QED
    BY <1>3, <1>4, <1>12, <1>15, <1>18, <2>1, <2>2, Zenon DEF SliceOf
<1>20. Content(bs, t) = front
  <2> HIDE DEF t
  <2> DEFINE d == Content(bs, t)
  <2>1. /\ d \in Seq(Nat) /\ Len(d) = n
        /\ \A i \in 1..n : d[i] = cells[i]
    <3>1. /\ d \in Seq(Nat) /\ Len(d) = t.len
          /\ \A i \in 1..t.len : d[i] = bs[t.array].cells[i]
      <4>1. Shows(bs, t, d)
        BY <1>17, <1>19, ContentShows, Zenon
      <4> QED
        BY <4>1, Zenon DEF Shows
    <3> HIDE DEF d
    <3>2. bs[t.array].cells = cells
      BY <1>13, <1>15, <1>18, Zenon
    <3> QED
      BY <1>18, <3>1, <3>2, Zenon
  <2> HIDE DEF d
  <2>2. d = front
    BY <1>7, <1>11, <2>1, SeqEqual
  <2> QED
    BY <2>2 DEF d
<1>21. bs[b].cap = cap /\ bs[b].cells = cells
  BY <1>13, <1>15, Zenon
<1> QED
  BY <1>4, <1>10, <1>12, <1>15, <1>17, <1>19, <1>20, <1>21, Zenon
  DEF InPlace, r, k, n, front, old, cap

(* The arrays after a step: those there were have kept the cells that an   *)
(* earlier value may show.                                                 *)
ArraysKept(as, bs) ==
  /\ Len(as) <= Len(bs)
  /\ \A a \in 1..Len(as) :
       /\ bs[a].cap = as[a].cap
       /\ Len(bs[a].cells) >= Len(as[a].cells)
       /\ derives = "error" => bs[a] = as[a]
       /\ \A i \in 1..3 : i <= Len(as[a].cells) => bs[a].cells[i] = as[a].cells[i]

(* What was derived before stays what it is.                               *)
LEMMA KindStays ==
  ASSUME NEW as, NEW bs, NEW x, SomeArrays(as), SomeArrays(bs),
         ArraysKept(as, bs), Kind(as, x)
  PROVE  Kind(bs, x)
<1> DEFINE s == x.slice
<1>1. SliceOf(as, s) /\ x \in [slice : [array : Nat, len : Nat], given : Seq(Nat)]
  BY DEF Kind
<1>2. /\ Len(as) \in Nat /\ s.array \in Nat /\ s.len \in Nat
      /\ s.array # 0 =>
           /\ s.array \in 1..Len(as) /\ Len(as[s.array].cells) \in Nat
           /\ 0 < s.len /\ s.len <= Len(as[s.array].cells)
  BY <1>1, SliceTyped, Zenon
<1>3. Len(bs) \in Nat /\ Len(as) <= Len(bs)
  <2>1. bs \in Seq([cap : Nat, cells : Seq(Nat)])
    BY DEF SomeArrays
  <2> QED
    BY <2>1, LenProperties DEF ArraysKept
<1>4. s.array # 0 =>
        /\ bs[s.array].cap = as[s.array].cap
        /\ Len(bs[s.array].cells) \in Nat
        /\ Len(bs[s.array].cells) >= Len(as[s.array].cells)
        /\ derives = "error" => bs[s.array] = as[s.array]
        /\ \A i \in 1..3 : i <= Len(as[s.array].cells)
             => bs[s.array].cells[i] = as[s.array].cells[i]
  <2> SUFFICES ASSUME s.array # 0
               PROVE  Len(bs[s.array].cells) \in Nat
    BY <1>2, Zenon DEF ArraysKept
  <2> DEFINE k == Len(bs)
  <2>1. s.array \in 1..k
    <3> DEFINE m == Len(as)
    <3>1. m \in Nat /\ k \in Nat /\ m <= k /\ s.array \in 1..m
      BY <1>2, <1>3
    <3> HIDE DEF m, k
    <3> QED
      BY <3>1
  <2>2. bs \in Seq([cap : Nat, cells : Seq(Nat)])
    BY DEF SomeArrays
  <2>3. bs[s.array] \in [cap : Nat, cells : Seq(Nat)]
    BY <2>1, <2>2, LenProperties
  <2> QED
    BY <2>3
<1> HIDE DEF s
<1>5. SliceOf(bs, s)
  <2> DEFINE m == Len(as)
             k == Len(bs)
             y == Len(as[s.array].cells)
             z == Len(bs[s.array].cells)
  <2>1. s.array <= k
    <3>1. m \in Nat /\ k \in Nat /\ m <= k /\ s.array \in Nat /\ s.array <= m
      BY <1>1, <1>2, <1>3, Zenon DEF SliceOf
    <3> HIDE DEF m, k
    <3> QED
      BY <3>1
  <2>2. s.array # 0 => s.len <= z
    <3>1. s.array # 0 => y \in Nat /\ z \in Nat /\ z >= y /\ s.len <= y /\ s.len \in Nat
      BY <1>2, <1>4, Zenon
    <3> HIDE DEF y, z
    <3> QED
      BY <3>1
  <2> QED
    BY <1>1, <1>2, <2>1, <2>2, Zenon DEF SliceOf
<1>6. CASE derives = "error"
  <2>1. \A i \in 1..s.len : bs[s.array].cells[i] = as[s.array].cells[i]
    <3>1. \A i \in 1..s.len : s.array # 0
      BY <1>1, <1>2, ContentShows, Zenon DEF Shows
    <3> QED
      BY <1>4, <1>6, <3>1, Zenon
  <2>2. Content(bs, s) = Content(as, s)
    BY <1>1, <1>5, <2>1, ContentStays, Zenon
  <2>3. ErrorKept(as, x)
    BY <1>6, Zenon DEF Kind
  <2>4. ErrorKept(bs, x)
    BY <1>4, <2>2, <2>3, Zenon DEF ErrorKept, s
  <2>5. derives # "context"
    BY <1>6
  <2> QED
    BY <1>1, <1>5, <2>4, <2>5, Zenon DEF Kind, s
<1>7. CASE derives # "error"
  <2> SUFFICES ASSUME derives = "context" PROVE Kind(bs, x)
    BY <1>1, <1>5, <1>7, Zenon DEF Kind, s
  <2>1. ContextKept(as, x)
    BY Zenon DEF Kind
  <2>2. s.len <= 3 => Content(bs, s) = Content(as, s)
    <3> SUFFICES ASSUME s.len <= 3 PROVE Content(bs, s) = Content(as, s)
      OBVIOUS
    <3>1. ASSUME NEW i \in 1..s.len PROVE bs[s.array].cells[i] = as[s.array].cells[i]
      <4>1. s.array # 0
        BY <1>1, ContentShows, Zenon DEF Shows
      <4> DEFINE y == Len(as[s.array].cells)
      <4>2. y \in Nat /\ s.len <= y
        BY <1>2, <4>1, Zenon
      <4> HIDE DEF y
      <4>3. i \in 1..3 /\ i <= y
        BY <1>2, <4>2
      <4> QED
        BY <1>4, <4>1, <4>3, Zenon DEF y
    <3> QED
      BY <1>1, <1>5, <3>1, ContentStays, Zenon
  <2>3. ContextKept(bs, x)
    BY <1>4, <2>1, <2>2, Zenon DEF ContextKept, s
  <2> QED
    BY <1>1, <1>5, <1>7, <2>3, Zenon DEF Kind, s
<1> QED
  BY <1>6, <1>7

(* One more value is derived, and the others stay what they were.          *)
LEMMA DerivedStays ==
  ASSUME DeriveInv, NEW bs, NEW x, SomeArrays(bs), ArraysKept(arrays, bs),
         Kind(bs, x), arrays' = bs, nodes' = Append(nodes, x), derives' = derives
  PROVE  DeriveInv'
<1> DEFINE Node == [slice : [array : Nat, len : Nat], given : Seq(Nat)]
<1>1. nodes \in Seq(Node) /\ x \in Node /\ SomeArrays(arrays)
  BY Zenon DEF DeriveInv, Kind
<1>2. derives' \in {"context", "error"} /\ SomeArrays(arrays')
  BY DEF DeriveInv, SomeArrays
<1> HIDE DEF Node
<1>3. nodes' \in Seq(Node) /\ Len(nodes') = Len(nodes) + 1
  BY <1>1, AppendProperties
<1>4. ASSUME NEW n \in 1..Len(nodes) PROVE nodes'[n] = nodes[n] /\ Kind(bs, nodes[n])
  <2>1. nodes'[n] = nodes[n]
    BY <1>1, AppendProperties
  <2>2. Kind(arrays, nodes[n])
    BY DEF DeriveInv
  <2> QED
    BY <1>1, <2>1, <2>2, KindStays, Zenon
<1>5. nodes'[Len(nodes) + 1] = x
  BY <1>1, AppendProperties
<1>6. ASSUME NEW n \in 1..Len(nodes') PROVE Kind(bs, nodes'[n])
  <2> DEFINE m == Len(nodes)
  <2>1. m \in Nat
    BY <1>1, LenProperties
  <2>2. n \in 1..m + 1
    BY <1>3
  <2> HIDE DEF m
  <2>3. n \in 1..m \/ n = m + 1
    BY <2>1, <2>2
  <2> QED
    BY <1>4, <1>5, <2>3, Zenon DEF m
<1>7. ASSUME NEW n \in 1..Len(nodes') PROVE Kind(arrays, nodes[n])'
  <2>1. Kind(bs, nodes'[n])
    BY <1>6
  <2> QED
    BY <2>1
    DEF Kind, SliceOf, ErrorKept, ContextKept, Content
<1> QED
  BY <1>2, <1>3, <1>7, Zenon DEF DeriveInv, Node

LEMMA FreshKeeps ==
  ASSUME NEW as, NEW bs, SomeArrays(as), Len(bs) = Len(as) + 1,
         \A a \in 1..Len(as) : bs[a] = as[a]
  PROVE  ArraysKept(as, bs)
<1> DEFINE k == Len(as)
<1>1. k \in Nat
  <2>1. as \in Seq([cap : Nat, cells : Seq(Nat)])
    BY DEF SomeArrays
  <2> QED
    BY <2>1, LenProperties
<1>2. k <= Len(bs)
  <2>1. Len(bs) = k + 1
    OBVIOUS
  <2> HIDE DEF k
  <2>2. k <= k + 1
    BY <1>1
  <2> QED
    BY <2>1, <2>2, Zenon
<1>3. ASSUME NEW a \in 1..k PROVE Len(bs[a].cells) >= Len(as[a].cells)
  <2>1. as \in Seq([cap : Nat, cells : Seq(Nat)])
    BY DEF SomeArrays
  <2>2. as[a] \in [cap : Nat, cells : Seq(Nat)]
    BY <2>1, LenProperties
  <2> DEFINE y == Len(as[a].cells)
  <2>b. as[a].cells \in Seq(Nat)
    BY <2>2
  <2>3. y \in Nat
    BY <2>b, LenProperties, Zenon
  <2>4. Len(bs[a].cells) = y
    BY Zenon
  <2> HIDE DEF y
  <2>5. y >= y
    BY <2>3
  <2> QED
    BY <2>4, <2>5 DEF y
<1> QED
  BY <1>2, <1>3, Zenon DEF ArraysKept

LEMMA DeriveInitInv == DeriveInit => DeriveInv
<1> SUFFICES ASSUME DeriveInit PROVE DeriveInv
  OBVIOUS
<1> DEFINE Node == [slice : [array : Nat, len : Nat], given : Seq(Nat)]
           x == [slice |-> Nil, given |-> <<>>]
<1>1. x \in Node /\ x.slice.array = 0 /\ x.slice.len = 0 /\ x.given = <<>>
      /\ x.slice \in [array : Nat, len : Nat]
  BY DEF Nil
<1> HIDE DEF x
<1>2. arrays = <<>> /\ nodes = <<x>> /\ derives \in {"context", "error"}
  BY DEF DeriveInit, x
<1>3. SomeArrays(arrays) /\ Len(arrays) = 0
  BY <1>2 DEF SomeArrays
<1>4. nodes \in Seq(Node) /\ Len(nodes) = 1 /\ nodes[1] = x
  BY <1>1, <1>2
<1>5. SliceOf(arrays, x.slice)
  BY <1>1, <1>3 DEF SliceOf
<1>6. Content(arrays, x.slice) = <<>> /\ Len(x.given) = 0
  BY <1>1 DEF Content
<1>7. ErrorKept(arrays, x) /\ ContextKept(arrays, x)
  BY <1>1, <1>6 DEF ErrorKept, ContextKept
<1>8. Kind(arrays, x)
  BY <1>1, <1>5, <1>7 DEF Kind
<1>9. \A n \in 1..Len(nodes) : Kind(arrays, nodes[n])
  <2>1. \A n \in 1..1 : n = 1
    OBVIOUS
  <2> QED
    BY <1>4, <1>8, <2>1, Zenon
<1> QED
  BY <1>2, <1>3, <1>4, <1>9, Zenon DEF DeriveInv

(* An attribute more for a context.                                        *)
LEMMA WithAttrKept ==
  ASSUME DeriveInv, NEW n \in 1..Len(nodes), WithAttr(n)
  PROVE  DeriveInv'
<1> DEFINE Array == [cap : Nat, cells : Seq(Nat)]
           x == nodes[n]
           s == x.slice
           v == <<Len(nodes)>>
           k == Len(arrays)
           cap == Cap(arrays, s)
           r == GoAppend(arrays, s, v)
           g == Append(x.given, Len(nodes))
           y == [slice |-> r.slice, given |-> g]
<1>1. SomeArrays(arrays) /\ Kind(arrays, x) /\ derives = "context"
  BY DEF DeriveInv, WithAttr
<1>2. /\ arrays' = r.arrays /\ nodes' = Append(nodes, y) /\ derives' = derives
  BY DEF WithAttr, Derived
<1>3. SliceOf(arrays, s) /\ ContextKept(arrays, x) /\ x.given \in Seq(Nat)
  BY <1>1 DEF Kind
<1>4. Len(nodes) \in Nat
  BY LenProperties DEF DeriveInv
<1>5. v \in Seq(Nat) /\ Len(v) = 1 /\ v # <<>>
  BY <1>4
<1>6. g \in Seq(Nat) /\ Len(g) = Len(x.given) + 1 /\ g = x.given \o v
  <2>1. g \in Seq(Nat)
    BY <1>3, <1>4, AppendProperties
  <2>2. Len(g) = Len(x.given) + 1
    BY <1>3, <1>4, AppendProperties
  <2>3. g = x.given \o v
    BY <1>3, <1>4, AppendIsConcat
  <2> QED
    BY <2>1, <2>2, <2>3
<1>7. /\ k \in Nat /\ s.array \in Nat /\ s.len \in Nat /\ cap \in Nat
      /\ s.array = 0 => s.len = 0 /\ cap = 0
      /\ s.array # 0 => /\ s.array \in 1..k /\ cap = arrays[s.array].cap
                        /\ 0 < s.len /\ s.len <= cap
  <2>1. /\ k \in Nat /\ s.array \in Nat /\ s.len \in Nat /\ cap \in Nat
    BY <1>1, <1>3, SliceTyped, Zenon
  <2>2. s.array = 0 => s.len = 0 /\ cap = 0
    BY <1>3 DEF SliceOf, Cap
  <2>3. ASSUME s.array # 0
        PROVE  /\ s.array \in 1..k /\ cap = arrays[s.array].cap /\ 0 < s.len
               /\ s.len <= cap
    <3> DEFINE l == Len(arrays[s.array].cells)
    <3>1. /\ s.array \in 1..k /\ cap = arrays[s.array].cap /\ 0 < s.len
          /\ s.len <= l /\ l <= arrays[s.array].cap /\ l \in Nat
      BY <1>1, <1>3, <2>3, SliceTyped, Zenon
    <3> HIDE DEF l
    <3> QED
      BY <2>1, <3>1
  <2> QED
    BY <2>1, <2>2, <2>3, Zenon
<1>8. /\ Len(x.given) = s.len /\ (s.len <= 3 => Content(arrays, s) = x.given)
      /\ s.array # 0 => (cap \in {1, 2} /\ s.len = cap) \/ (cap >= 4 /\ s.len >= 3)
  BY <1>3, <1>7 DEF ContextKept
<1>b. derives # "error"
  BY <1>1
<1> HIDE DEF r, g, v, s, x, k, cap
<1>c. y.slice = r.slice /\ y.given = g
  OBVIOUS
<1>9. CASE s.len + 1 > cap
  <2> DEFINE new == IF s.len + 1 > 2 * cap THEN s.len + 1 ELSE 2 * cap
  <2>0. s.len + Len(v) > Cap(arrays, s) /\ s.len + Len(v) = s.len + 1
    BY <1>5, <1>9, Zenon DEF cap
  <2>1. /\ SomeArrays(r.arrays) /\ SliceOf(r.arrays, r.slice)
        /\ Len(r.arrays) = k + 1
        /\ \A a \in 1..k : r.arrays[a] = arrays[a]
        /\ r.slice = [array |-> k + 1, len |-> s.len + Len(v)]
        /\ r.arrays[k + 1].cap = IF s.len + Len(v) > 2 * cap THEN s.len + Len(v) ELSE 2 * cap
        /\ Content(r.arrays, r.slice) = Content(arrays, s) \o v
    <3>1. Moved(arrays, s, v, r)
      BY <1>1, <1>3, <1>5, <2>0, AppendMoves, Zenon DEF r, s
    <3> QED
      BY <3>1, Zenon DEF Moved, k, cap
  <2>2. /\ r.slice = [array |-> k + 1, len |-> s.len + 1]
        /\ r.arrays[k + 1].cap = new
    BY <1>5, <2>1, Zenon
  <2>3. r.slice.array = k + 1 /\ r.slice.len = s.len + 1 /\ k + 1 # 0
        /\ r.slice \in [array : Nat, len : Nat]
    BY <1>7, <2>2
  <2>4. (new \in {1, 2} /\ s.len + 1 = new) \/ (new >= 4 /\ s.len + 1 >= 3)
    BY <1>7, <1>8, <1>9
  <2>5. s.len + 1 <= 3 => Content(r.arrays, r.slice) = g
    <3>1. s.len + 1 <= 3 => s.len <= 3
      BY <1>7
    <3> QED
      BY <1>6, <1>8, <2>1, <3>1, Zenon
  <2> HIDE DEF new
  <2>6. y \in [slice : [array : Nat, len : Nat], given : Seq(Nat)]
    BY <1>6, <2>3
  <2> HIDE DEF y
  <2>7. ContextKept(r.arrays, y)
    BY <1>c, <1>6, <1>8, <2>2, <2>3, <2>4, <2>5, Zenon DEF ContextKept
  <2>8. Kind(r.arrays, y)
    BY <1>b, <1>c, <2>1, <2>6, <2>7, Zenon DEF Kind
  <2>9. ArraysKept(arrays, r.arrays)
    BY <1>1, <2>1, FreshKeeps, Zenon DEF k
  <2> QED
    BY <1>2, <2>1, <2>8, <2>9, DerivedStays, Zenon
<1>10. CASE ~(s.len + 1 > cap)
  <2>0. s.len + Len(v) <= Cap(arrays, s)
    <3>1. s.len + 1 <= cap
      BY <1>7, <1>10
    <3> QED
      BY <1>5, <3>1, Zenon DEF cap
  <2>1. /\ SomeArrays(r.arrays) /\ SliceOf(r.arrays, r.slice)
        /\ Len(r.arrays) = k /\ s.array # 0
        /\ \A a \in 1..k : a # s.array => r.arrays[a] = arrays[a]
        /\ r.arrays[s.array].cap = arrays[s.array].cap
        /\ Len(r.arrays[s.array].cells) >= Len(arrays[s.array].cells)
        /\ \A i \in 1..s.len : r.arrays[s.array].cells[i] = arrays[s.array].cells[i]
        /\ r.slice = [array |-> s.array, len |-> s.len + Len(v)]
    <3>0. /\ SomeArrays(arrays) /\ SliceOf(arrays, s) /\ v \in Seq(Nat) /\ v # <<>>
          /\ s.len + Len(v) <= Cap(arrays, s)
      BY <1>1, <1>3, <1>5, <2>0, Zenon DEF s
    <3>1. InPlace(arrays, s, v, r)
      BY <3>0, AppendInPlace, Zenon DEF r
    <3> QED
      BY <3>1, Zenon DEF InPlace, k
  <2>2. /\ r.slice = [array |-> s.array, len |-> s.len + 1]
        /\ r.arrays[s.array].cap = cap
    BY <1>5, <1>7, <2>1, Zenon
  <2>3. r.slice.array = s.array /\ r.slice.len = s.len + 1
        /\ r.slice \in [array : Nat, len : Nat]
    BY <1>7, <2>2
  <2>4. cap >= 4 /\ s.len >= 3 /\ s.len + 1 >= 3 /\ ~(s.len + 1 <= 3)
    BY <1>7, <1>8, <1>10, <2>1, SMTT(30)
  <2>6. y \in [slice : [array : Nat, len : Nat], given : Seq(Nat)]
    BY <1>6, <2>3
  <2> HIDE DEF y
  <2>7. ContextKept(r.arrays, y)
    BY <1>c, <1>6, <1>8, <2>2, <2>3, <2>4, Zenon DEF ContextKept
  <2>8. Kind(r.arrays, y)
    BY <1>b, <1>c, <2>1, <2>6, <2>7, Zenon DEF Kind
  <2>9. ArraysKept(arrays, r.arrays)
    <3>1. k <= Len(r.arrays)
      <4>1. k <= k
        BY <1>7
      <4> QED
        BY <2>1, <4>1, Zenon
    <3>2. ASSUME NEW a \in 1..k, a # s.array
          PROVE  Len(r.arrays[a].cells) >= Len(arrays[a].cells)
      <4>1. arrays \in Seq(Array)
        BY <1>1 DEF SomeArrays
      <4>2. arrays[a] \in Array
        BY <4>1, LenProperties DEF k
      <4> DEFINE z == Len(arrays[a].cells)
      <4>3. z \in Nat
        BY <4>2
      <4>4. Len(r.arrays[a].cells) = z
        BY <2>1, <3>2, Zenon
      <4> HIDE DEF z
      <4>5. z >= z
        BY <4>3
      <4> QED
        BY <4>4, <4>5 DEF z
    <3>3. \A i \in 1..3 : i \in 1..s.len
      BY <1>7, <2>4
    <3> QED
      BY <1>b, <2>1, <3>1, <3>2, <3>3, Zenon DEF ArraysKept, k
  <2> QED
    BY <1>2, <2>1, <2>8, <2>9, DerivedStays, Zenon
<1> QED
  BY <1>9, <1>10

(* Details for an error: they are doubled into a new array first, and what *)
(* is written in place afterwards is written there.                        *)
LEMMA WithKept ==
  ASSUME DeriveInv, NEW n \in 1..Len(nodes), With(n)
  PROVE  DeriveInv'
<1> DEFINE x == nodes[n]
           s == x.slice
           v == <<Len(nodes)>>
           c == Content(arrays, s)
           k == Len(arrays)
           cap == Cap(arrays, s)
           twice == GoAppend(arrays, s, c)
           r == GoAppend(twice.arrays, twice.slice, v)
           g == Append(x.given \o x.given, Len(nodes))
           y == [slice |-> r.slice, given |-> g]
<1>1. SomeArrays(arrays) /\ Kind(arrays, x) /\ derives = "error"
  BY DEF DeriveInv, With
<1>2. /\ arrays' = r.arrays /\ nodes' = Append(nodes, y) /\ derives' = derives
  BY DEF With, Derived
<1>3. SliceOf(arrays, s) /\ ErrorKept(arrays, x) /\ x.given \in Seq(Nat)
  BY <1>1 DEF Kind
<1>4. Len(nodes) \in Nat
  BY LenProperties DEF DeriveInv
<1>5. v \in Seq(Nat) /\ Len(v) = 1 /\ v # <<>>
  BY <1>4
<1>6. g \in Seq(Nat) /\ g = (x.given \o x.given) \o v
  <2>1. x.given \o x.given \in Seq(Nat)
    BY <1>3, ConcatProperties
  <2>2. g \in Seq(Nat)
    BY <1>4, <2>1, AppendProperties
  <2>3. g = (x.given \o x.given) \o v
    BY <1>4, <2>1, AppendIsConcat
  <2> QED
    BY <2>2, <2>3
<1>7. /\ k \in Nat /\ s.array \in Nat /\ s.len \in Nat /\ cap \in Nat
      /\ s.array = 0 => s.len = 0 /\ cap = 0
      /\ s.array # 0 => /\ s.array \in 1..k /\ cap = arrays[s.array].cap
                        /\ 0 < s.len /\ s.len <= cap
  <2>1. /\ k \in Nat /\ s.array \in Nat /\ s.len \in Nat /\ cap \in Nat
    BY <1>1, <1>3, SliceTyped, Zenon
  <2>2. s.array = 0 => s.len = 0 /\ cap = 0
    BY <1>3 DEF SliceOf, Cap
  <2>3. ASSUME s.array # 0
        PROVE  /\ s.array \in 1..k /\ cap = arrays[s.array].cap /\ 0 < s.len
               /\ s.len <= cap
    <3> DEFINE l == Len(arrays[s.array].cells)
    <3>1. /\ s.array \in 1..k /\ cap = arrays[s.array].cap /\ 0 < s.len
          /\ s.len <= l /\ l <= arrays[s.array].cap /\ l \in Nat
      BY <1>1, <1>3, <2>3, SliceTyped, Zenon
    <3> HIDE DEF l
    <3> QED
      BY <2>1, <3>1
  <2> QED
    BY <2>1, <2>2, <2>3, Zenon
<1>8. c = x.given /\ (s.array # 0 => cap < 2 * s.len)
  BY <1>3, <1>7 DEF ErrorKept
<1>a. c \in Seq(Nat) /\ Len(c) = s.len
  <2>1. Shows(arrays, s, c)
    BY <1>1, <1>3, ContentShows, Zenon
  <2> QED
    BY <2>1, Zenon DEF Shows
<1>b. derives # "context"
  BY <1>1
<1>d. Nil.array = 0
  BY DEF Nil
<1> HIDE DEF r, g, v, x
<1>c. y.slice = r.slice /\ y.given = g
  OBVIOUS
(* The details were none: the argument is the first cell of an array.      *)
<1>9. CASE s.array = 0
  <2> HIDE DEF y
  <2>1. c = <<>> /\ s.len = 0 /\ Cap(arrays, s) = 0
    BY <1>7, <1>9 DEF Content
  <2> HIDE DEF c
  <2>2. twice.arrays = arrays /\ twice.slice = [s EXCEPT !.len = 0]
    <3>1. s.len + Len(c) = 0
      BY <2>1
    <3> HIDE DEF s
    <3>2. 0 <= 0
      OBVIOUS
    <3>3. twice = [arrays |-> arrays, slice |-> [s EXCEPT !.len = 0]]
      BY <2>1, <3>1, <3>2, Zenon DEF GoAppend
    <3> HIDE DEF twice
    <3> QED
      BY <3>3
  <2>3. [s EXCEPT !.len = 0] = s
    <3>1. s \in [array : Nat, len : Nat] /\ s.len = 0
      BY <1>3, <2>1 DEF SliceOf
    <3> HIDE DEF s
    <3> QED
      BY <3>1
  <2>4. r = GoAppend(arrays, s, v)
    BY <2>2, <2>3, Zenon DEF r
  <2> HIDE DEF twice, s, k, cap
  <2>5. s.len + Len(v) > Cap(arrays, s) /\ s.len + Len(v) = 1
    BY <1>5, <2>1
  <2>6. Moved(arrays, s, v, r)
    BY <1>1, <1>3, <1>5, <2>4, <2>5, AppendMoves, Zenon DEF s
  <2>7. /\ SomeArrays(r.arrays) /\ SliceOf(r.arrays, r.slice)
        /\ Len(r.arrays) = k + 1
        /\ \A a \in 1..k : r.arrays[a] = arrays[a]
        /\ r.slice = [array |-> k + 1, len |-> 1]
        /\ r.arrays[k + 1].cap = IF 1 > 2 * 0 THEN 1 ELSE 2 * 0
        /\ Content(r.arrays, r.slice) = c \o v
    BY <2>1, <2>5, <2>6, Zenon DEF Moved, k, c
  <2>8. r.slice.array = k + 1 /\ r.slice.len = 1
        /\ r.slice \in [array : Nat, len : Nat]
    BY <1>7, <2>7
  <2>9. r.arrays[r.slice.array].cap < 2 * r.slice.len
    BY <2>7, <2>8
  <2>10. Content(r.arrays, r.slice) = g
    <3>1. x.given \o x.given = x.given
      BY <1>8, <2>1
    <3> QED
      BY <1>6, <1>8, <2>7, <3>1, Zenon
  <2>11. y \in [slice : [array : Nat, len : Nat], given : Seq(Nat)]
    BY <1>6, <2>8 DEF y
  <2>12. Kind(r.arrays, y)
    BY <1>b, <1>c, <2>7, <2>9, <2>10, <2>11, Zenon DEF Kind, ErrorKept
  <2>13. ArraysKept(arrays, r.arrays)
    BY <1>1, <2>7, FreshKeeps, Zenon DEF k
  <2> QED
    BY <1>2, <2>7, <2>12, <2>13, DerivedStays, Zenon
<1>10. CASE s.array # 0
  <2> DEFINE as == twice.arrays
             t == twice.slice
  <2> HIDE DEF y
  <2>1. s.len + Len(c) = 2 * s.len /\ s.len + Len(c) > Cap(arrays, s)
    <3>1. cap < 2 * s.len /\ Len(c) = s.len
      BY <1>8, <1>10, <1>a
    <3> HIDE DEF s, c, cap
    <3>2. s.len + Len(c) = 2 * s.len /\ s.len + Len(c) > cap
      BY <1>7, <3>1
    <3> QED
      BY <3>2 DEF cap
  <2>2. Moved(arrays, s, c, twice)
    BY <1>1, <1>3, <1>a, <2>1, AppendMoves, Zenon
  <2> HIDE DEF twice, s, c, k, cap
  <2>3. /\ SomeArrays(as) /\ SliceOf(as, t) /\ Len(as) = k + 1
        /\ \A a \in 1..k : as[a] = arrays[a]
        /\ t = [array |-> k + 1, len |-> 2 * s.len]
        /\ as[k + 1].cap = IF 2 * s.len > 2 * cap THEN 2 * s.len ELSE 2 * cap
        /\ Content(as, t) = c \o c
    BY <2>1, <2>2, Zenon DEF Moved, k, cap, c
  <2> HIDE DEF as, t
  <2>4. t.array = k + 1 /\ t.len = 2 * s.len /\ k + 1 # 0 /\ k + 1 \in Nat
    BY <1>7, <2>3
  <2>5. as[k + 1].cap = 2 * cap /\ Cap(as, t) = 2 * cap
    <3>1. as[k + 1].cap = 2 * cap
      BY <1>7, <1>10, <2>3
    <3>2. Cap(as, t) = as[k + 1].cap
      BY <2>4, Zenon DEF Cap
    <3> QED
      BY <3>1, <3>2, Zenon
  <2>6. r = GoAppend(as, t, v)
    BY Zenon DEF r, as, t
  <2>7. t.len + Len(v) = 2 * s.len + 1
    BY <1>5, <2>4, Zenon
  <2>8. SUFFICES /\ SomeArrays(r.arrays) /\ SliceOf(r.arrays, r.slice)
                 /\ r.slice \in [array : Nat, len : Nat]
                 /\ r.arrays[r.slice.array].cap < 2 * r.slice.len
                 /\ Content(r.arrays, r.slice) = (c \o c) \o v
                 /\ ArraysKept(arrays, r.arrays)
    <3>1. Content(r.arrays, r.slice) = g
      BY <1>6, <1>8, <2>8, Zenon
    <3>2. y \in [slice : [array : Nat, len : Nat], given : Seq(Nat)]
      BY <1>6, <2>8 DEF y
    <3>3. Kind(r.arrays, y)
      BY <1>b, <1>c, <2>8, <3>1, <3>2, Zenon DEF Kind, ErrorKept
    <3> QED
      BY <1>2, <2>8, <3>3, DerivedStays, Zenon
  <2>9. ASSUME NEW bs, Len(bs) = k + 1 \/ Len(bs) = k + 2,
               \A a \in 1..k : bs[a] = arrays[a]
        PROVE  ArraysKept(arrays, bs)
    <3>1. k <= k + 1 /\ k <= k + 2
      BY <1>7
    <3>2. k <= Len(bs)
      BY <2>9, <3>1, Zenon
    <3>3. \A a \in 1..k : Len(bs[a].cells) >= Len(arrays[a].cells)
      <4> SUFFICES ASSUME NEW a \in 1..k PROVE Len(bs[a].cells) >= Len(arrays[a].cells)
        OBVIOUS
      <4>1. arrays \in Seq([cap : Nat, cells : Seq(Nat)])
        BY <1>1 DEF SomeArrays
      <4>2. arrays[a] \in [cap : Nat, cells : Seq(Nat)]
        BY <4>1, LenProperties DEF k
      <4>3. arrays[a].cells \in Seq(Nat)
        BY <4>2
      <4> DEFINE z == Len(arrays[a].cells)
      <4>4. z \in Nat
        BY <4>3, LenProperties, Zenon
      <4>5. Len(bs[a].cells) = z
        BY <2>9, Zenon
      <4> HIDE DEF z
      <4>6. z >= z
        BY <4>4
      <4> QED
        BY <4>5, <4>6 DEF z
    <3> QED
      BY <2>9, <3>2, <3>3, Zenon DEF ArraysKept, k
  (* Room behind the doubled details.                                      *)
  <2>10. CASE 2 * s.len + 1 <= 2 * cap
    <3>1. t.len + Len(v) <= Cap(as, t)
      BY <2>5, <2>7, <2>10, Zenon
    <3>2. InPlace(as, t, v, r)
      BY <1>5, <2>3, <2>6, <3>1, AppendInPlace, Zenon
    <3>3. /\ SomeArrays(r.arrays) /\ SliceOf(r.arrays, r.slice)
          /\ Len(r.arrays) = k + 1
          /\ \A a \in 1..k + 1 : a # k + 1 => r.arrays[a] = as[a]
          /\ r.arrays[k + 1].cap = 2 * cap
          /\ r.slice = [array |-> k + 1, len |-> 2 * s.len + 1]
          /\ Content(r.arrays, r.slice) = (c \o c) \o v
      BY <2>3, <2>4, <2>5, <2>7, <3>2, Zenon DEF InPlace
    <3>4. /\ r.slice.array = k + 1 /\ r.slice.len = 2 * s.len + 1
          /\ r.slice \in [array : Nat, len : Nat]
      <4>1. k + 1 \in Nat /\ 2 * s.len + 1 \in Nat
        BY <1>7
      <4>2. r.slice = [array |-> k + 1, len |-> 2 * s.len + 1]
        BY <3>3
      <4> QED
        BY <4>1, <4>2
    <3>5. r.arrays[r.slice.array].cap < 2 * r.slice.len
      <4>1. 2 * cap < 2 * (2 * s.len + 1)
        BY <1>7, <1>8, <1>10
      <4> QED
        BY <3>3, <3>4, <4>1, Zenon
    <3>6. \A a \in 1..k : r.arrays[a] = arrays[a]
      <4>1. \A a \in 1..k : a \in 1..k + 1 /\ a # k + 1
        BY <1>7
      <4> QED
        BY <2>3, <3>3, <4>1, Zenon
    <3>7. ArraysKept(arrays, r.arrays)
      BY <2>9, <3>3, <3>6, Zenon
    <3> QED
      BY <3>3, <3>4, <3>5, <3>7, Zenon
  (* None: the doubled details were moved again.                           *)
  <2>11. CASE ~(2 * s.len + 1 <= 2 * cap)
    <3>1. t.len + Len(v) > Cap(as, t)
      <4>1. 2 * s.len + 1 > 2 * cap
        BY <1>7, <2>11
      <4> QED
        BY <2>5, <2>7, <4>1, Zenon
    <3>2. Moved(as, t, v, r)
      BY <1>5, <2>3, <2>6, <3>1, AppendMoves, Zenon
    <3>3. /\ SomeArrays(r.arrays) /\ SliceOf(r.arrays, r.slice)
          /\ Len(r.arrays) = k + 1 + 1
          /\ \A a \in 1..k + 1 : r.arrays[a] = as[a]
          /\ r.slice = [array |-> k + 1 + 1, len |-> 2 * s.len + 1]
          /\ r.arrays[k + 1 + 1].cap = IF 2 * s.len + 1 > 2 * (2 * cap)
                                       THEN 2 * s.len + 1 ELSE 2 * (2 * cap)
          /\ Content(r.arrays, r.slice) = (c \o c) \o v
      BY <2>3, <2>5, <2>7, <3>2, Zenon DEF Moved
    <3>4. /\ r.slice.array = k + 1 + 1 /\ r.slice.len = 2 * s.len + 1
          /\ r.slice \in [array : Nat, len : Nat]
      <4>1. k + 1 + 1 \in Nat /\ 2 * s.len + 1 \in Nat
        BY <1>7
      <4>2. r.slice = [array |-> k + 1 + 1, len |-> 2 * s.len + 1]
        BY <3>3
      <4> QED
        BY <4>1, <4>2
    <3>5. r.arrays[r.slice.array].cap < 2 * r.slice.len
      <4> DEFINE new == IF 2 * s.len + 1 > 2 * (2 * cap)
                        THEN 2 * s.len + 1 ELSE 2 * (2 * cap)
      <4>1. new < 2 * (2 * s.len + 1)
        BY <1>7, <1>10, <2>11
      <4> QED
        BY <3>3, <3>4, <4>1, Zenon
    <3>6. \A a \in 1..k : r.arrays[a] = arrays[a]
      <4>1. \A a \in 1..k : a \in 1..k + 1
        BY <1>7
      <4> QED
        BY <2>3, <3>3, <4>1, Zenon
    <3>7. ArraysKept(arrays, r.arrays)
      <4>1. k + 1 + 1 = k + 2
        BY <1>7
      <4> QED
        BY <2>9, <3>3, <3>6, <4>1, Zenon
    <3> QED
      BY <3>3, <3>4, <3>5, <3>7, Zenon
  <2> QED
    BY <2>10, <2>11
<1> QED
  BY <1>9, <1>10

LEMMA SetMsgKept ==
  ASSUME DeriveInv, NEW n \in 1..Len(nodes), SetMsg(n)
  PROVE  DeriveInv'
<1> DEFINE x == nodes[n]
<1>1. SomeArrays(arrays) /\ Kind(arrays, x)
  BY DEF DeriveInv
<1>2. /\ arrays' = arrays /\ derives' = derives
      /\ nodes' = Append(nodes, [slice |-> x.slice, given |-> x.given])
  BY DEF SetMsg, Derived
<1>3. [slice |-> x.slice, given |-> x.given] = x
  <2>1. x \in [slice : [array : Nat, len : Nat], given : Seq(Nat)]
    BY <1>1 DEF Kind
  <2> HIDE DEF x
  <2> QED
    BY <2>1
<1>4. ArraysKept(arrays, arrays)
  <2>1. arrays \in Seq([cap : Nat, cells : Seq(Nat)])
    BY <1>1 DEF SomeArrays
  <2> DEFINE k == Len(arrays)
  <2>2. k \in Nat
    BY <2>1, LenProperties
  <2>3. k <= k
    <3> HIDE DEF k
    <3> QED
      BY <2>2
  <2>4. ASSUME NEW a \in 1..k PROVE Len(arrays[a].cells) >= Len(arrays[a].cells)
    <3>1. arrays[a] \in [cap : Nat, cells : Seq(Nat)]
      BY <2>1, LenProperties
    <3>2. arrays[a].cells \in Seq(Nat)
      BY <3>1
    <3> DEFINE z == Len(arrays[a].cells)
    <3>3. z \in Nat
      BY <3>2, LenProperties, Zenon
    <3> HIDE DEF z
    <3>4. z >= z
      BY <3>3
    <3> QED
      BY <3>4 DEF z
  <2> QED
    BY <2>3, <2>4, Zenon DEF ArraysKept
<1> QED
  BY <1>1, <1>2, <1>3, <1>4, DerivedStays, Zenon

LEMMA DeriveNextInv == DeriveInv /\ [DeriveNext]_derivevars => DeriveInv'
<1> SUFFICES ASSUME DeriveInv, [DeriveNext]_derivevars PROVE DeriveInv'
  OBVIOUS
<1>1. ASSUME NEW n \in 1..Len(nodes), WithAttr(n) PROVE DeriveInv'
  BY <1>1, WithAttrKept, Zenon
<1>2. ASSUME NEW n \in 1..Len(nodes), With(n) PROVE DeriveInv'
  BY <1>2, WithKept, Zenon
<1>3. ASSUME NEW n \in 1..Len(nodes), SetMsg(n) PROVE DeriveInv'
  BY <1>3, SetMsgKept, Zenon
<1>4. CASE UNCHANGED derivevars
  BY <1>4, ZenonT(40)
  DEF derivevars, DeriveInv, SomeArrays, Kind, SliceOf, ErrorKept, ContextKept, Content
<1> QED
  BY <1>1, <1>2, <1>3, <1>4, Zenon DEF DeriveNext

(* An error keeps its details whatever is derived from it and from its     *)
(* ancestors, in any order and however often; a context keeps its first    *)
(* three attributes.                                                       *)
THEOREM DerivedShows == DeriveSpec => []DerivedKept
<1>1. DeriveInv => DerivedKept
  <2> SUFFICES ASSUME DeriveInv, NEW n \in 1..Len(nodes),
                      derives = "error" \/ Len(nodes[n].given) <= 3
               PROVE  Content(arrays, nodes[n].slice) = nodes[n].given
    BY DEF DerivedKept
  <2>1. Kind(arrays, nodes[n]) /\ derives \in {"context", "error"}
    BY DEF DeriveInv
  <2>2. CASE derives = "error"
    BY <2>1, <2>2 DEF Kind, ErrorKept
  <2>3. CASE derives # "error"
    BY <2>1, <2>3 DEF Kind, ContextKept
  <2> QED
    BY <2>2, <2>3
<1> QED
  BY <1>1, DeriveInitInv, DeriveNextInv, PTL DEF DeriveSpec
=============================================================================
