------------------------------ MODULE CirQueue ------------------------------
(***************************************************************************)
(* queue.CirQueue as CountGoroutines uses it: one goroutine pushes a       *)
(* reading every ten minutes, requests for the metrics range over the ring *)
(* at any time, and nothing keeps the two apart. The n-th reading is n, a  *)
(* slot that was never written 0.                                          *)
(***************************************************************************)
EXTENDS Naturals, Sequences

CONSTANTS Sizes, MaxPushes    \* Sizes: of the rings to look at

ASSUME SizesAssumption == Sizes \subseteq 1..255

VARIABLES
  size, over, idx, slots,
  pushed,     \* how many readings are in the ring or were
  pushing,    \* the next assignment of Push: "none", "slots" or "idx"
  rng         \* the Range under way

ringvars == <<size, over, idx, slots, pushed, pushing, rng>>

Ranging == [at |-> "size", size |-> 0, idx |-> 0, out |-> <<>>, from |-> 0, raced |-> FALSE]

RingInit ==
  /\ size \in Sizes /\ over = FALSE /\ idx = 0 /\ slots = [i \in 0..size - 1 |-> 0]
  /\ pushed = 0 /\ pushing = "none" /\ rng = [Ranging EXCEPT !.at = "none"]

-----------------------------------------------------------------------------
(* Push, one assignment at a time.                                         *)

Race == rng' = [rng EXCEPT !.raced = TRUE]
Wrap(i) == (i + 1) % size

PushOver ==
  /\ pushing = "none" /\ pushed < MaxPushes
  /\ over' = (over \/ idx = size - 1)
  /\ pushing' = "slots" /\ Race /\ UNCHANGED <<size, idx, slots, pushed>>

PushData ==
  /\ pushing = "slots"
  /\ slots' = [slots EXCEPT ![idx] = pushed + 1] /\ pushed' = pushed + 1
  /\ pushing' = "idx" /\ Race /\ UNCHANGED <<size, over, idx>>

PushIdx ==
  /\ pushing = "idx" /\ idx' = Wrap(idx)
  /\ pushing' = "none" /\ Race /\ UNCHANGED <<size, over, slots, pushed>>

-----------------------------------------------------------------------------
(* Range: the size, the place of the oldest, then one element after        *)
(* another.                                                                *)

Size == IF over THEN size ELSE idx

RangeSize ==
  /\ rng.at \in {"none", "done"}
  /\ rng' = [Ranging EXCEPT !.at = "start", !.size = Size, !.from = pushed,
                            !.raced = pushing # "none"]
  /\ UNCHANGED <<size, over, idx, slots, pushed, pushing>>

\* Mutant: from the first slot, whether or not the ring is full.
StartFirst(r) == [r EXCEPT !.at = "next", !.idx = 0]

RangeFrom(r) == [r EXCEPT !.at = "next", !.idx = IF over THEN idx ELSE 0]

RangeStart ==
  /\ rng.at = "start" /\ rng' = RangeFrom(rng)
  /\ UNCHANGED <<size, over, idx, slots, pushed, pushing>>

RangeElement ==
  /\ rng.at = "next"
  /\ rng' = IF Len(rng.out) = rng.size THEN [rng EXCEPT !.at = "done"]
            ELSE [rng EXCEPT !.out = Append(@, slots[rng.idx]), !.idx = Wrap(@)]
  /\ UNCHANGED <<size, over, idx, slots, pushed, pushing>>

RingNext ==
  \/ PushOver \/ PushData \/ PushIdx
  \/ RangeSize \/ RangeStart \/ RangeElement

-----------------------------------------------------------------------------
(* Range returns the last readings, as many as there are up to the ring's  *)
(* size, the oldest first. One that a Push races with may be out of order  *)
(* and show slots not yet written, but no reading that was gone when it    *)
(* began, and never more than the ring holds.                              *)
RangeIsWindow ==
  rng.at = "done" =>
    /\ Len(rng.out) <= size
    /\ \A i \in 1..Len(rng.out) : rng.out[i] = 0 \/ rng.out[i] + size > rng.from
    /\ ~rng.raced =>
         LET n == IF rng.from < size THEN rng.from ELSE size IN
         rng.out = [i \in 1..n |-> rng.from - n + i]
=============================================================================
