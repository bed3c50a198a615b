----------------------------- MODULE MCUniqueID -----------------------------
(* UniqueID for TLC: two ids of the shortest length, one of the next, fewer *)
(* ids than calls may want.                                                *)
EXTENDS UniqueID, TLC

CONSTANTS a, b, c
SmallPool == 0 :> {a, b} @@ 1 :> {c}
Sym == Permutations(Procs) \cup Permutations({a, b})
=============================================================================
