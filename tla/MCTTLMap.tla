------------------------------ MODULE MCTTLMap ------------------------------
(* TTLMap for TLC: small sets of model values, interchangeable where the   *)
(* specification does not tell them apart.                                 *)
EXTENDS TTLMapRaces, TLC

Sym == Permutations(Callers) \cup Permutations(Values)

CacheOps == {"Store", "Load", "Delete", "SetNX"}
=============================================================================
