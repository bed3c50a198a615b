---------------------------- MODULE MCTokenDelay ----------------------------
(* TokenDelay for TLC, when every token is in use all the time.            *)
EXTENDS TokenDelay, TLC

Spec == DelayInit /\ [][DelayNext]_delayvars
Sym == Permutations(Procs)
=============================================================================
