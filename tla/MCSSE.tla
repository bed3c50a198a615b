------------------------------- MODULE MCSSE -------------------------------
(* SSE for TLC.                                                            *)
EXTENDS SSE, TLC

CONSTANTS e1, e2, e3
Sym == Permutations(Procs) \cup Permutations(Events \ {Empty})
=============================================================================
