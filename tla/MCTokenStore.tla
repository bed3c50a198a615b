---------------------------- MODULE MCTokenStore --------------------------
(* TokenStore and the history of its races for TLC.                        *)
EXTENDS TokenStoreRaces, TLC

CONSTANTS u1
Sym == Permutations(Procs)
SymHashes == Sym \cup Permutations(Hashes)
\* In a zone that is one second ahead; read as local time, cut to the second,
\* it comes out one clock unit late.
Abroad == {[at |-> 1, zone |-> 2]}
SoonAndLate == {[at |-> 2, zone |-> 0], [at |-> 5, zone |-> 0]}
OneOwner == [h \in Hashes |-> u1]
=============================================================================
