---------------------------- MODULE MCMigration ----------------------------
(* Migration for TLC: versions around a carry, one of another shape.       *)
EXTENDS Migration, TLC

CONSTANTS t1, t2, t3
V090 == <<0, 9, 0>>
V0100 == <<0, 10, 0>>
V100 == <<1, 0, 0>>
V1 == <<1>>
SomeReleases == {V090, V0100, V100, V1}
SomeNeeds == V090 :> {t1} @@ V0100 :> {t1, t2} @@ V100 :> {t1, t2, t3}
               @@ V1 :> {t1, t3}
Sym == Permutations(Procs)
=============================================================================
