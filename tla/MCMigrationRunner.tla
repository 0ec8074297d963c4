-------------------------- MODULE MCMigrationRunner --------------------------
(***************************************************************************)
(* Small instances of MigrationRunner.  Both writers run in process p1,    *)
(* the operator in p2; release 1 ships two migrations, release 2 three.    *)
(***************************************************************************)
EXTENDS MigrationRunner, TLC

CONSTANTS p1, p2, w1, w2, op, d1, d2

MCSharedProcOf == [c \in Callers |-> IF c = op THEN p2 ELSE p1]

MCReleases == {1, 2}
MCHeadOf == (1 :> 2) @@ (2 :> 3)

DatasetSymmetry == Permutations(Datasets)
=============================================================================
