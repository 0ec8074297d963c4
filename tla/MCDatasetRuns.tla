---------------------------- MODULE MCDatasetRuns ----------------------------
(***************************************************************************)
(* Small instances of DatasetRuns.                                         *)
(***************************************************************************)
EXTENDS DatasetRuns, TLC

CONSTANTS c1, c2, i1, i2, d1, d2

RunSymmetry ==
    Permutations(Calls) \cup Permutations(Items) \cup Permutations(Datasets)
=============================================================================
