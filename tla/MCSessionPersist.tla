-------------------------- MODULE MCSessionPersist --------------------------
(***************************************************************************)
(* Small instances of SessionPersist.                                      *)
(***************************************************************************)
EXTENDS SessionPersist, TLC

PersistSymmetry ==
    Permutations(Calls) \cup Permutations(Turns) \cup Permutations(Datasets)
=============================================================================
