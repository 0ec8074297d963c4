--------------------------- MODULE MCEngineCache ---------------------------
(***************************************************************************)
(* Small instances of EngineCache.  The pool of engines is listed per key: *)
(* each value can be built once, so it bounds how often a key is opened.   *)
(***************************************************************************)
EXTENDS EngineCacheRefinement, TLC

CONSTANTS k1, k2, k3, k4, a1, a2, b1, d1, e1, ds1, ds2

(* Values a* are engines of k1, b1 of k2, d1 of k3, e1 of k4. *)
MCKeyOf == [v \in Vals |-> CASE v \in {a1, a2} -> k1 [] v = b1 -> k2
                             [] v = d1 -> k3 [] v = e1 -> k4]

(* The graph and the vector engine of one dataset, the engine of another,  *)
(* and one (of the relational database, say) that belongs to no dataset.   *)
MCDatasetOf == [k \in Keys |-> CASE k \in {k1, k2} -> ds1 [] k = k3 -> ds2
                                 [] k = k4 -> NoVal]

(* Bounds of the capacity run: one close at a time is under way, and the   *)
(* two keys of the one dataset are interchangeable with their engines.     *)
OneClose ==
  Cardinality({v \in Vals : stage[v] \in InFlight}) <= 1
SameDataset ==
  {[x \in {k1, k2, a1, b1} |-> CASE x = k1 -> k2 [] x = k2 -> k1
                                [] x = a1 -> b1 [] x = b1 -> a1]}

(* The engines of k1 are interchangeable, and so are plain threads. *)
ThreadSymmetry == Permutations(Callers) \cup Permutations({a1, a2} \cap Vals)
=============================================================================
