------------------------ MODULE EngineCacheRefinement -----------------------
(***************************************************************************)
(* The cache implements the life cycle of EngineLifecycle.  An engine is   *)
(* "fresh" while only the creator that built it (and, once it has lost the *)
(* insertion race, closes it) knows of it, "shared" from its insertion to  *)
(* the start of its close.                                                 *)
(***************************************************************************)
EXTENDS EngineCache

(* The creator's own value: built, or the loser it is about to close.      *)
Fresh(v) ==
  \/ \E c \in Callers : built[c] = v
  \/ v \notin retired /\ \E t \in Actors : hand[t] = v

lifeOf(v) ==
  IF stage[v] = "open"
  THEN IF Fresh(v) THEN "fresh" ELSE "shared"
  ELSE IF stage[v] \in InFlight THEN "closing" ELSE stage[v]

life == [v \in Vals |-> lifeOf(v)]

Lifecycle == INSTANCE EngineLifecycle WITH
  slot <- cached, users <- holders, doomed <- forced

(* Whatever the interleaving of lookups, evictions, finalizers, the reaper *)
(* and the closes themselves, every step of the cache is one step of the   *)
(* life cycle or invisible to it: an engine is served only while open, by  *)
(* one key, and closed once, when nobody uses it or its users were told.   *)
ImplementsLifecycle == Lifecycle!Spec
=============================================================================
