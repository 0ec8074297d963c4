-------------------------- MODULE EngineCacheProofs -------------------------
(***************************************************************************)
(* Proofs about the engine cache, for every set of keys, engines and       *)
(* callers: its types, the ownership of engines (the inductive invariant), *)
(* the safety properties that follow, and the implementation of the life   *)
(* cycle of EngineLifecycle.                                               *)
(***************************************************************************)
EXTENDS EngineCacheRefinement, FiniteSetTheorems, TLAPS

(* What a caller in the middle of a lookup remembers.                      *)
CallState ==
  \A c \in Callers :
    /\ pc[c] \in {"recheck", "build", "insert", "await", "block"} => want[c] \in Keys
    /\ pc[c] = "insert" => built[c] \in Vals

TypeInv == TypeOK /\ CallState

(* The disjuncts of Next, grouped by what they change.                     *)
AcquireStep ==
  \E c \in Callers :
    Recheck(c) \/ \E k \in Keys : GetOrCreate(c, k) \/ AGetOrCreate(c, k)
QuietStep ==
  \/ \E c \in Callers :
       \/ WaitOver(c) \/ CancelWait(c) \/ BuildFails(c)
       \/ \E v \in Vals : WaitTimeout(c, v)
       \/ \E K \in SUBSET Keys : AwaitPendingCloses(c, K)
  \/ \E t \in Actors : DetachDone(t)
  \/ SweepChoose
  \/ \E k \in Keys : Touch(k) \/ Age(k)
  \/ \E d \in Datasets : Pin(d) \/ Unpin(d)
BuildStep == \E c \in Callers : Build(c)
LoseStep == \E c \in Callers : InsertLoses(c)
InsertStep == \E c \in Callers : Insert(c)
EvictStep ==
  \/ \E c \in Callers, K \in SUBSET Keys : EvictWhere(c, K)
  \/ \E c \in Callers, k \in Keys : EvictAndClose(c, k)
  \/ SweepNext
DetachStep == \E t \in Actors : Detach(t)
ForceStep == \E t \in Actors : ForceDetach(t)
ReleaseStep == \E c \in Callers, v \in Vals : Release(c, v)
DropStep == \E t \in Actors : DropParting(t)
StartStep == \E t \in Actors : Register(t) \/ StartAsync(t) \/ StartInline(t)
EndStep == \E v \in Vals : EndPoolClose(v) \/ EndLoopClose(v) \/ Resolve(v)

LEMMA NextCases ==
  ASSUME Next
  PROVE  \/ AcquireStep \/ QuietStep \/ BuildStep \/ LoseStep \/ InsertStep \/ EvictStep
         \/ DetachStep \/ ForceStep \/ ReleaseStep \/ DropStep \/ StartStep \/ EndStep
<1>1. ASSUME NEW c \in Callers, NEW k \in Keys, Evict(c, k)
      PROVE  EvictStep
  BY <1>1 DEF Evict, EvictStep
<1>2. ASSUME NEW c \in Callers, CacheClear(c)
      PROVE  EvictStep
  BY <1>2 DEF CacheClear, EvictStep
<1> QED
  BY <1>1, <1>2 DEF Next, CreatorStep, Continue, AcquireStep, QuietStep, BuildStep,
     LoseStep, InsertStep, EvictStep, DetachStep, ForceStep, ReleaseStep, DropStep,
     StartStep, EndStep

-----------------------------------------------------------------------------
(* Types.                                                                  *)

LEMMA InitTypes == Init => TypeInv
BY ConstantsAssumption
   DEF Init, TypeInv, TypeOK, CallState, Opt, Actors, Stages, Pcs

LEMMA PresentTypes ==
  ASSUME TypeOK, NEW K \in SUBSET Keys, K \subseteq CachedKeys
  PROVE  /\ Remaining(K) \in [Keys -> Opt(Vals)]
         /\ {cached[k] : k \in K} \in SUBSET Vals
         /\ Without(K) \subseteq Keys \X Keys
BY ConstantsAssumption DEF TypeOK, Opt, Remaining, CachedKeys, Without

LEMMA MoveTypes ==
  ASSUME TypeOK, NEW k \in Keys
  PROVE  MoveToEnd(k, CachedKeys) \subseteq Keys \X Keys
BY DEF TypeOK, MoveToEnd, Without, CachedKeys

LEMMA LeaseTypes ==
  ASSUME TypeOK, NEW c \in Callers, NEW v \in Vals, Lease(c, v)
  PROVE  proxied' \subseteq Vals /\ holders' \in [Vals -> SUBSET Callers]
BY DEF TypeOK, Lease

LEMMA HitTypes ==
  ASSUME TypeInv, NEW c \in Callers, NEW k \in Keys, Hit(c, k)
  PROVE  TypeInv'
<1>1. cached[k] \in Vals
  BY DEF TypeInv, TypeOK, Opt, Hit
<1>2. older' \subseteq Keys \X Keys
  BY MoveTypes DEF TypeInv, Hit
<1>3. proxied' \subseteq Vals /\ holders' \in [Vals -> SUBSET Callers]
  BY <1>1, LeaseTypes DEF TypeInv, Hit
<1>4. TypeOK'
  BY <1>2, <1>3, ConstantsAssumption
     DEF TypeInv, TypeOK, Hit, Opt, Actors, Pcs, history
<1>5. CallState'
  BY DEF TypeInv, TypeOK, CallState, Hit, Opt, Actors
<1> QED BY <1>4, <1>5 DEF TypeInv

LEMMA MissTypes ==
  ASSUME TypeInv, NEW c \in Callers, NEW k \in Keys, NEW p \in Pcs,
         NEW F \in SUBSET Vals, Miss(c, k, F, p), p # "insert"
  PROVE  TypeInv'
BY ConstantsAssumption
   DEF TypeInv, TypeOK, CallState, Miss, Opt, Actors, cacheVars, entryVars, history

LEMMA LookupTypes ==
  ASSUME TypeInv, NEW c \in Callers, NEW k \in Keys, LookupSync(c, k)
  PROVE  TypeInv'
<1>1. CASE Hit(c, k) BY <1>1, HitTypes
<1>2. CASE Miss(c, k, {}, "build") BY <1>2, MissTypes DEF Pcs
<1>3. CASE Miss(c, k, closing[k], "block")
  <2>1. closing[k] \in SUBSET Vals BY DEF TypeInv, TypeOK
  <2> QED BY <1>3, <2>1, MissTypes DEF Pcs, Waiting
<1> QED BY <1>1, <1>2, <1>3 DEF LookupSync

LEMMA AcquireTypes == TypeInv /\ AcquireStep => TypeInv'
<1> SUFFICES ASSUME TypeInv, AcquireStep PROVE TypeInv'
  OBVIOUS
<1>1. ASSUME NEW c \in Callers, NEW k \in Keys, GetOrCreate(c, k)
      PROVE  TypeInv'
  BY <1>1, LookupTypes DEF GetOrCreate
<1>2. ASSUME NEW c \in Callers, NEW k \in Keys, AGetOrCreate(c, k)
      PROVE  TypeInv'
  <2>1. closing[k] \in SUBSET Vals BY DEF TypeInv, TypeOK
  <2>2. CASE Hit(c, k) BY <2>2, HitTypes
  <2>3. CASE Miss(c, k, closing[k], "recheck") BY <2>1, <2>3, MissTypes DEF Pcs
  <2>4. CASE Miss(c, k, closing[k], "await") BY <2>1, <2>4, MissTypes DEF Pcs, Waiting
  <2> QED BY <1>2, <2>2, <2>3, <2>4 DEF AGetOrCreate
<1>3. ASSUME NEW c \in Callers, Recheck(c)
      PROVE  TypeInv'
  <2>1. want[c] \in Keys BY <1>3 DEF Recheck, TypeInv, CallState
  <2> QED BY <1>3, <2>1, LookupTypes DEF Recheck
<1> QED BY <1>1, <1>2, <1>3 DEF AcquireStep

LEMMA QuietTypes == TypeInv /\ (QuietStep \/ BuildStep) => TypeInv'
<1> SUFFICES ASSUME TypeInv, QuietStep \/ BuildStep PROVE TypeInv'
  OBVIOUS
<1> USE ConstantsAssumption DEF TypeInv, TypeOK, CallState, Opt, Actors, cacheVars,
        entryVars, callVars, history
<1>1. ASSUME NEW c \in Callers, WaitOver(c)
      PROVE  TypeInv'
  BY <1>1 DEF WaitOver, Waiting, Pcs
<1>2. ASSUME NEW c \in Callers, NEW v \in Vals, WaitTimeout(c, v)
      PROVE  TypeInv'
  BY <1>2 DEF WaitTimeout, Drop
<1>3. ASSUME NEW c \in Callers, CancelWait(c)
      PROVE  TypeInv'
  BY <1>3 DEF CancelWait, Pcs
<1>4. ASSUME NEW c \in Callers, NEW K \in SUBSET Keys, AwaitPendingCloses(c, K)
      PROVE  TypeInv'
  BY <1>4 DEF AwaitPendingCloses, Pcs, Waiting
<1>5. ASSUME NEW c \in Callers, BuildFails(c)
      PROVE  TypeInv'
  BY <1>5 DEF BuildFails, Pcs
<1>6. ASSUME NEW c \in Callers, Build(c)
      PROVE  TypeInv'
  BY <1>6 DEF Build, Pcs, Stages
<1>7. ASSUME NEW t \in Actors, DetachDone(t)
      PROVE  TypeInv'
  BY <1>7 DEF DetachDone, Pcs
<1>8. ASSUME SweepChoose
      PROVE  TypeInv'
  BY <1>8 DEF SweepChoose, Idle, Pcs
<1>9. ASSUME NEW k \in Keys, Touch(k) \/ Age(k)
      PROVE  TypeInv'
  BY <1>9 DEF Touch, Age
<1>10. ASSUME NEW d \in Datasets, Pin(d) \/ Unpin(d)
      PROVE  TypeInv'
  BY <1>10 DEF Pin, Unpin
<1> QED
  BY <1>1, <1>2, <1>3, <1>4, <1>5, <1>6, <1>7, <1>8, <1>9, <1>10 DEF QuietStep, BuildStep

LEMMA InsertTypes == TypeInv /\ (InsertStep \/ LoseStep) => TypeInv'
<1> SUFFICES ASSUME TypeInv, NEW c \in Callers, Insert(c) \/ InsertLoses(c) PROVE TypeInv'
  BY DEF InsertStep, LoseStep
<1>0. want[c] \in Keys /\ built[c] \in Vals
  BY DEF TypeInv, CallState, Insert, InsertLoses
<1>1. CASE InsertLoses(c)
  <2>1. cached[want[c]] \in Vals BY <1>0, <1>1 DEF TypeInv, TypeOK, Opt, InsertLoses
  <2>2. proxied' \subseteq Vals /\ holders' \in [Vals -> SUBSET Callers]
    BY <1>1, <2>1, LeaseTypes DEF TypeInv, InsertLoses
  <2>3. older' \subseteq Keys \X Keys BY <1>0, <1>1, MoveTypes DEF TypeInv, InsertLoses
  <2> QED BY <1>0, <1>1, <2>2, <2>3, ConstantsAssumption
          DEF TypeInv, TypeOK, CallState, InsertLoses, Discard, Opt, Actors, Pcs, history
<1>2. CASE Insert(c)
  <2>1. PICK E \in SUBSET CachedKeys :
          /\ cached' = [k \in Keys |-> IF k = want[c] THEN built[c]
                                       ELSE IF k \in E THEN NoVal ELSE cached[k]]
          /\ older' = Without(E) \cup {<<k, want[c]>> : k \in CachedKeys \ E}
          /\ popped' = [popped EXCEPT ![c] = {cached[k] : k \in E}]
    BY <1>2 DEF Insert
  <2>2. E \in SUBSET Keys /\ E \subseteq CachedKeys BY DEF CachedKeys
  <2>3. {cached[k] : k \in E} \in SUBSET Vals /\ Without(E) \subseteq Keys \X Keys
    BY <2>2, PresentTypes DEF TypeInv
  <2>4. cached' \in [Keys -> Opt(Vals)] BY <1>0, <2>1 DEF TypeInv, TypeOK, Opt
  <2>5. older' \subseteq Keys \X Keys BY <1>0, <2>1, <2>3 DEF CachedKeys
  <2>6. popped' \in [Actors -> SUBSET Vals] BY <2>1, <2>3 DEF TypeInv, TypeOK
  <2>7. proxied' \subseteq Vals /\ holders' \in [Vals -> SUBSET Callers]
    BY <1>0, <1>2, LeaseTypes DEF TypeInv, Insert
  <2> QED BY <1>2, <2>4, <2>5, <2>6, <2>7, ConstantsAssumption
          DEF TypeInv, TypeOK, CallState, Insert, Opt, Actors, Pcs, history
<1> QED BY <1>1, <1>2

LEMMA PopTypes ==
  ASSUME TypeInv, NEW t \in Actors, NEW K \in SUBSET Keys, K \subseteq CachedKeys,
         NEW p \in {"detach", "force"}, Pop(t, K, p), expired' \subseteq Keys
  PROVE  TypeInv'
<1>1. /\ Remaining(K) \in [Keys -> Opt(Vals)]
      /\ {cached[k] : k \in K} \in SUBSET Vals
      /\ Without(K) \subseteq Keys \X Keys
  BY PresentTypes DEF TypeInv
<1> QED BY <1>1, ConstantsAssumption
        DEF TypeInv, TypeOK, CallState, Pop, Pcs, Actors, entryVars, callVars, history

LEMMA EvictTypes == TypeInv /\ EvictStep => TypeInv'
<1> SUFFICES ASSUME TypeInv, EvictStep PROVE TypeInv'
  OBVIOUS
<1> USE DEF CachedKeys, TypeInv, TypeOK, Actors
<1>1. ASSUME NEW c \in Callers, NEW K \in SUBSET Keys, EvictWhere(c, K)
      PROVE  TypeInv'
  BY <1>1, PopTypes DEF EvictWhere, Present
<1>2. ASSUME NEW c \in Callers, NEW k \in Keys, EvictAndClose(c, k)
      PROVE  TypeInv'
  BY <1>2, PopTypes DEF EvictAndClose
<1>3. CASE SweepNext
  <2>1. PICK x \in expired : expired' = expired \ {x} /\ Pop(Reaper, Present({x}), "force")
    BY <1>3 DEF SweepNext
  <2> QED BY <2>1, PopTypes DEF Present
<1> QED BY <1>1, <1>2, <1>3 DEF EvictStep

LEMMA CloserTypes ==
  TypeInv /\ (DetachStep \/ ForceStep \/ ReleaseStep \/ DropStep \/ StartStep \/ EndStep)
    => TypeInv'
<1> SUFFICES ASSUME TypeInv,
                    DetachStep \/ ForceStep \/ ReleaseStep \/ DropStep \/ StartStep \/ EndStep
             PROVE  TypeInv'
  OBVIOUS
<1> USE ConstantsAssumption DEF TypeInv, TypeOK, CallState, Opt, Actors, cacheVars,
        entryVars, callVars, history
<1>1. ASSUME NEW t \in Actors, Detach(t)
      PROVE  TypeInv'
  BY <1>1 DEF Detach
<1>2. ASSUME NEW t \in Actors, ForceDetach(t)
      PROVE  TypeInv'
  BY <1>2 DEF ForceDetach
<1>3. ASSUME NEW t \in Actors, DropParting(t)
      PROVE  TypeInv'
  BY <1>3 DEF DropParting, Finalize
<1>4. ASSUME NEW c \in Callers, NEW v \in Vals, Release(c, v)
      PROVE  TypeInv'
  BY <1>4 DEF Release, Finalize
<1>5. ASSUME NEW t \in Actors, Register(t)
      PROVE  TypeInv'
  BY <1>5 DEF Register, Stages, InFlight
<1>6. ASSUME NEW t \in Actors, StartAsync(t)
      PROVE  TypeInv'
  BY <1>6 DEF StartAsync, Stages, InFlight
<1>7. ASSUME NEW t \in Actors, StartInline(t)
      PROVE  TypeInv'
  BY <1>7 DEF StartInline, Stages, InFlight
<1>8. ASSUME NEW v \in Vals, EndPoolClose(v) \/ EndLoopClose(v)
      PROVE  TypeInv'
  BY <1>8 DEF EndPoolClose, EndLoopClose, CloseEnds, Stages, InFlight
<1>9. ASSUME NEW v \in Vals, Resolve(v)
      PROVE  TypeInv'
  BY <1>9 DEF Resolve, Drop, Stages
<1> QED
  BY <1>1, <1>2, <1>3, <1>4, <1>5, <1>6, <1>7, <1>8, <1>9
     DEF DetachStep, ForceStep, ReleaseStep, DropStep, StartStep, EndStep

LEMMA NextTypes == TypeInv /\ [Next]_vars => TypeInv'
<1>1. TypeInv /\ UNCHANGED vars => TypeInv'
  BY DEF vars, TypeInv, TypeOK, CallState
<1> QED
  BY <1>1, NextCases, AcquireTypes, QuietTypes, InsertTypes, EvictTypes, CloserTypes

(* The variables of the cache, its entries and its users keep their types, *)
(* and a caller in the middle of a lookup knows its key.                   *)
THEOREM TypeCorrect == Spec => []TypeOK
<1>1. TypeInv => TypeOK BY DEF TypeInv
<1> QED BY <1>1, InitTypes, NextTypes, PTL DEF Spec

-----------------------------------------------------------------------------
(* Ownership: who may touch an engine, step by step.                       *)

LEMMA OwnedFacts ==
  ASSUME TypeInv, Ownership, NEW v \in Vals, OwnedElsewhere(v)
  PROVE  /\ v \notin retired \cup marked /\ stage[v] = "open"
         /\ \A c \in Callers : built[c] # v
         /\ \A t \in Actors : hand[t] # v
<1>1. v \notin retired /\ stage[v] = "open"
  <2>1. CASE cached[KeyOf[v]] = v
    BY <2>1, ConstantsAssumption DEF Ownership, CacheOwns
  <2>2. CASE \E t \in Actors : v \in popped[t] BY <2>2 DEF Ownership, PopperOwns
  <2> QED BY <2>1, <2>2 DEF OwnedElsewhere
<1>2. \A c \in Callers : built[c] # v
  BY ConstantsAssumption DEF Ownership, BuilderOwns
<1>3. \A t \in Actors : hand[t] # v
  BY ConstantsAssumption DEF Ownership, CloserOwns
<1> QED BY <1>1, <1>2, <1>3 DEF Ownership, EntriesAgree

LEMMA BuiltFacts ==
  ASSUME TypeInv, Ownership, NEW c \in Callers, built[c] # NoVal
  PROVE  /\ built[c] \in Vals /\ KeyOf[built[c]] = want[c] /\ want[c] \in Keys
         /\ pc[c] = "insert" /\ stage[built[c]] = "open" /\ Untouched(built[c])
         /\ ~OwnedElsewhere(built[c]) /\ built[c] \notin marked
         /\ \A t \in Actors : hand[t] # built[c]
         /\ \A d \in Callers \ {c} : built[d] # built[c]
BY DEF TypeInv, TypeOK, CallState, Opt, Ownership, BuilderOwns, EntriesAgree, Untouched

LEMMA HandFacts ==
  ASSUME TypeInv, Ownership, NEW t \in Actors, hand[t] # NoVal
  PROVE  /\ hand[t] \in Vals /\ stage[hand[t]] \in {"open", "registered", "ended"}
         /\ hand[t] \in marked \/ Untouched(hand[t])
         /\ ~OwnedElsewhere(hand[t])
         /\ \A u \in Actors \ {t} : hand[u] # hand[t]
BY DEF TypeInv, TypeOK, Opt, Ownership, CloserOwns

LEMMA CachedFacts ==
  ASSUME TypeInv, Ownership, NEW k \in Keys, cached[k] # NoVal
  PROVE  /\ cached[k] \in Vals /\ KeyOf[cached[k]] = k /\ OwnedElsewhere(cached[k])
         /\ stage[cached[k]] = "open" /\ cached[k] \notin retired \cup marked
BY DEF TypeInv, TypeOK, Opt, Ownership, CacheOwns, OwnedElsewhere, EntriesAgree

LEMMA PoppedFacts ==
  ASSUME TypeInv, Ownership, NEW t \in Actors, NEW v \in popped[t]
  PROVE  /\ v \in Vals /\ OwnedElsewhere(v)
         /\ stage[v] = "open" /\ v \notin retired \cup marked
         /\ cached[KeyOf[v]] # v /\ \A u \in Actors \ {t} : v \notin popped[u]
BY DEF TypeInv, TypeOK, Ownership, PopperOwns, OwnedElsewhere, EntriesAgree

LEMMA QuietOwns ==
  ASSUME TypeInv, Ownership,
         UNCHANGED <<cached, retired, marked, proxied, stage, holders, built, popped, hand,
                     parting, forced>>,
         \A c \in Callers : pc[c] = "insert" => pc'[c] = "insert" /\ want'[c] = want[c]
  PROVE  Ownership'
<1>1. \A v \in Vals : (Untouched(v)' <=> Untouched(v)) /\ (OwnedElsewhere(v)' <=> OwnedElsewhere(v))
  BY DEF Untouched, OwnedElsewhere
<1>2. BuilderOwns'
  <2> SUFFICES ASSUME NEW d \in Callers, built[d] # NoVal
               PROVE  Untouched(built[d])' /\ ~OwnedElsewhere(built[d])'
    BY BuiltFacts DEF BuilderOwns
  <2> QED BY BuiltFacts DEF Untouched, OwnedElsewhere
<1>3. CloserOwns' BY <1>1, HandFacts DEF CloserOwns
<1>4. CacheOwns' /\ PopperOwns' BY DEF Ownership, CacheOwns, PopperOwns
<1>5. EntriesAgree' BY <1>1 DEF Ownership, EntriesAgree
<1> QED BY <1>2, <1>3, <1>4, <1>5 DEF Ownership

LEMMA HitOwns ==
  ASSUME TypeInv, Ownership, NEW c \in Callers, NEW k \in Keys, Hit(c, k), pc[c] # "insert"
  PROVE  Ownership'
<1> DEFINE w == cached[k]
<1>1. /\ w \in Vals /\ OwnedElsewhere(w) /\ stage[w] = "open" /\ w \notin retired \cup marked
      /\ \A d \in Callers : built[d] # w
      /\ \A t \in Actors : hand[t] # w
  BY CachedFacts, OwnedFacts DEF Hit
<1>2. /\ holders' = [holders EXCEPT ![w] = @ \cup {c}] /\ proxied' = proxied \cup {w}
      /\ pc' = [pc EXCEPT ![c] = "idle"] /\ want' = [want EXCEPT ![c] = NoVal]
      /\ UNCHANGED <<cached, retired, marked, stage, built, popped, hand, parting, forced>>
  BY <1>1 DEF Hit, Lease, history
<1>3. \A v \in Vals \ {w} : Untouched(v) => Untouched(v)'
  BY <1>1, <1>2 DEF Untouched, TypeInv, TypeOK
<1>4. \A v \in Vals : OwnedElsewhere(v)' <=> OwnedElsewhere(v)
  BY <1>2 DEF OwnedElsewhere
<1>5. CacheOwns' BY <1>2 DEF Ownership, CacheOwns
<1>6. PopperOwns' BY <1>2 DEF Ownership, PopperOwns
<1>7. BuilderOwns'
  <2> SUFFICES ASSUME NEW d \in Callers, built[d] # NoVal
               PROVE  pc'[d] = pc[d] /\ want'[d] = want[d] /\ Untouched(built[d])'
    BY <1>2, <1>4, BuiltFacts DEF BuilderOwns, OwnedElsewhere
  <2>1. d # c BY BuiltFacts
  <2>2. pc'[d] = pc[d] /\ want'[d] = want[d] BY <1>2, <2>1 DEF TypeInv, TypeOK, Actors
  <2>3. built[d] \in Vals \ {w} /\ Untouched(built[d]) BY <1>1, BuiltFacts
  <2> QED BY <1>2, <1>3, <2>2, <2>3 DEF Untouched
<1>8. CloserOwns'
  BY <1>1, <1>2, <1>3, <1>4, HandFacts DEF CloserOwns
<1>9. EntriesAgree'
  <2>1. marked' \cup forced' \subseteq retired' /\ retired' \cap proxied' = {}
    BY <1>1, <1>2 DEF Ownership, EntriesAgree
  <2>2. \A t \in Actors : parting'[t] # NoVal => parting'[t] \in retired'
    BY <1>2 DEF Ownership, EntriesAgree
  <2>3. ASSUME NEW v \in Vals
        PROVE  /\ holders'[v] # {} => v \in proxied' \cup retired'
               /\ holders'[v] # {} /\ v \in marked' => v \in forced'
               /\ stage'[v] # "open" => v \in marked' \/ Untouched(v)'
               /\ stage'[v] = "unborn" => Untouched(v)'
    <3>1. v # w => holders'[v] = holders[v] BY <1>1, <1>2 DEF TypeInv, TypeOK
    <3> QED BY <1>1, <1>2, <1>3, <3>1 DEF Ownership, EntriesAgree
  <2> QED BY <2>1, <2>2, <2>3 DEF EntriesAgree
<1> QED BY <1>5, <1>6, <1>7, <1>8, <1>9 DEF Ownership

LEMMA MissOwns ==
  ASSUME TypeInv, Ownership, NEW c \in Callers, NEW k \in Keys, NEW F, NEW p,
         Miss(c, k, F, p), pc[c] # "insert"
  PROVE  Ownership'
BY QuietOwns DEF Miss, cacheVars, entryVars, history, TypeInv, TypeOK, Actors

(* An engine that was never built is in nobody's hands.                    *)
LEMMA UnbornFacts ==
  ASSUME TypeInv, Ownership, NEW v \in Vals, stage[v] = "unborn"
  PROVE  /\ Untouched(v) /\ ~OwnedElsewhere(v)
         /\ \A t \in Actors : hand[t] # v
         /\ \A d \in Callers : built[d] # v
<1>1. Untouched(v)
  BY DEF Ownership, EntriesAgree
<1>2. \A k \in Keys : cached[k] # v
  BY ConstantsAssumption DEF Ownership, CacheOwns
<1>3. \A t \in Actors : v \notin popped[t]
  BY DEF Ownership, PopperOwns
<1>4. \A t \in Actors : hand[t] # v
  BY ConstantsAssumption DEF Ownership, CloserOwns
<1>5. \A d \in Callers : built[d] # v
  BY ConstantsAssumption DEF Ownership, BuilderOwns
<1> QED BY <1>1, <1>2, <1>3, <1>4, <1>5, ConstantsAssumption DEF OwnedElsewhere

LEMMA BuildOwns ==
  ASSUME TypeInv, Ownership, NEW c \in Callers, Build(c)
  PROVE  Ownership'
<1> USE ConstantsAssumption DEF TypeInv, TypeOK, CallState, Opt, Actors, Build, cacheVars, entryVars, history,
        Ownership, CacheOwns, PopperOwns, BuilderOwns, CloserOwns, EntriesAgree,
        Untouched, OwnedElsewhere
<1>1. CacheOwns'
  OBVIOUS
<1>2. PopperOwns'
  OBVIOUS
<1>3. BuilderOwns'
  <2>1. PICK v \in Vals : /\ stage[v] = "unborn" /\ KeyOf[v] = want[c]
                          /\ stage' = [stage EXCEPT ![v] = "open"]
                          /\ built' = [built EXCEPT ![c] = v]
    OBVIOUS
  <2>2. /\ Untouched(v) /\ ~OwnedElsewhere(v)
        /\ \A t \in Actors : hand[t] # v
        /\ \A d \in Callers : built[d] # v
    BY <2>1, UnbornFacts
  <2>3. \A d \in Callers : built'[d] = IF d = c THEN v ELSE built[d]
    BY <2>1
  <2> QED BY <2>1, <2>2, <2>3
<1>4. CloserOwns'
  OBVIOUS
<1>5. EntriesAgree'
  OBVIOUS
<1> QED BY <1>1, <1>2, <1>3, <1>4, <1>5

LEMMA LoseOwns ==
  ASSUME TypeInv, Ownership, NEW c \in Callers, InsertLoses(c)
  PROVE  Ownership'
<1> USE ConstantsAssumption DEF TypeInv, TypeOK, CallState, Opt, Actors, InsertLoses, Discard, Lease, history,
        Ownership, CacheOwns, PopperOwns, BuilderOwns, CloserOwns, EntriesAgree,
        Untouched, OwnedElsewhere
<1>1. CacheOwns'
  OBVIOUS
<1>2. PopperOwns'
  OBVIOUS
<1>3. BuilderOwns'
  OBVIOUS
<1>4. CloserOwns'
  OBVIOUS
<1>5. EntriesAgree'
  OBVIOUS
<1> QED BY <1>1, <1>2, <1>3, <1>4, <1>5

LEMMA InsertOwns ==
  ASSUME TypeInv, Ownership, NEW c \in Callers, Insert(c)
  PROVE  Ownership'
<1> DEFINE b == built[c]
<1>1. /\ b \in Vals /\ KeyOf[b] = want[c] /\ want[c] \in Keys /\ b # NoVal
      /\ stage[b] = "open" /\ Untouched(b) /\ ~OwnedElsewhere(b) /\ b \notin marked
      /\ b \notin retired
      /\ \A t \in Actors : hand[t] # b
      /\ \A d \in Callers \ {c} : built[d] # b
  BY BuiltFacts, ConstantsAssumption DEF Insert, TypeInv, CallState, Untouched
<1>2. PICK E \in SUBSET CachedKeys :
          /\ cached' = [k \in Keys |-> IF k = want[c] THEN b
                                       ELSE IF k \in E THEN NoVal ELSE cached[k]]
          /\ popped' = [popped EXCEPT ![c] = {cached[k] : k \in E}]
  BY DEF Insert
<1>3. /\ cached[want[c]] = NoVal
      /\ holders' = [holders EXCEPT ![b] = @ \cup {c}] /\ proxied' = proxied \cup {b}
      /\ pc' = [pc EXCEPT ![c] = "detach"] /\ want' = [want EXCEPT ![c] = NoVal]
      /\ built' = [built EXCEPT ![c] = NoVal]
      /\ UNCHANGED <<retired, marked, stage, hand, parting, forced>>
  BY <1>1 DEF Insert, Lease, history
<1>4. E \subseteq Keys /\ \A k \in E : cached[k] # NoVal /\ k # want[c]
  BY <1>3 DEF CachedKeys
<1>5. ASSUME NEW v \in Vals \ {b}, cached'[KeyOf[v]] = v
      PROVE  cached[KeyOf[v]] = v /\ KeyOf[v] \notin E
  <2>1. KeyOf[v] \in Keys /\ v # NoVal BY ConstantsAssumption
  <2> QED BY <1>2, <1>5, <2>1
<1>6. ASSUME NEW t \in Actors, NEW v \in popped'[t]
      PROVE  \/ t # c /\ v \in popped[t]
             \/ t = c /\ cached[KeyOf[v]] = v /\ KeyOf[v] \in E
  <2>1. CASE t # c BY <1>2, <1>6, <2>1 DEF TypeInv, TypeOK
  <2>2. CASE t = c
    <3>1. PICK k \in E : v = cached[k] BY <1>2, <1>6, <2>2 DEF TypeInv, TypeOK
    <3>2. KeyOf[v] = k BY <1>4, <3>1, CachedFacts
    <3> QED BY <2>2, <3>1, <3>2
  <2> QED BY <2>1, <2>2
<1>7. ASSUME NEW v \in Vals \ {b}, OwnedElsewhere(v)'
      PROVE  OwnedElsewhere(v)
  BY <1>5, <1>6, <1>7 DEF OwnedElsewhere
<1>8. \A v \in Vals \ {b} : (Untouched(v) => Untouched(v)') /\ holders'[v] = holders[v]
  BY <1>1, <1>3 DEF Untouched, TypeInv, TypeOK
<1>9. CacheOwns'
  <2> SUFFICES ASSUME NEW k \in Keys, cached'[k] # NoVal
               PROVE  /\ KeyOf[cached'[k]] = k /\ stage[cached'[k]] = "open"
                      /\ cached'[k] \notin retired
    BY <1>3 DEF CacheOwns
  <2>1. CASE k = want[c] BY <1>1, <1>2, <2>1
  <2>2. CASE k # want[c]
    <3>1. cached'[k] = cached[k] BY <1>2, <2>2
    <3> QED BY <3>1, CachedFacts
  <2> QED BY <2>1, <2>2
<1>10. PopperOwns'
  <2> SUFFICES ASSUME NEW t \in Actors, NEW v \in popped'[t]
               PROVE  /\ stage[v] = "open" /\ v \notin retired
                      /\ cached'[KeyOf[v]] # v
                      /\ \A u \in Actors \ {t} : v \notin popped'[u]
    BY <1>3 DEF PopperOwns
  <2>1. v \in Vals /\ OwnedElsewhere(v)
    <3>1. CASE v \in popped[t] BY <3>1, PoppedFacts
    <3>2. CASE cached[KeyOf[v]] = v /\ KeyOf[v] \in E BY <1>4, <3>2, CachedFacts
    <3> QED BY <1>6, <3>1, <3>2
  <2>2. v # b /\ stage[v] = "open" /\ v \notin retired BY <1>1, <2>1, OwnedFacts
  <2>3. cached'[KeyOf[v]] # v
    <3>1. CASE v \in popped[t] BY <1>5, <2>1, <2>2, <3>1, PoppedFacts
    <3>2. CASE KeyOf[v] \in E BY <1>5, <2>1, <2>2, <3>2
    <3> QED BY <1>6, <3>1, <3>2
  <2>4. ASSUME NEW u \in Actors \ {t}, v \in popped'[u] PROVE FALSE
    <3>1. t # c \/ u # c OBVIOUS
    <3> QED BY <1>6, <2>4, <3>1, PoppedFacts
  <2> QED BY <2>2, <2>3, <2>4
<1>11. BuilderOwns'
  <2> SUFFICES ASSUME NEW d \in Callers, built'[d] # NoVal
               PROVE  /\ pc'[d] = "insert" /\ KeyOf[built'[d]] = want'[d]
                      /\ stage[built'[d]] = "open" /\ Untouched(built[d])'
                      /\ ~OwnedElsewhere(built[d])'
                      /\ \A t \in Actors : hand[t] # built'[d]
                      /\ \A e \in Callers \ {d} : built'[e] # built'[d]
    BY <1>3 DEF BuilderOwns, Untouched, OwnedElsewhere
  <2>1. /\ d # c /\ built'[d] = built[d] /\ pc'[d] = pc[d] /\ want'[d] = want[d]
        /\ \A e \in Callers : built'[e] \in {built[e], NoVal}
    BY <1>3 DEF TypeInv, TypeOK, Actors
  <2>2. built[d] \in Vals \ {b} BY <1>1, <2>1, BuiltFacts
  <2> QED
    BY <1>3, <1>7, <1>8, <2>1, <2>2, BuiltFacts DEF Untouched, OwnedElsewhere
<1>12. CloserOwns'
  <2> SUFFICES ASSUME NEW t \in Actors, hand[t] # NoVal
               PROVE  /\ stage[hand[t]] \in {"open", "registered", "ended"}
                      /\ hand[t] \in marked \/ Untouched(hand[t])'
                      /\ ~OwnedElsewhere(hand[t])'
                      /\ \A u \in Actors \ {t} : hand[u] # hand[t]
    BY <1>3 DEF CloserOwns, Untouched, OwnedElsewhere
  <2>1. hand[t] \in Vals \ {b} BY <1>1, HandFacts
  <2> QED BY <1>3, <1>7, <1>8, <2>1, HandFacts DEF Untouched, OwnedElsewhere
<1>13. EntriesAgree'
  <2>1. \A v \in Vals :
          /\ holders'[v] # {} => v \in proxied' \cup retired'
          /\ holders'[v] # {} /\ v \in marked' => v \in forced'
          /\ stage'[v] # "open" => v \in marked' \/ Untouched(v)'
          /\ stage'[v] = "unborn" => Untouched(v)'
    BY <1>1, <1>3, <1>8 DEF Ownership, EntriesAgree
  <2> QED BY <1>1, <1>3, <2>1 DEF Ownership, EntriesAgree
<1> QED BY <1>9, <1>10, <1>11, <1>12, <1>13 DEF Ownership

LEMMA PopOwns ==
  ASSUME TypeInv, Ownership, NEW t \in Actors, NEW K \in SUBSET Keys, K \subseteq CachedKeys,
         NEW p \in {"detach", "force"}, Pop(t, K, p), pc[t] # "insert"
  PROVE  Ownership'
<1>1. /\ cached' = [k \in Keys |-> IF k \in K THEN NoVal ELSE cached[k]]
      /\ popped' = [popped EXCEPT ![t] = {cached[k] : k \in K}]
      /\ pc' = [pc EXCEPT ![t] = p]
      /\ UNCHANGED <<retired, marked, proxied, stage, holders, built, want, hand, parting, forced>>
  BY DEF Pop, Remaining, entryVars, callVars, history
<1>2. ASSUME NEW v \in Vals, cached'[KeyOf[v]] = v
      PROVE  cached[KeyOf[v]] = v /\ KeyOf[v] \notin K
  <2>1. KeyOf[v] \in Keys /\ v # NoVal BY ConstantsAssumption
  <2> QED BY <1>1, <1>2, <2>1
<1>3. ASSUME NEW u \in Actors, NEW v \in popped'[u]
      PROVE  \/ u # t /\ v \in popped[u]
             \/ u = t /\ v \in Vals /\ cached[KeyOf[v]] = v /\ KeyOf[v] \in K
  <2>1. CASE u # t BY <1>1, <1>3, <2>1 DEF TypeInv, TypeOK
  <2>2. CASE u = t
    <3>1. PICK k \in K : v = cached[k] BY <1>1, <1>3, <2>2 DEF TypeInv, TypeOK
    <3>2. v \in Vals /\ KeyOf[v] = k BY <3>1, CachedFacts DEF CachedKeys
    <3> QED BY <2>2, <3>1, <3>2
  <2> QED BY <2>1, <2>2
<1>4. \A v \in Vals : OwnedElsewhere(v)' => OwnedElsewhere(v)
  BY <1>2, <1>3 DEF OwnedElsewhere
<1>5. \A v \in Vals : Untouched(v)' <=> Untouched(v)
  BY <1>1 DEF Untouched
<1>6. CacheOwns'
  BY <1>1 DEF Ownership, CacheOwns
<1>7. PopperOwns'
  <2> SUFFICES ASSUME NEW u \in Actors, NEW v \in popped'[u]
               PROVE  /\ stage[v] = "open" /\ v \notin retired
                      /\ cached'[KeyOf[v]] # v
                      /\ \A w \in Actors \ {u} : v \notin popped'[w]
    BY <1>1 DEF PopperOwns
  <2>1. v \in Vals /\ OwnedElsewhere(v) BY <1>3, PoppedFacts DEF OwnedElsewhere
  <2>2. cached'[KeyOf[v]] # v
    <3>1. CASE v \in popped[u] BY <1>2, <2>1, <3>1, PoppedFacts
    <3>2. CASE KeyOf[v] \in K BY <1>2, <2>1, <3>2
    <3> QED BY <1>3, <3>1, <3>2
  <2>3. ASSUME NEW w \in Actors \ {u}, v \in popped'[w] PROVE FALSE
    <3>1. u # t \/ w # t OBVIOUS
    <3> QED BY <1>3, <2>3, <3>1, PoppedFacts
  <2> QED BY <2>1, <2>2, <2>3, OwnedFacts
<1>8. BuilderOwns'
  <2> SUFFICES ASSUME NEW d \in Callers, built[d] # NoVal
               PROVE  pc'[d] = pc[d] /\ ~OwnedElsewhere(built[d])'
    BY <1>1, BuiltFacts DEF BuilderOwns, Untouched
  <2>1. d # t BY BuiltFacts
  <2>2. built[d] \in Vals /\ ~OwnedElsewhere(built[d]) BY BuiltFacts
  <2>3. ~OwnedElsewhere(built[d])' BY <1>1, <1>4, <2>2 DEF OwnedElsewhere
  <2> QED BY <1>1, <2>1, <2>3 DEF TypeInv, TypeOK, Actors
<1>9. CloserOwns'
  BY <1>1, <1>4, <1>5, HandFacts DEF CloserOwns
<1>10. EntriesAgree'
  BY <1>1, <1>5 DEF Ownership, EntriesAgree
<1> QED BY <1>6, <1>7, <1>8, <1>9, <1>10 DEF Ownership

LEMMA DetachOwns ==
  ASSUME TypeInv, Ownership, NEW t \in Actors, Detach(t)
  PROVE  Ownership'
<1> USE ConstantsAssumption DEF TypeInv, TypeOK, CallState, Opt, Actors, Detach, ClosesNow, Free, cacheVars, callVars, history,
        Ownership, CacheOwns, PopperOwns, BuilderOwns, CloserOwns, EntriesAgree,
        Untouched, OwnedElsewhere
<1>1. CacheOwns'
  OBVIOUS
<1>2. PopperOwns'
  OBVIOUS
<1>3. BuilderOwns'
  OBVIOUS
<1>4. CloserOwns'
  OBVIOUS
<1>5. EntriesAgree'
  OBVIOUS
<1> QED BY <1>1, <1>2, <1>3, <1>4, <1>5

LEMMA ForceOwns ==
  ASSUME TypeInv, Ownership, NEW t \in Actors, ForceDetach(t)
  PROVE  Ownership'
<1> USE ConstantsAssumption DEF TypeInv, TypeOK, CallState, Opt, Actors, ForceDetach, Free, cacheVars, callVars, history,
        Ownership, CacheOwns, PopperOwns, BuilderOwns, CloserOwns, EntriesAgree,
        Untouched, OwnedElsewhere
<1>1. CacheOwns'
  OBVIOUS
<1>2. PopperOwns'
  OBVIOUS
<1>3. BuilderOwns'
  OBVIOUS
<1>4. CloserOwns'
  OBVIOUS
<1>5. EntriesAgree'
  OBVIOUS
<1> QED BY <1>1, <1>2, <1>3, <1>4, <1>5

LEMMA ReleaseOwns ==
  ASSUME TypeInv, Ownership, NEW c \in Callers, NEW x \in Vals, Release(c, x)
  PROVE  Ownership'
<1>1. /\ holders' = [holders EXCEPT ![x] = @ \ {c}]
      /\ UNCHANGED <<cached, retired, proxied, stage, built, popped, parting, pc, want, forced>>
  BY DEF Release, cacheVars, callVars, history
<1>2. \/ UNCHANGED <<marked, hand>>
      \/ /\ x \in retired \ marked /\ hand[c] = NoVal /\ holders[x] = {c}
         /\ marked' = marked \cup {x} /\ hand' = [hand EXCEPT ![c] = x]
  BY DEF Release, Finalize, CloseDue, Free, TypeInv, TypeOK, Actors
<1>3. \A v \in Vals : (Untouched(v) => Untouched(v)') /\ (OwnedElsewhere(v)' <=> OwnedElsewhere(v))
  BY <1>1 DEF Untouched, OwnedElsewhere, TypeInv, TypeOK
<1>4. CacheOwns' BY <1>1 DEF Ownership, CacheOwns
<1>5. PopperOwns' BY <1>1 DEF Ownership, PopperOwns
<1>6. BuilderOwns'
  <2> SUFFICES ASSUME NEW d \in Callers, built[d] # NoVal
               PROVE  /\ Untouched(built[d])' /\ ~OwnedElsewhere(built[d])'
                      /\ \A t \in Actors : hand'[t] # built[d]
    BY <1>1, BuiltFacts DEF BuilderOwns
  <2>1. /\ built[d] \in Vals \ retired /\ Untouched(built[d]) /\ ~OwnedElsewhere(built[d])
        /\ \A t \in Actors : hand[t] # built[d]
    BY BuiltFacts DEF Untouched
  <2>2. Untouched(built[d])' /\ ~OwnedElsewhere(built[d])'
    BY <1>1, <1>3, <2>1 DEF Untouched, OwnedElsewhere
  <2>3. \A t \in Actors : hand'[t] \in {hand[t], x} /\ (hand'[t] = x => x \in retired \/ hand[t] = x)
    BY <1>2 DEF TypeInv, TypeOK
  <2> QED BY <2>1, <2>2, <2>3
<1>7. CloserOwns'
  <2>1. CASE UNCHANGED <<marked, hand>>
    BY <1>1, <1>3, <2>1, HandFacts DEF CloserOwns
  <2>2. CASE /\ x \in retired \ marked /\ hand[c] = NoVal /\ holders[x] = {c}
             /\ marked' = marked \cup {x} /\ hand' = [hand EXCEPT ![c] = x]
    <3>1. ~OwnedElsewhere(x) /\ stage[x] = "open" /\ \A t \in Actors : hand[t] # x
      <4>1. ~Untouched(x) BY <2>2 DEF Untouched
      <4>2. stage[x] = "open" BY <2>2, <4>1 DEF Ownership, EntriesAgree
      <4>3. ~OwnedElsewhere(x) BY <2>2, OwnedFacts
      <4>4. \A t \in Actors : hand[t] # x BY <2>2, <4>1, HandFacts, ConstantsAssumption
      <4> QED BY <4>2, <4>3, <4>4
    <3>2. \A t \in Actors : hand'[t] = IF t = c THEN x ELSE hand[t]
      BY <2>2 DEF TypeInv, TypeOK, Actors
    <3> QED BY <1>1, <1>3, <2>2, <3>1, <3>2, HandFacts DEF CloserOwns, Actors
  <2> QED BY <1>2, <2>1, <2>2
<1>8. EntriesAgree'
  <2>1. ASSUME NEW v \in Vals
        PROVE  /\ holders'[v] # {} => v \in proxied' \cup retired'
               /\ holders'[v] # {} /\ v \in marked' => v \in forced'
               /\ stage'[v] # "open" => v \in marked' \/ Untouched(v)'
               /\ stage'[v] = "unborn" => Untouched(v)'
    <3>1. holders'[v] = IF v = x THEN holders[v] \ {c} ELSE holders[v]
      BY <1>1 DEF TypeInv, TypeOK
    <3> QED BY <1>1, <1>2, <1>3, <3>1 DEF Ownership, EntriesAgree
  <2> QED BY <1>1, <1>2, <2>1 DEF Ownership, EntriesAgree
<1> QED BY <1>4, <1>5, <1>6, <1>7, <1>8 DEF Ownership

LEMMA DropOwns ==
  ASSUME TypeInv, Ownership, NEW t \in Actors, DropParting(t)
  PROVE  Ownership'
<1> USE ConstantsAssumption DEF TypeInv, TypeOK, CallState, Opt, Actors, DropParting, Finalize, CloseDue, cacheVars, callVars, history,
        Ownership, CacheOwns, PopperOwns, BuilderOwns, CloserOwns, EntriesAgree,
        Untouched, OwnedElsewhere
<1>1. CacheOwns'
  OBVIOUS
<1>2. PopperOwns'
  OBVIOUS
<1>3. BuilderOwns'
  OBVIOUS
<1>4. CloserOwns'
  OBVIOUS
<1>5. EntriesAgree'
  OBVIOUS
<1> QED BY <1>1, <1>2, <1>3, <1>4, <1>5

LEMMA StartOwns ==
  ASSUME TypeInv, Ownership, NEW t \in Actors, Register(t) \/ StartAsync(t) \/ StartInline(t)
  PROVE  Ownership'
<1> USE ConstantsAssumption DEF TypeInv, TypeOK, CallState, Opt, Actors, Register, StartAsync, StartInline, cacheVars, entryVars, callVars, history,
        Ownership, CacheOwns, PopperOwns, BuilderOwns, CloserOwns, EntriesAgree,
        Untouched, OwnedElsewhere
<1>1. CacheOwns'
  OBVIOUS
<1>2. PopperOwns'
  OBVIOUS
<1>3. BuilderOwns'
  OBVIOUS
<1>4. CloserOwns'
  OBVIOUS
<1>5. EntriesAgree'
  OBVIOUS
<1> QED BY <1>1, <1>2, <1>3, <1>4, <1>5

LEMMA EndOwns ==
  ASSUME TypeInv, Ownership, NEW x \in Vals, EndPoolClose(x) \/ EndLoopClose(x) \/ Resolve(x)
  PROVE  Ownership'
<1> USE ConstantsAssumption DEF TypeInv, TypeOK, CallState, Opt, Actors, EndPoolClose, EndLoopClose, CloseEnds, Resolve, cacheVars, entryVars, callVars, history,
        Ownership, CacheOwns, PopperOwns, BuilderOwns, CloserOwns, EntriesAgree,
        Untouched, OwnedElsewhere
<1>1. CacheOwns'
  OBVIOUS
<1>2. PopperOwns'
  OBVIOUS
<1>3. BuilderOwns'
  OBVIOUS
<1>4. CloserOwns'
  OBVIOUS
<1>5. EntriesAgree'
  OBVIOUS
<1> QED BY <1>1, <1>2, <1>3, <1>4, <1>5

LEMMA LookupOwns ==
  ASSUME TypeInv, Ownership, NEW c \in Callers, NEW k \in Keys, LookupSync(c, k),
         pc[c] # "insert"
  PROVE  Ownership'
<1>1. CASE Hit(c, k) BY <1>1, HitOwns
<1>2. CASE Miss(c, k, {}, "build") BY <1>2, MissOwns
<1>3. CASE Miss(c, k, closing[k], "block") BY <1>3, MissOwns
<1> QED BY <1>1, <1>2, <1>3 DEF LookupSync

LEMMA AcquireOwns == TypeInv /\ Ownership /\ AcquireStep => Ownership'
<1> SUFFICES ASSUME TypeInv, Ownership, AcquireStep PROVE Ownership'
  OBVIOUS
<1>1. ASSUME NEW c \in Callers, NEW k \in Keys, GetOrCreate(c, k)
      PROVE  Ownership'
  BY <1>1, LookupOwns DEF GetOrCreate
<1>2. ASSUME NEW c \in Callers, NEW k \in Keys, AGetOrCreate(c, k)
      PROVE  Ownership'
  BY <1>2, HitOwns, MissOwns DEF AGetOrCreate
<1>3. ASSUME NEW c \in Callers, Recheck(c)
      PROVE  Ownership'
  <2>1. want[c] \in Keys BY <1>3 DEF Recheck, TypeInv, CallState
  <2> QED BY <1>3, <2>1, LookupOwns DEF Recheck
<1> QED BY <1>1, <1>2, <1>3 DEF AcquireStep

LEMMA QuietStepOwns == TypeInv /\ Ownership /\ QuietStep => Ownership'
<1> SUFFICES ASSUME TypeInv, Ownership, QuietStep PROVE Ownership'
  OBVIOUS
<1> USE QuietOwns DEF cacheVars, entryVars, callVars, history
<1>1. ASSUME NEW c \in Callers, WaitOver(c) \/ CancelWait(c) \/ BuildFails(c)
      PROVE  Ownership'
  BY <1>1 DEF WaitOver, CancelWait, BuildFails, Waiting, TypeInv, TypeOK, Actors
<1>2. ASSUME NEW c \in Callers, NEW v \in Vals, WaitTimeout(c, v)
      PROVE  Ownership'
  BY <1>2 DEF WaitTimeout
<1>3. ASSUME NEW c \in Callers, NEW K \in SUBSET Keys, AwaitPendingCloses(c, K)
      PROVE  Ownership'
  BY <1>3 DEF AwaitPendingCloses, TypeInv, TypeOK, Actors
<1>4. ASSUME NEW t \in Actors, DetachDone(t)
      PROVE  Ownership'
  BY <1>4 DEF DetachDone, TypeInv, TypeOK, Actors
<1>5. CASE SweepChoose
  BY <1>5, ConstantsAssumption DEF SweepChoose, Idle, TypeInv, TypeOK, Actors
<1>6. ASSUME NEW k \in Keys, Touch(k) \/ Age(k)
      PROVE  Ownership'
  BY <1>6 DEF Touch, Age
<1>7. ASSUME NEW d \in Datasets, Pin(d) \/ Unpin(d)
      PROVE  Ownership'
  BY <1>7 DEF Pin, Unpin
<1> QED BY <1>1, <1>2, <1>3, <1>4, <1>5, <1>6, <1>7 DEF QuietStep

LEMMA EvictOwns == TypeInv /\ Ownership /\ EvictStep => Ownership'
<1> SUFFICES ASSUME TypeInv, Ownership, EvictStep PROVE Ownership'
  OBVIOUS
<1>1. ASSUME NEW c \in Callers, NEW K \in SUBSET Keys, EvictWhere(c, K)
      PROVE  Ownership'
  BY <1>1, PopOwns DEF EvictWhere, Present, Actors, CachedKeys
<1>2. ASSUME NEW c \in Callers, NEW k \in Keys, EvictAndClose(c, k)
      PROVE  Ownership'
  BY <1>2, PopOwns DEF EvictAndClose, Actors, CachedKeys
<1>3. CASE SweepNext
  <2>1. PICK k \in expired : Pop(Reaper, Present({k}), "force")
    BY <1>3 DEF SweepNext
  <2> QED BY <1>3, <2>1, PopOwns DEF SweepNext, Present, Actors, CachedKeys
<1> QED BY <1>1, <1>2, <1>3 DEF EvictStep

LEMMA NextOwns == TypeInv /\ Ownership /\ [Next]_vars => Ownership'
<1> SUFFICES ASSUME TypeInv, Ownership, [Next]_vars PROVE Ownership'
  OBVIOUS
<1>1. CASE UNCHANGED vars BY <1>1, QuietOwns DEF vars
<1>2. BuildStep \/ LoseStep \/ InsertStep => Ownership'
  BY BuildOwns, LoseOwns, InsertOwns DEF BuildStep, LoseStep, InsertStep
<1>3. DetachStep \/ ForceStep \/ ReleaseStep \/ DropStep => Ownership'
  BY DetachOwns, ForceOwns, ReleaseOwns, DropOwns
     DEF DetachStep, ForceStep, ReleaseStep, DropStep
<1>4. StartStep \/ EndStep => Ownership'
  BY StartOwns, EndOwns DEF StartStep, EndStep
<1> QED
  BY <1>1, <1>2, <1>3, <1>4, NextCases, AcquireOwns, QuietStepOwns, EvictOwns

LEMMA InitOwns == Init => Ownership
BY ConstantsAssumption
   DEF Init, Ownership, CacheOwns, PopperOwns, BuilderOwns, CloserOwns, EntriesAgree,
       Untouched, OwnedElsewhere, Actors

LEMMA Invariants == Spec => [](TypeInv /\ Ownership)
<1> QED BY InitTypes, InitOwns, NextTypes, NextOwns, PTL DEF Spec

(* An engine has one owner at a time: the cache, the actor that popped it, *)
(* its creator, or the actor that closes it.                               *)
THEOREM OwnershipHolds == Spec => []Ownership
BY Invariants, PTL

(* close() is never called twice on an engine.                             *)
THEOREM ClosedOnce == Spec => []CloseOnce
<1>1. TypeInv /\ Ownership => CloseOnce
  BY HandFacts DEF CloseOnce
<1> QED BY <1>1, Invariants, PTL

(* The cache never hands out an engine that is closed or about to be.      *)
THEOREM ServedIsOpen == Spec => []CachedIsOpen
<1>1. TypeInv /\ Ownership => CachedIsOpen
  <2> SUFFICES ASSUME TypeInv, Ownership, NEW k \in Keys, cached[k] # NoVal
               PROVE  /\ KeyOf[cached[k]] = k /\ stage[cached[k]] = "open"
                      /\ cached[k] \notin retired \cup marked
                      /\ \A t \in Actors : hand[t] # cached[k]
    BY DEF CachedIsOpen
  <2> QED BY CachedFacts, OwnedFacts
<1> QED BY <1>1, Invariants, PTL

(* Nobody's engine is closed under him, unless evict_and_close did it.     *)
THEOREM LeaseProtects == Spec => []LeaseKeepsOpen
<1>1. Ownership => LeaseKeepsOpen
  BY DEF Ownership, EntriesAgree, Untouched, LeaseKeepsOpen
<1> QED BY <1>1, Invariants, PTL
-----------------------------------------------------------------------------
(* Capacity.                                                               *)

(* What keeps the overflow bounded: the dataset queue has one dataset per  *)
(* slot, and the cache lists finitely many keys.                           *)
SlotsBounded == IsFiniteSet(active) /\ Cardinality(active) <= Slots
CapacityInv == SlotsBounded /\ IsFiniteSet(CachedKeys) /\ OverflowBounded

(* Fewer entries stay within the bound.                                    *)
LEMMA ShrinkStaysBounded ==
  ASSUME CapacityInv, SlotsBounded', CachedKeys' \subseteq CachedKeys
  PROVE  CapacityInv'
<1>1. IsFiniteSet(CachedKeys') /\ Cardinality(CachedKeys') <= Cardinality(CachedKeys)
  BY FS_Subset DEF CapacityInv
<1>2. Cardinality(CachedKeys') \in Nat /\ Cardinality(CachedKeys) \in Nat
  BY <1>1, FS_CardinalityType DEF CapacityInv
<1>3. OverflowBounded'
  <2> SUFFICES ASSUME Callers \subseteq LoopCallers
               PROVE  \/ Cardinality(CachedKeys') <= MaxSize
                      \/ \E A \in SUBSET Datasets, k \in Keys :
                           /\ Cardinality(A) <= Slots
                           /\ \A j \in CachedKeys' \ {k} : DatasetOf[j] \in A
    BY DEF OverflowBounded
  <2>1. CASE Cardinality(CachedKeys) <= MaxSize
    BY <2>1, <1>1, <1>2, ConstantsAssumption
  <2>2. CASE ~(Cardinality(CachedKeys) <= MaxSize)
    <3>1. PICK A \in SUBSET Datasets, k \in Keys :
            /\ Cardinality(A) <= Slots
            /\ \A j \in CachedKeys \ {k} : DatasetOf[j] \in A
      BY <2>2 DEF CapacityInv, OverflowBounded
    <3>2. \A j \in CachedKeys' \ {k} : DatasetOf[j] \in A
      BY <3>1
    <3> QED BY <3>1, <3>2
  <2> QED BY <2>1, <2>2
<1> QED BY <1>1, <1>3 DEF CapacityInv

(* The eviction loop of an insertion on the event loop either makes room   *)
(* for the new entry or leaves keys of active datasets only.               *)
LEMMA VictimsMakeRoom ==
  ASSUME CapacityInv, NEW c \in LoopCallers, NEW E \in SUBSET CachedKeys, Victims(c, E)
  PROVE  \/ Cardinality(CachedKeys \ E) < MaxSize
         \/ \A j \in CachedKeys \ E : DatasetOf[j] \in active
<1> DEFINE n == Cardinality(CachedKeys)
           kept == CachedKeys \ E
<1>1. IsFiniteSet(CachedKeys) /\ n \in Nat
  BY FS_CardinalityType DEF CapacityInv
<1>2. IsFiniteSet(kept) /\ Cardinality(kept) = n - Cardinality(E)
  <2>1. CachedKeys \cap E = E
    OBVIOUS
  <2> QED BY <1>1, <2>1, FS_Difference
<1>3. CASE Cardinality(E) = Surplus
  BY <1>1, <1>2, <1>3, ConstantsAssumption DEF Surplus
<1>4. CASE kept \subseteq MaySpare(c)
  BY <1>4 DEF MaySpare, Pinned
<1> QED BY <1>3, <1>4 DEF Victims

LEMMA InsertCapacity ==
  ASSUME TypeInv, CapacityInv, NEW c \in Callers, Insert(c)
  PROVE  CapacityInv'
<1>1. PICK E \in SUBSET CachedKeys :
        /\ Victims(c, E)
        /\ cached' = [k \in Keys |-> IF k = want[c] THEN built[c]
                                     ELSE IF k \in E THEN NoVal ELSE cached[k]]
  BY DEF Insert
<1> DEFINE kept == CachedKeys \ E
<1>2. CachedKeys' \subseteq kept \cup {want[c]} /\ CachedKeys' \subseteq Keys
  BY <1>1 DEF CachedKeys
<1>3. IsFiniteSet(kept) /\ Cardinality(kept) \in Nat
  BY FS_Subset, FS_CardinalityType DEF CapacityInv
<1>4. IsFiniteSet(CachedKeys') /\ Cardinality(CachedKeys') \in Nat
  <2> HIDE DEF kept
  <2> QED BY <1>2, <1>3, FS_AddElement, FS_Subset, FS_CardinalityType
<1>5. Cardinality(CachedKeys') <= Cardinality(kept) + 1
  <2> HIDE DEF kept
  <2>1. /\ IsFiniteSet(kept \cup {want[c]})
        /\ Cardinality(kept \cup {want[c]}) =
             IF want[c] \in kept THEN Cardinality(kept) ELSE Cardinality(kept) + 1
    BY <1>3, FS_AddElement
  <2>2. Cardinality(CachedKeys') <= Cardinality(kept \cup {want[c]})
    BY <1>2, <2>1, FS_Subset
  <2> QED BY <1>3, <1>4, <2>1, <2>2
<1>6. SlotsBounded'
  BY DEF Insert, CapacityInv, SlotsBounded
<1>7. ASSUME Callers \subseteq LoopCallers
      PROVE  \/ Cardinality(CachedKeys') <= MaxSize
             \/ \E A \in SUBSET Datasets, k \in Keys :
                  /\ Cardinality(A) <= Slots
                  /\ \A j \in CachedKeys' \ {k} : DatasetOf[j] \in A
  <2>1. Cardinality(kept) < MaxSize \/ \A j \in kept : DatasetOf[j] \in active
    BY <1>1, <1>7, VictimsMakeRoom
  <2>2. CASE Cardinality(kept) < MaxSize
    <3> HIDE DEF kept
    <3> QED BY <2>2, <1>3, <1>4, <1>5, ConstantsAssumption
  <2>3. CASE \A j \in kept : DatasetOf[j] \in active
    <3>1. active \in SUBSET Datasets /\ Cardinality(active) <= Slots
      BY DEF TypeInv, TypeOK, CapacityInv, SlotsBounded
    <3>2. \A j \in CachedKeys' \ {want[c]} : DatasetOf[j] \in active
      BY <1>2, <2>3
    <3>3. want[c] \in Keys
      BY DEF Insert, TypeInv, CallState
    <3> QED BY <3>1, <3>2, <3>3
  <2> QED BY <2>1, <2>2, <2>3
<1>8. OverflowBounded'
  BY <1>7 DEF OverflowBounded
<1> QED BY <1>4, <1>6, <1>8 DEF CapacityInv

LEMMA PopCapacity ==
  ASSUME CapacityInv, NEW t, NEW K, NEW p, Pop(t, K, p)
  PROVE  CapacityInv'
<1>1. CachedKeys' \subseteq CachedKeys
  BY DEF Pop, Remaining, CachedKeys
<1>2. SlotsBounded'
  BY DEF Pop, CapacityInv, SlotsBounded
<1> QED BY <1>1, <1>2, ShrinkStaysBounded

LEMMA EvictCapacity ==
  ASSUME CapacityInv, EvictStep
  PROVE  CapacityInv'
<1>1. ASSUME NEW c \in Callers, NEW K \in SUBSET Keys, EvictWhere(c, K)
      PROVE  CapacityInv'
  BY <1>1, PopCapacity DEF EvictWhere
<1>2. ASSUME NEW c \in Callers, NEW k \in Keys, EvictAndClose(c, k)
      PROVE  CapacityInv'
  BY <1>2, PopCapacity DEF EvictAndClose
<1>3. ASSUME SweepNext
      PROVE  CapacityInv'
  BY <1>3, PopCapacity DEF SweepNext
<1> QED BY <1>1, <1>2, <1>3 DEF EvictStep

(* A dataset takes a slot that is free.                                      *)
LEMMA PinCapacity ==
  ASSUME CapacityInv, NEW d \in Datasets, Pin(d) \/ Unpin(d)
  PROVE  CapacityInv'
<1>1. IsFiniteSet(active) /\ Cardinality(active) \in Nat /\ Cardinality(active) <= Slots
  BY FS_CardinalityType DEF CapacityInv, SlotsBounded
<1>2. SlotsBounded'
  <2>1. CASE Pin(d)
    <3>1. active' = active \cup {d} /\ Cardinality(active) < Slots
      BY <2>1 DEF Pin
    <3>2. /\ IsFiniteSet(active \cup {d})
          /\ Cardinality(active \cup {d}) =
               IF d \in active THEN Cardinality(active) ELSE Cardinality(active) + 1
      BY <1>1, FS_AddElement
    <3>3. Cardinality(active \cup {d}) <= Slots
      BY <1>1, <3>1, <3>2, ConstantsAssumption
    <3> QED BY <3>1, <3>2, <3>3 DEF SlotsBounded
  <2>2. CASE Unpin(d)
    <3>1. active' \in SUBSET active
      BY <2>2 DEF Unpin
    <3>2. /\ IsFiniteSet(active') /\ Cardinality(active') \in Nat
          /\ Cardinality(active') <= Cardinality(active)
      BY <1>1, <3>1, FS_Subset, FS_CardinalityType
    <3>3. Cardinality(active') <= Slots
      BY <1>1, <3>2, ConstantsAssumption
    <3> QED BY <3>2, <3>3 DEF SlotsBounded
  <2> QED BY <2>1, <2>2
<1>3. CachedKeys' = CachedKeys
  BY DEF Pin, Unpin, cacheVars, CachedKeys
<1> QED BY <1>2, <1>3, ShrinkStaysBounded

(* No other step inserts, evicts or pins.                                  *)
LEMMA SameCapacity ==
  ASSUME CapacityInv, UNCHANGED <<cached, active>>
  PROVE  CapacityInv'
BY DEF CapacityInv, SlotsBounded, OverflowBounded, CachedKeys

LEMMA AcquireKeeps == AcquireStep => UNCHANGED <<cached, active>>
BY DEF AcquireStep, Recheck, GetOrCreate, AGetOrCreate, LookupSync, Hit, Miss, cacheVars

LEMMA QuietCapacity ==
  ASSUME CapacityInv, QuietStep
  PROVE  CapacityInv'
<1>1. ASSUME NEW d \in Datasets, Pin(d) \/ Unpin(d)
      PROVE  CapacityInv'
  BY <1>1, PinCapacity
<1>2. CASE UNCHANGED <<cached, active>>
  BY <1>2, SameCapacity
<1>3. \/ \E d \in Datasets : Pin(d) \/ Unpin(d)
      \/ UNCHANGED <<cached, active>>
  BY DEF QuietStep, WaitOver, CancelWait, BuildFails, WaitTimeout, AwaitPendingCloses,
         DetachDone, SweepChoose, Touch, Age, cacheVars
<1> QED BY <1>1, <1>2, <1>3

LEMMA NextCapacity == TypeInv /\ CapacityInv /\ [Next]_vars => CapacityInv'
<1> SUFFICES ASSUME TypeInv, CapacityInv, [Next]_vars PROVE CapacityInv'
  OBVIOUS
<1>1. CASE AcquireStep BY <1>1, AcquireKeeps, SameCapacity
<1>2. CASE QuietStep BY <1>2, QuietCapacity
<1>3. CASE InsertStep BY <1>3, InsertCapacity DEF InsertStep
<1>4. CASE EvictStep BY <1>4, EvictCapacity
<1>5. CASE BuildStep \/ LoseStep \/ DetachStep \/ ForceStep
  BY <1>5, SameCapacity DEF BuildStep, Build, LoseStep, InsertLoses, DetachStep, Detach,
     ForceStep, ForceDetach, cacheVars
<1>6. CASE ReleaseStep \/ DropStep
  BY <1>6, SameCapacity DEF ReleaseStep, Release, DropStep, DropParting, cacheVars
<1>7. CASE StartStep \/ EndStep
  BY <1>7, SameCapacity DEF StartStep, Register, StartAsync, StartInline, EndStep,
     EndPoolClose, EndLoopClose, CloseEnds, Resolve, cacheVars
<1>8. CASE UNCHANGED vars BY <1>8, SameCapacity DEF vars
<1> QED BY <1>1, <1>2, <1>3, <1>4, <1>5, <1>6, <1>7, <1>8, NextCases

LEMMA InitCapacity == Init => CapacityInv
<1> SUFFICES ASSUME Init PROVE CapacityInv
  OBVIOUS
<1>1. CachedKeys = {} /\ active = {}
  BY DEF Init, CachedKeys
<1> QED BY <1>1, FS_EmptySet, ConstantsAssumption
        DEF CapacityInv, SlotsBounded, OverflowBounded

(* When insertions run on the event loop, a cache that has outgrown its    *)
(* maximal size lists, but for the key inserted last, keys of at most as   *)
(* many datasets as the queue has slots: for any keys, datasets and slots, *)
(* any number of keys per dataset, and however the slots move between      *)
(* insertions, evictions and lookups.                                      *)
THEOREM OverflowIsBounded == Spec => []OverflowBounded
<1>1. CapacityInv => OverflowBounded
  BY DEF CapacityInv
<1> QED BY <1>1, InitCapacity, NextCapacity, Invariants, PTL DEF Spec
-----------------------------------------------------------------------------
(* Nothing leaks.                                                          *)

(* An actor starts nothing new while it still has something to close, to   *)
(* drop or to detach; the reaper ends no sweep with it either.             *)
Unburdened ==
  /\ \A t \in Actors :
       /\ pc[t] \notin {"idle", "detach", "force"} => hand[t] = NoVal /\ parting[t] = NoVal
       /\ pc[t] \notin {"detach", "force"} => popped[t] = {}
  /\ pc[Reaper] = "idle" => hand[Reaper] = NoVal /\ parting[Reaper] = NoVal

(* Somebody answers for the engine: as long as its proxy lives a holder or *)
(* the detaching actor references it, from then on its closer has it.      *)
CaredFor(v) ==
  /\ stage[v] = "open" /\ v \in marked => InHands(v)
  /\ stage[v] = "registered" => InHands(v)
  /\ stage[v] = "open" /\ v \notin retired =>
       OwnedElsewhere(v) \/ InHands(v) \/ \E c \in Callers : built[c] = v
  /\ v \in retired /\ v \notin marked =>
       holders[v] # {} \/ \E t \in Actors : parting[t] = v

Cared == \A v \in Vals : CaredFor(v)

(* An actor moves on when it is unburdened, or to where it may be burdened. *)
LEMMA SameBurden ==
  ASSUME Unburdened, UNCHANGED <<hand, parting, popped>>, NEW c \in Actors,
         \A t \in Actors : t # c => pc'[t] = pc[t],
         \/ pc'[c] \in {"detach", "force"} \/ pc'[c] = pc[c]
         \/ pc'[c] = "idle" /\ c # Reaper
         \/ hand[c] = NoVal /\ parting[c] = NoVal,
         pc[c] \in {"detach", "force"} => pc'[c] = pc[c] \/ popped[c] = {}
  PROVE  Unburdened'
BY DEF Unburdened, Actors

LEMMA LookupBurden ==
  ASSUME TypeInv, Unburdened, NEW c \in Callers, NEW k, NEW F, NEW p,
         Hit(c, k) \/ Miss(c, k, F, p), Free(c), pc[c] \notin {"detach", "force"}
  PROVE  Unburdened'
<1>1. UNCHANGED <<hand, parting, popped>>
  BY DEF Hit, Miss
<1>2. \A t \in Actors : t # c => pc'[t] = pc[t]
  BY DEF Hit, Miss, TypeInv, TypeOK
<1> QED BY <1>1, <1>2, SameBurden DEF Free, Actors

LEMMA UnburdenedStep == TypeInv /\ Unburdened /\ [Next]_vars => Unburdened'
<1> SUFFICES ASSUME TypeInv, Unburdened, [Next]_vars PROVE Unburdened'
  OBVIOUS
<1>1. CASE AcquireStep
  <2>1. ASSUME NEW c \in Callers, NEW k \in Keys, GetOrCreate(c, k) \/ AGetOrCreate(c, k)
        PROVE  Unburdened'
    BY <2>1, LookupBurden DEF GetOrCreate, AGetOrCreate, LookupSync
  <2>2. ASSUME NEW c \in Callers, Recheck(c)
        PROVE  Unburdened'
    <3>1. Free(c) /\ pc[c] \notin {"detach", "force"}
      BY <2>2 DEF Recheck, Unburdened, Free, Actors
    <3> QED BY <2>2, <3>1, LookupBurden DEF Recheck, LookupSync
  <2> QED BY <1>1, <2>1, <2>2 DEF AcquireStep
<1>2. CASE QuietStep
  <2>1. UNCHANGED <<hand, parting, popped>>
    BY <1>2 DEF QuietStep, WaitOver, CancelWait, BuildFails, WaitTimeout,
       AwaitPendingCloses, DetachDone, SweepChoose, Touch, Age, Pin, Unpin, callVars
  <2>2. ASSUME NEW c \in Callers, CancelWait(c) \/ BuildFails(c)
        PROVE  Unburdened'
    BY <2>1, <2>2, SameBurden, ConstantsAssumption
       DEF CancelWait, BuildFails, TypeInv, TypeOK, Actors
  <2>3. ASSUME NEW c \in Callers, WaitOver(c)
        PROVE  Unburdened'
    <3>1. pc[c] \in Waiting /\ \A t \in Actors : t # c => pc'[t] = pc[t]
      BY <2>3 DEF WaitOver, TypeInv, TypeOK, Actors
    <3>2. hand[c] = NoVal /\ parting[c] = NoVal /\ c \in Actors
      BY <3>1 DEF Waiting, Unburdened, Actors
    <3> QED BY <2>1, <3>1, <3>2, SameBurden DEF Waiting
  <2>4. ASSUME NEW c \in Callers, NEW K \in SUBSET Keys, AwaitPendingCloses(c, K)
        PROVE  Unburdened'
    BY <2>1, <2>4, SameBurden DEF AwaitPendingCloses, Free, TypeInv, TypeOK, Actors
  <2>5. ASSUME NEW t \in Actors, DetachDone(t)
        PROVE  Unburdened'
    BY <2>1, <2>5, SameBurden DEF DetachDone, Free, TypeInv, TypeOK
  <2>6. CASE SweepChoose
    BY <2>1, <2>6, SameBurden DEF SweepChoose, Unburdened, TypeInv, TypeOK, Actors
  <2>7. CASE UNCHANGED pc
    BY <2>1, <2>7 DEF Unburdened
  <2> QED BY <1>2, <2>2, <2>3, <2>4, <2>5, <2>6, <2>7
          DEF QuietStep, WaitTimeout, Touch, Age, Pin, Unpin
<1> USE ConstantsAssumption
    DEF TypeInv, TypeOK, Unburdened, Opt, Actors, Free, cacheVars, entryVars, callVars, history
<1>13. CASE BuildStep
  BY <1>13 DEF BuildStep, Build
<1>3. CASE LoseStep
  BY <1>3 DEF LoseStep, InsertLoses, Discard
<1>4. CASE InsertStep
  BY <1>4 DEF InsertStep, Insert
<1>5. CASE EvictStep
  <2>1. ASSUME NEW t \in Actors, NEW K, NEW p \in {"detach", "force"}, Pop(t, K, p)
        PROVE  Unburdened'
    BY <2>1 DEF Pop
  <2> QED BY <1>5, <2>1 DEF EvictStep, EvictWhere, EvictAndClose, SweepNext
<1>6. CASE DetachStep
  BY <1>6 DEF DetachStep, Detach
<1>7. CASE ForceStep
  BY <1>7 DEF ForceStep, ForceDetach
<1>8. CASE ReleaseStep
  BY <1>8 DEF ReleaseStep, Release, Finalize
<1>9. CASE DropStep
  BY <1>9 DEF DropStep, DropParting, Finalize
<1>10. CASE StartStep
  BY <1>10 DEF StartStep, Register, StartAsync, StartInline
<1>11. CASE EndStep
  BY <1>11 DEF EndStep, EndPoolClose, EndLoopClose, CloseEnds, Resolve
<1>12. CASE UNCHANGED vars
  BY <1>12 DEF vars
<1> QED BY <1>1, <1>2, <1>3, <1>4, <1>5, <1>6, <1>7, <1>8, <1>9, <1>10, <1>11, <1>12,
           <1>13, NextCases

(* A step that hands out proxies at most.                                  *)
LEMMA SharingCares ==
  ASSUME Cared,
         UNCHANGED <<cached, retired, marked, stage, built, popped, hand, parting>>,
         \A v \in Vals : holders[v] \subseteq holders'[v]
  PROVE  Cared'
BY DEF Cared, CaredFor, InHands, OwnedElsewhere

LEMMA LeaseShares ==
  ASSUME TypeOK, NEW c \in Callers, NEW x, Lease(c, x)
  PROVE  \A v \in Vals : holders[v] \subseteq holders'[v]
BY DEF TypeOK, Lease

LEMMA LookupShares ==
  ASSUME TypeOK, NEW c \in Callers, NEW k, NEW F, NEW p, Hit(c, k) \/ Miss(c, k, F, p)
  PROVE  /\ UNCHANGED <<cached, retired, marked, stage, built, popped, hand, parting>>
         /\ \A v \in Vals : holders[v] \subseteq holders'[v]
BY LeaseShares DEF Hit, Miss, cacheVars, entryVars, history

LEMMA AcquireCares ==
  ASSUME TypeInv, Cared, AcquireStep
  PROVE  Cared'
<1>1. ASSUME NEW c \in Callers, NEW k, LookupSync(c, k) \/ AGetOrCreate(c, k)
      PROVE  Cared'
  BY <1>1, LookupShares, SharingCares DEF LookupSync, AGetOrCreate, TypeInv
<1> QED BY <1>1 DEF AcquireStep, GetOrCreate, Recheck

LEMMA QuietCares ==
  ASSUME Cared, QuietStep
  PROVE  Cared'
<1>1. UNCHANGED <<cached, retired, marked, stage, holders, built, popped, hand, parting>>
  BY DEF QuietStep, WaitOver, CancelWait, BuildFails, WaitTimeout, AwaitPendingCloses,
     DetachDone, SweepChoose, Touch, Age, Pin, Unpin, cacheVars, entryVars, callVars,
     history
<1> QED BY <1>1, SharingCares

(* A creator answers for what it has built, and then the cache does, or    *)
(* the loser of the race closes it.                                        *)
LEMMA BuildCares ==
  ASSUME TypeInv, Ownership, Cared, NEW c \in Callers, Build(c)
  PROVE  Cared'
<1>1. PICK b \in Vals :
        /\ stage[b] = "unborn"
        /\ stage' = [stage EXCEPT ![b] = "open"] /\ built' = [built EXCEPT ![c] = b]
  BY DEF Build
<1>2. built[c] = NoVal
  BY DEF Build, Ownership, BuilderOwns
<1>3. b \notin retired /\ b \notin marked
  BY <1>1 DEF Ownership, EntriesAgree, Untouched
<1>4. UNCHANGED <<cached, retired, marked, holders, popped, hand, parting>>
  BY DEF Build, cacheVars, entryVars, history
<1> SUFFICES ASSUME NEW v \in Vals PROVE CaredFor(v)'
  BY DEF Cared
<1>5. CaredFor(v)
  BY DEF Cared
<1>6. CASE v = b
  <2>1. built'[c] = v
    BY <1>1, <1>6 DEF TypeInv, TypeOK
  <2> QED BY <1>1, <1>3, <1>4, <1>6, <2>1 DEF CaredFor, TypeInv, TypeOK
<1>7. CASE v # b
  <2>1. stage'[v] = stage[v]
    BY <1>1, <1>7 DEF TypeInv, TypeOK
  <2>2. \A d \in Callers : built[d] = v => built'[d] = v
    BY <1>1, <1>2, ConstantsAssumption DEF TypeInv, TypeOK
  <2> QED BY <1>4, <1>5, <2>1, <2>2 DEF CaredFor, InHands, OwnedElsewhere
<1> QED BY <1>6, <1>7

LEMMA LoseCares ==
  ASSUME TypeInv, Unburdened, Cared, NEW c \in Callers, InsertLoses(c)
  PROVE  Cared'
<1>1. /\ hand' = [hand EXCEPT ![c] = built[c]] /\ built' = [built EXCEPT ![c] = NoVal]
      /\ UNCHANGED <<cached, retired, marked, stage, popped, parting>>
  BY DEF InsertLoses, Discard, history
<1>2. hand[c] = NoVal
  BY DEF InsertLoses, Unburdened, Actors
<1>3. \A v \in Vals : holders[v] \subseteq holders'[v]
  BY LeaseShares DEF InsertLoses, TypeInv
<1> SUFFICES ASSUME NEW v \in Vals PROVE CaredFor(v)'
  BY DEF Cared
<1>4. CaredFor(v)
  BY DEF Cared
<1>5. InHands(v) => InHands(v)'
  BY <1>1, <1>2, ConstantsAssumption DEF InHands, TypeInv, TypeOK, Actors
<1>6. ASSUME NEW d \in Callers, built[d] = v
      PROVE  InHands(v)' \/ \E e \in Callers : built'[e] = v
  BY <1>1, <1>6 DEF InHands, TypeInv, TypeOK, Actors
<1>7. OwnedElsewhere(v) => OwnedElsewhere(v)'
  BY <1>1 DEF OwnedElsewhere
<1> QED BY <1>1, <1>3, <1>4, <1>5, <1>6, <1>7 DEF CaredFor

LEMMA InsertCares ==
  ASSUME TypeInv, Ownership, Unburdened, Cared, NEW c \in Callers, Insert(c)
  PROVE  Cared'
<1>1. PICK E \in SUBSET CachedKeys :
        /\ cached' = [k \in Keys |-> IF k = want[c] THEN built[c]
                                     ELSE IF k \in E THEN NoVal ELSE cached[k]]
        /\ popped' = [popped EXCEPT ![c] = {cached[k] : k \in E}]
  BY DEF Insert
<1>2. /\ cached[want[c]] = NoVal /\ built' = [built EXCEPT ![c] = NoVal]
      /\ UNCHANGED <<retired, marked, stage, hand, parting>>
  BY DEF Insert, history
<1>3. popped[c] = {}
  BY DEF Insert, Unburdened, Actors
<1>4. \A v \in Vals : holders[v] \subseteq holders'[v]
  BY LeaseShares DEF Insert, TypeInv
<1>5. built[c] \in Vals => KeyOf[built[c]] = want[c]
  BY ConstantsAssumption DEF Ownership, BuilderOwns
<1> SUFFICES ASSUME NEW v \in Vals PROVE CaredFor(v)'
  BY DEF Cared
<1>6. CaredFor(v) /\ KeyOf[v] \in Keys /\ v # NoVal
  BY ConstantsAssumption DEF Cared
<1>7. ASSUME cached[KeyOf[v]] = v
      PROVE  OwnedElsewhere(v)'
  <2>1. CASE KeyOf[v] \in E
    <3>1. v \in popped'[c]
      BY <1>1, <1>7, <2>1 DEF TypeInv, TypeOK, Actors
    <3> QED BY <3>1 DEF OwnedElsewhere, Actors
  <2>2. CASE KeyOf[v] \notin E
    BY <1>1, <1>2, <1>6, <1>7, <2>2 DEF OwnedElsewhere
  <2> QED BY <2>1, <2>2
<1>8. ASSUME NEW t \in Actors, v \in popped[t]
      PROVE  OwnedElsewhere(v)'
  BY <1>1, <1>3, <1>8 DEF OwnedElsewhere, TypeInv, TypeOK
<1>9. ASSUME NEW d \in Callers, built[d] = v
      PROVE  OwnedElsewhere(v)' \/ \E e \in Callers : built'[e] = v
  <2>1. CASE d = c
    BY <1>1, <1>5, <1>6, <1>9, <2>1 DEF OwnedElsewhere
  <2>2. CASE d # c
    BY <1>2, <1>9, <2>2 DEF TypeInv, TypeOK
  <2> QED BY <2>1, <2>2
<1>10. OwnedElsewhere(v) => OwnedElsewhere(v)'
  BY <1>7, <1>8 DEF OwnedElsewhere
<1> QED BY <1>2, <1>4, <1>6, <1>9, <1>10 DEF CaredFor, InHands

(* Who pops an entry answers for it, until the section under its lock has  *)
(* marked it or found that its proxy lives.                                *)
LEMMA PopCares ==
  ASSUME TypeInv, Ownership, Unburdened, Cared, NEW t \in Actors, NEW K \in SUBSET Keys,
         NEW p, Pop(t, K, p), pc[t] \notin {"detach", "force"}
  PROVE  Cared'
<1>1. /\ cached' = [k \in Keys |-> IF k \in K THEN NoVal ELSE cached[k]]
      /\ popped' = [popped EXCEPT ![t] = {cached[k] : k \in K}]
      /\ UNCHANGED <<retired, marked, stage, holders, built, hand, parting>>
  BY DEF Pop, Remaining, entryVars, callVars, history
<1>2. popped[t] = {}
  BY DEF Unburdened
<1> SUFFICES ASSUME NEW v \in Vals PROVE CaredFor(v)'
  BY DEF Cared
<1>3. CaredFor(v) /\ KeyOf[v] \in Keys
  BY ConstantsAssumption DEF Cared
<1>4. ASSUME cached[KeyOf[v]] = v
      PROVE  OwnedElsewhere(v)'
  <2>1. CASE KeyOf[v] \in K
    <3>1. v \in popped'[t]
      BY <1>1, <1>4, <2>1 DEF TypeInv, TypeOK
    <3> QED BY <3>1 DEF OwnedElsewhere
  <2>2. CASE KeyOf[v] \notin K
    BY <1>1, <1>3, <1>4, <2>2 DEF OwnedElsewhere
  <2> QED BY <2>1, <2>2
<1>5. ASSUME NEW u \in Actors, v \in popped[u]
      PROVE  OwnedElsewhere(v)'
  BY <1>1, <1>2, <1>5 DEF OwnedElsewhere, TypeInv, TypeOK
<1>6. OwnedElsewhere(v) => OwnedElsewhere(v)'
  BY <1>4, <1>5 DEF OwnedElsewhere
<1> QED BY <1>1, <1>3, <1>6 DEF CaredFor, InHands

LEMMA EvictCares ==
  ASSUME TypeInv, Ownership, Unburdened, Cared, EvictStep
  PROVE  Cared'
<1>1. ASSUME NEW c \in Callers, NEW K \in SUBSET Keys, EvictWhere(c, K)
      PROVE  Cared'
  <2>1. Present(K) \in SUBSET Keys
    BY DEF Present
  <2> QED BY <1>1, <2>1, PopCares DEF EvictWhere, Actors
<1>2. ASSUME NEW c \in Callers, NEW k \in Keys, EvictAndClose(c, k)
      PROVE  Cared'
  BY <1>2, PopCares DEF EvictAndClose, Actors
<1>3. ASSUME SweepNext
      PROVE  Cared'
  <2>1. PICK k \in expired : Pop(Reaper, Present({k}), "force")
    BY <1>3 DEF SweepNext
  <2>2. Present({k}) \in SUBSET Keys
    BY DEF Present, CachedKeys
  <2> QED BY <1>3, <2>1, <2>2, PopCares DEF SweepNext, Actors
<1> QED BY <1>1, <1>2, <1>3 DEF EvictStep

LEMMA DetachCares ==
  ASSUME TypeInv, Ownership, Cared, NEW t \in Actors, Detach(t) \/ ForceDetach(t)
  PROVE  Cared'
<1>1. PICK x \in popped[t] :
        /\ popped' = [popped EXCEPT ![t] = @ \ {x}] /\ retired' = retired \cup {x}
        /\ parting' = [parting EXCEPT ![t] = IF x \in proxied THEN x ELSE NoVal]
        /\ \/ /\ marked' = marked \cup {x} /\ hand' = [hand EXCEPT ![t] = x]
           \/ /\ marked' = marked /\ x \in proxied
              /\ hand' = [hand EXCEPT ![t] = NoVal]
  <2>1. CASE Detach(t)
    BY <2>1, PoppedFacts DEF Detach, ClosesNow
  <2>2. CASE ForceDetach(t)
    BY <2>2, PoppedFacts DEF ForceDetach
  <2> QED BY <2>1, <2>2
<1>2. hand[t] = NoVal /\ parting[t] = NoVal /\ UNCHANGED <<cached, stage, holders, built>>
  BY DEF Detach, ForceDetach, Free, cacheVars, callVars
<1> SUFFICES ASSUME NEW v \in Vals PROVE CaredFor(v)'
  BY DEF Cared
<1>3. CaredFor(v) /\ v # NoVal
  BY ConstantsAssumption DEF Cared
<1>4. InHands(v) => InHands(v)'
  BY <1>1, <1>2, <1>3 DEF InHands, TypeInv, TypeOK
<1>5. \A u \in Actors : parting[u] = v => parting'[u] = v
  BY <1>1, <1>2, <1>3 DEF TypeInv, TypeOK
<1>6. CASE v = x
  <2>1. x \in marked' => InHands(x)'
    BY <1>1, <1>6, PoppedFacts DEF InHands, TypeInv, TypeOK
  <2>2. x \notin marked' => parting'[t] = x
    BY <1>1 DEF TypeInv, TypeOK
  <2> QED BY <1>1, <1>2, <1>3, <1>4, <1>6, <2>1, <2>2 DEF CaredFor
<1>7. CASE v # x
  <2>1. OwnedElsewhere(v) => OwnedElsewhere(v)'
    BY <1>1, <1>2, <1>7 DEF OwnedElsewhere, TypeInv, TypeOK
  <2>2. (v \in marked' <=> v \in marked) /\ (v \in retired' <=> v \in retired)
    BY <1>1, <1>7
  <2> QED BY <1>2, <1>3, <1>4, <1>5, <2>1, <2>2 DEF CaredFor
<1> QED BY <1>6, <1>7

(* Who drops the last reference of a retired engine closes it.             *)
LEMMA ReleaseCares ==
  ASSUME TypeInv, Ownership, Cared, NEW c \in Callers, NEW x \in Vals, Release(c, x)
  PROVE  Cared'
<1>1. /\ holders' = [holders EXCEPT ![x] = @ \ {c}] /\ hand[c] = NoVal
      /\ UNCHANGED <<cached, retired, stage, built, popped, parting>>
  BY DEF Release, Free, cacheVars, callVars, history
<1>2. \/ UNCHANGED <<marked, hand>>
      \/ /\ x \in retired /\ x \notin marked
         /\ marked' = marked \cup {x} /\ hand' = [hand EXCEPT ![c] = x]
  BY <1>1 DEF Release, Finalize, CloseDue, TypeInv, TypeOK, Actors
<1>3. ASSUME x \in retired, x \notin marked, holders[x] = {c},
             \A t \in Actors : parting[t] # x
      PROVE  x \in marked'
  <2>1. x \notin proxied
    BY <1>3 DEF Ownership, EntriesAgree
  <2> QED BY <1>3, <2>1 DEF Release, Finalize, CloseDue
<1> SUFFICES ASSUME NEW v \in Vals PROVE CaredFor(v)'
  BY DEF Cared
<1>4. CaredFor(v) /\ v # NoVal
  BY ConstantsAssumption DEF Cared
<1>5. InHands(v) => InHands(v)'
  BY <1>1, <1>2, <1>4 DEF InHands, TypeInv, TypeOK, Actors
<1>6. v \in marked' => v \in marked \/ InHands(v)'
  BY <1>2 DEF InHands, TypeInv, TypeOK, Actors
<1>7. v \in retired /\ v \notin marked' => holders'[v] # {} \/ \E t \in Actors : parting'[t] = v
  <2>1. v # x => holders'[v] = holders[v]
    BY <1>1 DEF TypeInv, TypeOK
  <2>2. v = x /\ holders'[v] = {} => holders[v] \subseteq {c}
    BY <1>1 DEF TypeInv, TypeOK
  <2>3. marked \subseteq marked'
    BY <1>2
  <2> QED BY <1>1, <1>3, <1>4, <2>1, <2>2, <2>3 DEF CaredFor
<1>8. OwnedElsewhere(v) => OwnedElsewhere(v)'
  BY <1>1 DEF OwnedElsewhere
<1> QED BY <1>1, <1>4, <1>5, <1>6, <1>7, <1>8 DEF CaredFor

LEMMA DropCares ==
  ASSUME TypeInv, Ownership, Cared, NEW t \in Actors, DropParting(t)
  PROVE  Cared'
<1> DEFINE x == parting[t]
<1>1. /\ parting' = [parting EXCEPT ![t] = NoVal] /\ hand[t] = NoVal
      /\ UNCHANGED <<cached, retired, stage, holders, built, popped>>
  BY DEF DropParting, cacheVars, callVars, history
<1>2. \/ UNCHANGED <<marked, hand>>
      \/ /\ x \in retired /\ x \notin marked
         /\ marked' = marked \cup {x} /\ hand' = [hand EXCEPT ![t] = x]
  BY <1>1 DEF DropParting, Finalize, CloseDue, TypeInv, TypeOK
<1>3. x \in retired /\ holders[x] = {} => x \in marked'
  BY DEF DropParting, Finalize, CloseDue
<1> HIDE DEF x
<1> SUFFICES ASSUME NEW v \in Vals PROVE CaredFor(v)'
  BY DEF Cared
<1>4. CaredFor(v) /\ v # NoVal
  BY ConstantsAssumption DEF Cared
<1>5. InHands(v) => InHands(v)'
  BY <1>1, <1>2, <1>4 DEF InHands, TypeInv, TypeOK
<1>6. v \in marked' => v \in marked \/ InHands(v)'
  BY <1>2 DEF InHands, TypeInv, TypeOK
<1>7. v \in retired /\ v \notin marked' => holders'[v] # {} \/ \E u \in Actors : parting'[u] = v
  <2>1. \A u \in Actors : parting[u] = v /\ v # x => parting'[u] = v
    BY <1>1 DEF x, TypeInv, TypeOK
  <2>2. marked \subseteq marked'
    BY <1>2
  <2> QED BY <1>1, <1>3, <1>4, <2>1, <2>2 DEF CaredFor
<1>8. OwnedElsewhere(v) => OwnedElsewhere(v)'
  BY <1>1 DEF OwnedElsewhere
<1> QED BY <1>1, <1>4, <1>5, <1>6, <1>7, <1>8 DEF CaredFor

(* The closer lets go of an engine only when its close runs elsewhere, or  *)
(* is over.                                                                *)
LEMMA CloseCares ==
  ASSUME TypeInv, Cared, StartStep \/ EndStep
  PROVE  Cared'
<1> DEFINE Unstarted == {"open", "registered"}
       GoesOn(v) == /\ stage'[v] = "open" => stage[v] = "open"
                    /\ stage'[v] \in Unstarted => stage[v] \in Unstarted
                    /\ stage'[v] \in Unstarted => (InHands(v) => InHands(v)')
                    /\ stage[v] = "open" /\ stage'[v] = "registered" => InHands(v)'
       Closing == /\ UNCHANGED <<cached, retired, marked, holders, built, popped, parting>>
                  /\ \A v \in Vals : GoesOn(v)
<1>1. Closing
  <2> USE ConstantsAssumption DEF TypeInv, TypeOK, Opt, InHands, cacheVars, entryVars,
          callVars, history
  <2>1. ASSUME NEW t \in Actors, Register(t)
        PROVE  Closing
    BY <2>1 DEF Register
  <2>2. ASSUME NEW t \in Actors, StartAsync(t)
        PROVE  Closing
    BY <2>2 DEF StartAsync
  <2>3. ASSUME NEW t \in Actors, StartInline(t)
        PROVE  Closing
    BY <2>3 DEF StartInline
  <2>4. ASSUME NEW x \in Vals, EndPoolClose(x) \/ EndLoopClose(x)
        PROVE  Closing
    BY <2>4 DEF EndPoolClose, EndLoopClose, CloseEnds
  <2>5. ASSUME NEW x \in Vals, Resolve(x)
        PROVE  Closing
    BY <2>5 DEF Resolve
  <2> QED BY <2>1, <2>2, <2>3, <2>4, <2>5 DEF StartStep, EndStep
<1>2. \A v \in Vals : OwnedElsewhere(v) => OwnedElsewhere(v)'
  BY <1>1 DEF OwnedElsewhere
<1> QED BY <1>1, <1>2 DEF Cared, CaredFor

LEMMA NextCares ==
  TypeInv /\ Ownership /\ Unburdened /\ Cared /\ [Next]_vars => Cared'
<1> SUFFICES ASSUME TypeInv, Ownership, Unburdened, Cared, [Next]_vars PROVE Cared'
  OBVIOUS
<1>1. CASE AcquireStep BY <1>1, AcquireCares
<1>2. CASE QuietStep BY <1>2, QuietCares
<1>3. CASE BuildStep BY <1>3, BuildCares DEF BuildStep
<1>4. CASE LoseStep BY <1>4, LoseCares DEF LoseStep
<1>5. CASE InsertStep BY <1>5, InsertCares DEF InsertStep
<1>6. CASE EvictStep BY <1>6, EvictCares
<1>7. CASE DetachStep \/ ForceStep BY <1>7, DetachCares DEF DetachStep, ForceStep
<1>8. CASE ReleaseStep BY <1>8, ReleaseCares DEF ReleaseStep
<1>9. CASE DropStep BY <1>9, DropCares DEF DropStep
<1>10. CASE StartStep \/ EndStep BY <1>10, CloseCares
<1>11. CASE UNCHANGED vars BY <1>11, SharingCares DEF vars
<1> QED BY <1>1, <1>2, <1>3, <1>4, <1>5, <1>6, <1>7, <1>8, <1>9, <1>10, <1>11, NextCases

LEMMA InitCares == Init => Unburdened /\ Cared
BY ConstantsAssumption DEF Init, Unburdened, Cared, CaredFor, Actors

(* No engine, and so no worker process with its file lock, is ever lost,   *)
(* however lookups, evictions, releases, races and failing closes          *)
(* interleave: what fairness then makes progress on is always there.       *)
THEOREM NothingIsLeaked == Spec => []NothingLeaks
<1>1. Ownership /\ Cared => NothingLeaks
  BY DEF Ownership, EntriesAgree, Cared, CaredFor, NothingLeaks, Abandoned, Referenced
<1> QED BY <1>1, InitCares, UnburdenedStep, NextCares, Invariants, PTL DEF Spec
=============================================================================
