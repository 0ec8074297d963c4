-------------------- MODULE EngineCacheRefinementProofs ---------------------
(***************************************************************************)
(* Proofs that the registry of pending closes lists exactly the closes     *)
(* under way, and that the cache implements EngineLifecycle.               *)
(***************************************************************************)
EXTENDS EngineCacheProofs

(* The registry of pending closes.                                         *)
Pending == PendingHasStarted /\ InFlightIsVisible

LEMMA PendingKept ==
  ASSUME Pending, UNCHANGED <<closing, stage, abandoned>>,
         \A c \in Callers : waits'[c] \subseteq waits[c] \cup UNION {closing[k] : k \in Keys}
  PROVE  Pending'
BY DEF Pending, PendingHasStarted, InFlightIsVisible, InFlight

LEMMA AcquirePending == TypeInv /\ Pending /\ AcquireStep => Pending'
<1> SUFFICES ASSUME TypeInv, Pending, AcquireStep PROVE Pending'
  OBVIOUS
<1>1. ASSUME NEW c \in Callers, NEW k \in Keys, Hit(c, k)
      PROVE  Pending'
  BY <1>1, PendingKept DEF Hit, history
<1>2. ASSUME NEW c \in Callers, NEW k \in Keys, NEW p, NEW F \in {{}, closing[k]},
             Miss(c, k, F, p)
      PROVE  Pending'
  <2>1. \A d \in Callers : waits'[d] \subseteq waits[d] \cup UNION {closing[j] : j \in Keys}
    BY <1>2 DEF Miss, TypeInv, TypeOK
  <2> QED BY <1>2, <2>1, PendingKept DEF Miss, cacheVars, entryVars, history
<1>3. ASSUME NEW c \in Callers, NEW k \in Keys, LookupSync(c, k)
      PROVE  Pending'
  BY <1>1, <1>2, <1>3 DEF LookupSync
<1>4. ASSUME NEW c \in Callers, NEW k \in Keys, AGetOrCreate(c, k)
      PROVE  Pending'
  BY <1>1, <1>2, <1>4 DEF AGetOrCreate
<1>5. ASSUME NEW c \in Callers, Recheck(c)
      PROVE  Pending'
  BY <1>3, <1>5 DEF Recheck, TypeInv, CallState
<1> QED BY <1>3, <1>4, <1>5 DEF AcquireStep, GetOrCreate

LEMMA QuietPending == TypeInv /\ Pending /\ (QuietStep \/ BuildStep) => Pending'
<1> SUFFICES ASSUME TypeInv, Pending, QuietStep \/ BuildStep PROVE Pending'
  OBVIOUS
<1>1. ASSUME NEW c \in Callers, WaitOver(c) \/ CancelWait(c)
      PROVE  Pending'
  BY <1>1, PendingKept
     DEF WaitOver, CancelWait, TypeInv, TypeOK, cacheVars, entryVars, history
<1>2. ASSUME NEW c \in Callers, NEW v \in Vals, WaitTimeout(c, v)
      PROVE  Pending'
  BY <1>2, ConstantsAssumption
     DEF WaitTimeout, Drop, TypeInv, TypeOK, Pending, PendingHasStarted, InFlightIsVisible,
         InFlight
<1>3. ASSUME NEW c \in Callers, NEW K \in SUBSET Keys, AwaitPendingCloses(c, K)
      PROVE  Pending'
  BY <1>3, PendingKept
     DEF AwaitPendingCloses, TypeInv, TypeOK, cacheVars, entryVars, history
<1>4. ASSUME NEW c \in Callers, Build(c)
      PROVE  Pending'
  BY <1>4 DEF Build, TypeInv, TypeOK, Pending, PendingHasStarted, InFlightIsVisible,
     InFlight, cacheVars, entryVars, history
<1>5. ASSUME NEW c \in Callers, BuildFails(c)
      PROVE  Pending'
  BY <1>5, PendingKept DEF BuildFails, cacheVars, entryVars, history
<1>6. ASSUME NEW t \in Actors, DetachDone(t)
      PROVE  Pending'
  BY <1>6, PendingKept DEF DetachDone, cacheVars, entryVars, callVars, history
<1>7. CASE SweepChoose
  BY <1>7, PendingKept DEF SweepChoose, cacheVars, entryVars, callVars, history
<1>8. ASSUME NEW k \in Keys, Touch(k) \/ Age(k)
      PROVE  Pending'
  BY <1>8, PendingKept DEF Touch, Age, cacheVars, entryVars, callVars, history
<1>9. ASSUME NEW d \in Datasets, Pin(d) \/ Unpin(d)
      PROVE  Pending'
  BY <1>9, PendingKept DEF Pin, Unpin, cacheVars, entryVars, callVars, history
<1> QED BY <1>1, <1>2, <1>3, <1>4, <1>5, <1>6, <1>7, <1>8, <1>9 DEF QuietStep, BuildStep

LEMMA EntryPending ==
  Pending /\ (LoseStep \/ InsertStep \/ EvictStep \/ DetachStep \/ ForceStep \/ ReleaseStep
              \/ DropStep)
    => Pending'
<1> SUFFICES ASSUME Pending, LoseStep \/ InsertStep \/ EvictStep \/ DetachStep \/ ForceStep
                             \/ ReleaseStep \/ DropStep
             PROVE  UNCHANGED <<closing, stage, abandoned, waits>>
  BY PendingKept
<1> QED
  BY DEF LoseStep, InsertStep, EvictStep, DetachStep, ForceStep, ReleaseStep, DropStep,
     InsertLoses, Insert, EvictWhere, EvictAndClose, SweepNext, Pop, Detach, ForceDetach,
     Release, DropParting, cacheVars, entryVars, callVars, history

LEMMA AdvancePending ==
  ASSUME TypeInv, Pending, NEW v \in Vals, stage[v] \in InFlight,
         NEW s \in InFlight, stage' = [stage EXCEPT ![v] = s],
         UNCHANGED <<closing, waits, abandoned>>
  PROVE  Pending'
<1>1. \A f \in Vals : (stage'[f] \in InFlight <=> stage[f] \in InFlight)
                      /\ (stage'[f] = "closed" <=> stage[f] = "closed")
  BY DEF TypeInv, TypeOK, InFlight
<1> QED BY <1>1 DEF Pending, PendingHasStarted, InFlightIsVisible, TypeInv, TypeOK

LEMMA ClosePending == TypeInv /\ Pending /\ (StartStep \/ EndStep) => Pending'
<1> SUFFICES ASSUME TypeInv, Pending, StartStep \/ EndStep PROVE Pending'
  OBVIOUS
<1> USE ConstantsAssumption DEF TypeInv, TypeOK, Opt, Pending, PendingHasStarted,
        InFlightIsVisible, InFlight, cacheVars, entryVars, callVars, history
<1>1. ASSUME NEW t \in Actors, Register(t)
      PROVE  Pending'
  BY <1>1 DEF Register
<1>2. ASSUME NEW t \in Actors, StartAsync(t) \/ StartInline(t)
      PROVE  Pending'
  <2> DEFINE v == hand[t]
  <2>1. v \in Vals /\ stage[v] \in InFlight /\ UNCHANGED <<closing, waits, abandoned>>
    BY <1>2 DEF StartAsync, StartInline
  <2>2. PICK s \in {"onPool", "onLoop", "ended"} : stage' = [stage EXCEPT ![v] = s]
    BY <1>2 DEF StartAsync, StartInline
  <2> QED BY <2>1, <2>2, AdvancePending
<1>3. ASSUME NEW v \in Vals, EndPoolClose(v) \/ EndLoopClose(v)
      PROVE  Pending'
  <2>1. stage[v] \in InFlight /\ stage' = [stage EXCEPT ![v] = "ended"]
        /\ UNCHANGED <<closing, waits, abandoned>>
    BY <1>3 DEF EndPoolClose, EndLoopClose, CloseEnds
  <2> QED BY <2>1, AdvancePending
<1>4. ASSUME NEW v \in Vals, Resolve(v)
      PROVE  Pending'
  BY <1>4 DEF Resolve, Drop
<1> QED BY <1>1, <1>2, <1>3, <1>4 DEF StartStep, EndStep

LEMMA RegistryInvariant == Spec => []Pending
<1>1. Init => Pending
  BY DEF Init, Pending, PendingHasStarted, InFlightIsVisible, InFlight
<1>2. Pending /\ UNCHANGED vars => Pending'
  BY PendingKept DEF vars
<1>3. TypeInv /\ Pending /\ [Next]_vars => Pending'
  BY <1>2, NextCases, AcquirePending, QuietPending, EntryPending, ClosePending
<1> QED BY <1>1, <1>3, InitTypes, NextTypes, PTL DEF Spec

(* Nobody waits for a close that has not started.                          *)
THEOREM RegistryIsBacked == Spec => []PendingHasStarted
<1>1. Pending => PendingHasStarted BY DEF Pending
<1> QED BY <1>1, RegistryInvariant, PTL

(* A close under way stays visible to the creators of its key until it is  *)
(* over or a bounded wait has given it up.                                 *)
THEOREM RegistryIsComplete == Spec => []InFlightIsVisible
<1>1. Pending => InFlightIsVisible BY DEF Pending
<1> QED BY <1>1, RegistryInvariant, PTL

-----------------------------------------------------------------------------
(* The refinement of EngineLifecycle.                                      *)

(* A caller inside a lookup has nothing to close.                          *)
CreatorsAreFree ==
  \A c \in Callers : pc[c] \in {"recheck", "build", "insert"} \cup Waiting => Free(c)

RInv == TypeInv /\ Ownership /\ CreatorsAreFree

LEMMA FreeKept ==
  ASSUME TypeInv, CreatorsAreFree, [Next]_vars
  PROVE  CreatorsAreFree'
<1> USE ConstantsAssumption DEF CreatorsAreFree, Free, Waiting, TypeInv, TypeOK, Opt, Actors,
        cacheVars, entryVars, callVars, history
<1>1. CASE UNCHANGED vars BY <1>1 DEF vars
<1>2. CASE AcquireStep
  BY <1>2 DEF AcquireStep, GetOrCreate, AGetOrCreate, Recheck, LookupSync, Hit, Miss
<1>3. CASE QuietStep
  BY <1>3 DEF QuietStep, WaitOver, CancelWait, BuildFails, WaitTimeout, AwaitPendingCloses,
              DetachDone, SweepChoose, Touch, Age, Pin, Unpin
<1>4. CASE BuildStep BY <1>4 DEF BuildStep, Build
<1>5. CASE LoseStep BY <1>5 DEF LoseStep, InsertLoses, Discard
<1>6. CASE InsertStep BY <1>6 DEF InsertStep, Insert
<1>7. CASE EvictStep
  BY <1>7 DEF EvictStep, EvictWhere, EvictAndClose, SweepNext, Pop
<1>8. CASE DetachStep BY <1>8 DEF DetachStep, Detach
<1>9. CASE ForceStep BY <1>9 DEF ForceStep, ForceDetach
<1>10. CASE ReleaseStep BY <1>10 DEF ReleaseStep, Release, Finalize
<1>11. CASE DropStep BY <1>11 DEF DropStep, DropParting, Finalize
<1>12. CASE StartStep BY <1>12 DEF StartStep, Register, StartAsync, StartInline
<1>13. CASE EndStep
  BY <1>13 DEF EndStep, EndPoolClose, EndLoopClose, CloseEnds, Resolve
<1> QED
  BY <1>1, <1>2, <1>3, <1>4, <1>5, <1>6, <1>7, <1>8, <1>9, <1>10, <1>11, <1>12, <1>13,
     NextCases

(* The life of an engine changes only where its stage or its owner does.   *)
LEMMA SameLife ==
  ASSUME \A v \in Vals : stage'[v] = stage[v] /\ (Fresh(v)' <=> Fresh(v))
  PROVE  life' = life
BY DEF life, lifeOf

LEMMA SameOwners ==
  ASSUME UNCHANGED <<stage, retired, built, hand>>
  PROVE  life' = life
BY SameLife DEF Fresh

LEMMA LifeGrows ==
  ASSUME NEW v \in Vals, NEW to, lifeOf(v)' = to,
         \A x \in Vals \ {v} : stage'[x] = stage[x] /\ (Fresh(x)' <=> Fresh(x))
  PROVE  life' = [life EXCEPT ![v] = to]
BY DEF life, lifeOf

LEMMA StutterLife ==
  ASSUME UNCHANGED <<cached, holders, forced>>, life' = life
  PROVE  UNCHANGED Lifecycle!vars
BY DEF Lifecycle!vars

LEMMA OwnedIsShared ==
  ASSUME TypeInv, Ownership, NEW v \in Vals, OwnedElsewhere(v)
  PROVE  life[v] = "shared" /\ ~Fresh(v)
BY OwnedFacts DEF life, lifeOf, Fresh

LEMMA HitBorrows ==
  ASSUME RInv, NEW c \in Callers, NEW k \in Keys, Hit(c, k)
  PROVE  Lifecycle!Borrow(c, cached[k])
<1>1. /\ cached[k] \in Vals /\ KeyOf[cached[k]] = k /\ life[cached[k]] = "shared"
      /\ cached[k] \notin marked
  BY CachedFacts, OwnedIsShared DEF Hit, RInv
<1>2. holders' = [holders EXCEPT ![cached[k]] = @ \cup {c}] /\ UNCHANGED <<cached, forced>>
  BY <1>1 DEF Hit, Lease, history
<1>3. life' = life
  BY SameOwners DEF Hit
<1> QED BY <1>1, <1>2, <1>3 DEF Lifecycle!Borrow, Lifecycle!Served

LEMMA AcquireRefines == RInv /\ AcquireStep => [Lifecycle!Next]_(Lifecycle!vars)
<1> SUFFICES ASSUME RInv, AcquireStep PROVE Lifecycle!Next \/ UNCHANGED Lifecycle!vars
  OBVIOUS
<1>1. ASSUME NEW c \in Callers, NEW k \in Keys, Hit(c, k)
      PROVE  Lifecycle!Next
  BY <1>1, HitBorrows, CachedFacts DEF Lifecycle!Next, Hit, RInv
<1>2. ASSUME NEW c \in Callers, NEW k \in Keys, NEW p, NEW F, Miss(c, k, F, p)
      PROVE  UNCHANGED Lifecycle!vars
  BY <1>2, SameOwners, StutterLife DEF Miss, cacheVars, entryVars, history
<1>3. ASSUME NEW c \in Callers, NEW k \in Keys, LookupSync(c, k)
      PROVE  Lifecycle!Next \/ UNCHANGED Lifecycle!vars
  BY <1>1, <1>2, <1>3 DEF LookupSync
<1>4. ASSUME NEW c \in Callers, NEW k \in Keys, AGetOrCreate(c, k)
      PROVE  Lifecycle!Next \/ UNCHANGED Lifecycle!vars
  BY <1>1, <1>2, <1>4 DEF AGetOrCreate
<1>5. ASSUME NEW c \in Callers, Recheck(c)
      PROVE  Lifecycle!Next \/ UNCHANGED Lifecycle!vars
  BY <1>3, <1>5 DEF Recheck, RInv, TypeInv, CallState
<1> QED BY <1>3, <1>4, <1>5 DEF AcquireStep, GetOrCreate

LEMMA QuietRefines ==
  ASSUME RInv, QuietStep
  PROVE  UNCHANGED Lifecycle!vars
<1>1. UNCHANGED <<cached, holders, forced, stage, retired, built, hand>>
  BY DEF QuietStep, WaitOver, CancelWait, BuildFails, WaitTimeout, AwaitPendingCloses,
     DetachDone, SweepChoose, Touch, Age, Pin, Unpin, cacheVars, entryVars, callVars, history
<1> QED BY <1>1, SameOwners, StutterLife

LEMMA BuildRefines ==
  ASSUME RInv, NEW c \in Callers, Build(c)
  PROVE  Lifecycle!Next
<1>1. PICK v \in Vals : /\ stage[v] = "unborn"
                        /\ stage' = [stage EXCEPT ![v] = "open"]
                        /\ built' = [built EXCEPT ![c] = v]
  BY DEF Build
<1>2. UNCHANGED <<cached, holders, forced, retired, hand>>
  BY DEF Build, cacheVars, entryVars, history
<1>3. built[c] = NoVal
  BY BuiltFacts DEF Build, RInv
<1>4. \A x \in Vals \ {v} : stage'[x] = stage[x] /\ (Fresh(x)' <=> Fresh(x))
  BY <1>1, <1>2, <1>3, ConstantsAssumption DEF RInv, TypeInv, TypeOK, Fresh
<1>5. lifeOf(v)' = "fresh"
  BY <1>1 DEF RInv, TypeInv, TypeOK, lifeOf, Fresh
<1>6. life' = [life EXCEPT ![v] = "fresh"]
  BY <1>4, <1>5, LifeGrows
<1>7. life[v] = "unborn" BY <1>1 DEF life, lifeOf, InFlight
<1> QED BY <1>2, <1>6, <1>7 DEF Lifecycle!Next, Lifecycle!Open, Lifecycle!Grow

LEMMA LoseRefines ==
  ASSUME RInv, NEW c \in Callers, InsertLoses(c)
  PROVE  Lifecycle!Next
<1> DEFINE w == cached[want[c]]
           b == built[c]
<1>1. /\ want[c] \in Keys /\ built[c] # NoVal
  BY ConstantsAssumption DEF InsertLoses, RInv, TypeInv, CallState
<1>2. /\ w \in Vals /\ KeyOf[w] = want[c] /\ life[w] = "shared" /\ w \notin marked
  BY <1>1, CachedFacts, OwnedIsShared DEF InsertLoses, RInv
<1>3. b \in Vals \ retired
  BY <1>1, BuiltFacts DEF RInv, Untouched
<1>4. hand[c] = NoVal
  BY DEF RInv, CreatorsAreFree, Free, InsertLoses
<1>5. /\ hand' = [hand EXCEPT ![c] = b] /\ built' = [built EXCEPT ![c] = NoVal]
      /\ holders' = [holders EXCEPT ![w] = @ \cup {c}]
      /\ UNCHANGED <<cached, forced, retired, stage>>
  BY <1>2 DEF InsertLoses, Discard, Lease, history
<1>6. \A x \in Vals : Fresh(x)' <=> Fresh(x)
  <2> SUFFICES ASSUME NEW x \in Vals PROVE Fresh(x)' <=> Fresh(x)
    OBVIOUS
  <2>1. \A d \in Callers : built'[d] = IF d = c THEN NoVal ELSE built[d]
    BY <1>5 DEF RInv, TypeInv, TypeOK
  <2>2. \A t \in Actors : hand'[t] = IF t = c THEN b ELSE hand[t]
    BY <1>5 DEF RInv, TypeInv, TypeOK
  <2>3. c \in Actors /\ x # NoVal /\ retired' = retired
    BY <1>5, ConstantsAssumption DEF Actors
  <2>4. CASE x = b
    BY <1>3, <2>2, <2>3, <2>4 DEF Fresh
  <2>5. CASE x # b
    BY <1>4, <2>1, <2>2, <2>3, <2>5 DEF Fresh
  <2> QED BY <2>4, <2>5
<1>7. life' = life BY <1>5, <1>6, SameLife
<1>8. Lifecycle!Borrow(c, w)
  BY <1>2, <1>5, <1>7 DEF Lifecycle!Borrow, Lifecycle!Served
<1> QED BY <1>2, <1>8 DEF Lifecycle!Next

LEMMA InsertRefines ==
  ASSUME RInv, NEW c \in Callers, Insert(c)
  PROVE  Lifecycle!Next
<1> DEFINE b == built[c]
<1>1. /\ b \in Vals /\ KeyOf[b] = want[c] /\ stage[b] = "open" /\ b \notin marked
      /\ \A t \in Actors : hand[t] # b
      /\ \A d \in Callers \ {c} : built[d] # b
  BY BuiltFacts, ConstantsAssumption DEF Insert, RInv, TypeInv, CallState
<1>2. PICK E \in SUBSET CachedKeys :
          cached' = [k \in Keys |-> IF k = want[c] THEN b
                                    ELSE IF k \in E THEN NoVal ELSE cached[k]]
  BY DEF Insert
<1>3. E \in SUBSET Keys BY DEF CachedKeys
<1>4. /\ cached[want[c]] = NoVal /\ holders' = [holders EXCEPT ![b] = @ \cup {c}]
      /\ built' = [built EXCEPT ![c] = NoVal]
      /\ UNCHANGED <<forced, retired, stage, hand>>
  BY <1>1 DEF Insert, Lease, history
<1>5. lifeOf(b) = "fresh" BY <1>1 DEF lifeOf, Fresh
<1>6. \A x \in Vals : Fresh(x)' <=> x # b /\ Fresh(x)
  BY <1>1, <1>4, ConstantsAssumption DEF RInv, TypeInv, TypeOK, Fresh
<1>7. life' = [life EXCEPT ![b] = "shared"]
  <2> HIDE DEF b
  <2> QED BY <1>1, <1>4, <1>6 DEF life, lifeOf
<1>8. Lifecycle!Publish(c, b)
  <2>1. life[b] = "fresh" BY <1>1, <1>5 DEF life
  <2>2. Lifecycle!Grow(b, "fresh", "shared") BY <1>7, <2>1 DEF Lifecycle!Grow
  <2>3. cached' = [k \in Keys |-> IF k = KeyOf[b] THEN b
                                  ELSE IF k \in E THEN NoVal ELSE cached[k]]
    BY <1>1, <1>2
  <2> HIDE DEF b
  <2> QED BY <1>1, <1>3, <1>4, <2>2, <2>3 DEF Lifecycle!Publish
<1> QED BY <1>1, <1>8 DEF Lifecycle!Next

LEMMA EvictRefines ==
  ASSUME RInv, EvictStep
  PROVE  Lifecycle!Next
<1>1. ASSUME NEW t, NEW K \in SUBSET Keys, NEW p, Pop(t, K, p)
      PROVE  Lifecycle!Retire
  <2>1. life' = life
    BY <1>1, SameOwners DEF Pop, entryVars, callVars
  <2> QED BY <1>1, <2>1 DEF Pop, Remaining, Lifecycle!Retire, entryVars, history
<1>2. ASSUME NEW c \in Callers, NEW K \in SUBSET Keys, EvictWhere(c, K)
      PROVE  Lifecycle!Retire
  BY <1>1, <1>2 DEF EvictWhere, Present
<1>3. ASSUME NEW c \in Callers, NEW k \in Keys, EvictAndClose(c, k)
      PROVE  Lifecycle!Retire
  BY <1>1, <1>3 DEF EvictAndClose
<1>4. CASE SweepNext
  <2>1. PICK k \in expired : Pop(Reaper, Present({k}), "force") BY <1>4 DEF SweepNext
  <2>2. Present({k}) \in SUBSET Keys BY DEF Present, CachedKeys
  <2> QED BY <1>1, <2>1, <2>2 DEF Lifecycle!Next
<1> QED BY <1>2, <1>3, <1>4 DEF EvictStep, Lifecycle!Next

LEMMA DetachRefines ==
  ASSUME RInv, NEW t \in Actors, Detach(t)
  PROVE  UNCHANGED Lifecycle!vars
<1>1. PICK v \in popped[t] : /\ retired' = retired \cup {v}
                             /\ hand' = [hand EXCEPT ![t] = IF ClosesNow(v) THEN v ELSE NoVal]
  BY DEF Detach
<1>2. v \in Vals /\ ~Fresh(v) /\ \A c \in Callers : built[c] # v
  BY PoppedFacts, OwnedIsShared, OwnedFacts DEF RInv
<1>3. UNCHANGED <<cached, stage, holders, forced, built>> /\ hand[t] = NoVal
  BY DEF Detach, Free, cacheVars, callVars, history
<1>4. \A x \in Vals : Fresh(x)' <=> Fresh(x)
  <2> SUFFICES ASSUME NEW x \in Vals PROVE Fresh(x)' <=> Fresh(x)
    OBVIOUS
  <2>1. \A u \in Actors : hand'[u] = IF u = t THEN IF ClosesNow(v) THEN v ELSE NoVal ELSE hand[u]
    BY <1>1 DEF RInv, TypeInv, TypeOK
  <2>2. x # NoVal BY ConstantsAssumption
  <2>3. CASE x = v BY <1>1, <1>2, <1>3, <2>3 DEF Fresh
  <2>4. CASE x # v BY <1>1, <1>3, <2>1, <2>2, <2>4 DEF Fresh
  <2> QED BY <2>3, <2>4
<1> QED BY <1>3, <1>4, SameLife, StutterLife

LEMMA ForceRefines ==
  ASSUME RInv, NEW t \in Actors, ForceDetach(t)
  PROVE  Lifecycle!Next
<1>1. PICK v \in popped[t] : /\ retired' = retired \cup {v} /\ forced' = forced \cup {v}
                             /\ hand' = [hand EXCEPT ![t] = IF v \in marked THEN NoVal ELSE v]
  BY DEF ForceDetach
<1>2. /\ v \in Vals /\ ~Fresh(v) /\ life[v] = "shared" /\ cached[KeyOf[v]] # v
      /\ \A c \in Callers : built[c] # v
  BY PoppedFacts, OwnedIsShared, OwnedFacts DEF RInv
<1>3. UNCHANGED <<cached, stage, holders, built>> /\ hand[t] = NoVal
  BY DEF ForceDetach, Free, cacheVars, callVars
<1>4. \A x \in Vals : Fresh(x)' <=> Fresh(x)
  <2> SUFFICES ASSUME NEW x \in Vals PROVE Fresh(x)' <=> Fresh(x)
    OBVIOUS
  <2>1. \A u \in Actors : hand'[u] = IF u = t THEN IF v \in marked THEN NoVal ELSE v ELSE hand[u]
    BY <1>1 DEF RInv, TypeInv, TypeOK
  <2>2. x # NoVal BY ConstantsAssumption
  <2>3. CASE x = v BY <1>1, <1>2, <1>3, <2>3 DEF Fresh
  <2>4. CASE x # v BY <1>1, <1>3, <2>1, <2>2, <2>4 DEF Fresh
  <2> QED BY <2>3, <2>4
<1>5. life' = life BY <1>3, <1>4, SameLife
<1>6. Lifecycle!Doom(v) BY <1>1, <1>2, <1>3, <1>5 DEF Lifecycle!Doom, Lifecycle!Served
<1> QED BY <1>2, <1>6 DEF Lifecycle!Next

(* A finalizer takes a value that has left the cache: it was not fresh.    *)
LEMMA FinalizeKeepsLife ==
  ASSUME RInv, NEW t \in Actors, NEW v \in Vals, hand[t] = NoVal,
         \/ UNCHANGED hand
         \/ v \in retired /\ hand' = [hand EXCEPT ![t] = v]
         \/ hand' = [hand EXCEPT ![t] = NoVal],
         UNCHANGED <<stage, retired, built>>
  PROVE  life' = life
<1>1. \A x \in Vals : Fresh(x)' <=> Fresh(x)
  <2> SUFFICES ASSUME NEW x \in Vals PROVE Fresh(x)' <=> Fresh(x)
    OBVIOUS
  <2>1. x # NoVal BY ConstantsAssumption
  <2>2. CASE v \in retired /\ hand' = [hand EXCEPT ![t] = v]
    <3>1. \A u \in Actors : hand'[u] = IF u = t THEN v ELSE hand[u]
      BY <2>2 DEF RInv, TypeInv, TypeOK
    <3> QED BY <2>1, <2>2, <3>1 DEF Fresh
  <2>3. CASE UNCHANGED hand \/ hand' = [hand EXCEPT ![t] = NoVal]
    <3>1. \A u \in Actors : hand'[u] = hand[u]
      BY <2>3 DEF RInv, TypeInv, TypeOK
    <3> QED BY <3>1 DEF Fresh
  <2> QED BY <2>2, <2>3
<1> QED BY <1>1, SameLife

LEMMA ReleaseRefines ==
  ASSUME RInv, NEW c \in Callers, NEW x \in Vals, Release(c, x)
  PROVE  Lifecycle!Next
<1>1. life' = life
  BY FinalizeKeepsLife
     DEF Release, Finalize, CloseDue, Free, Actors, cacheVars, callVars, history
<1>2. Lifecycle!Return(c, x)
  BY <1>1 DEF Release, Lifecycle!Return, cacheVars, history
<1> QED BY <1>2 DEF Lifecycle!Next

LEMMA DropRefines ==
  ASSUME RInv, NEW t \in Actors, DropParting(t)
  PROVE  UNCHANGED Lifecycle!vars
<1>1. parting[t] \in Vals
  BY DEF DropParting, RInv, TypeInv, TypeOK, Opt
<1>2. life' = life
  BY <1>1, FinalizeKeepsLife
     DEF DropParting, Finalize, CloseDue, cacheVars, callVars, history
<1> QED BY <1>2, StutterLife DEF DropParting, cacheVars, history

LEMMA StartRefines ==
  ASSUME RInv, NEW t \in Actors, Register(t) \/ StartAsync(t) \/ StartInline(t)
  PROVE  Lifecycle!Next \/ UNCHANGED Lifecycle!vars
<1> DEFINE v == hand[t]
<1>1. /\ v \in Vals /\ v # NoVal /\ (v \in marked \/ Untouched(v))
      /\ ~OwnedElsewhere(v) /\ \A u \in Actors \ {t} : hand[u] # v
  BY HandFacts DEF Register, StartAsync, StartInline, RInv
<1>2. UNCHANGED <<cached, holders, forced, retired, built>>
  BY DEF Register, StartAsync, StartInline, cacheVars, entryVars, callVars, history
<1>3. CASE Register(t)
  <2>1. stage[v] = "open" /\ stage' = [stage EXCEPT ![v] = "registered"] /\ hand' = hand
    BY <1>3 DEF Register
  <2>2. life' = [life EXCEPT ![v] = "closing"]
    BY <1>1, <1>2, <2>1 DEF life, lifeOf, Fresh, InFlight, RInv, TypeInv, TypeOK
  <2>3. CASE v \notin retired
    <3>1. life[v] = "fresh" BY <1>1, <2>1, <2>3 DEF life, lifeOf, Fresh
    <3> QED BY <1>1, <1>2, <2>2, <3>1 DEF Lifecycle!Next, Lifecycle!BeginClose, Lifecycle!Grow
  <2>4. CASE v \in retired
    <3>1. v \in marked /\ cached[KeyOf[v]] # v
      BY <1>1, <2>4 DEF Untouched, OwnedElsewhere
    <3>2. holders[v] = {} \/ v \in forced
      BY <1>1, <3>1 DEF RInv, Ownership, EntriesAgree
    <3>3. \A c \in Callers : built[c] # v
      BY <2>4, BuiltFacts, <1>1 DEF RInv, Untouched
    <3>4. life[v] = "shared"
      BY <1>1, <2>1, <2>4, <3>3 DEF life, lifeOf, Fresh
    <3> QED
      BY <1>1, <1>2, <2>2, <3>1, <3>2, <3>4
         DEF Lifecycle!Next, Lifecycle!BeginClose, Lifecycle!Grow, Lifecycle!Served
  <2> QED BY <2>3, <2>4
<1>4. CASE StartAsync(t) \/ StartInline(t)
  <2>1. /\ stage[v] = "registered"
        /\ \E s \in {"onPool", "onLoop", "ended"} : stage' = [stage EXCEPT ![v] = s]
        /\ hand' \in {hand, [hand EXCEPT ![t] = NoVal]}
    BY <1>4 DEF StartAsync, StartInline
  <2>2. ASSUME NEW x \in Vals, x # v
        PROVE  stage'[x] = stage[x] /\ (Fresh(x)' <=> Fresh(x))
    <3>1. stage'[x] = stage[x] BY <2>1, <2>2 DEF RInv, TypeInv, TypeOK
    <3>2. \A u \in Actors : hand'[u] = x <=> hand[u] = x
      BY <1>1, <2>1, <2>2, ConstantsAssumption DEF RInv, TypeInv, TypeOK
    <3> QED BY <1>2, <3>1, <3>2 DEF Fresh
  <2>3. ASSUME NEW x \in Vals PROVE lifeOf(x)' = lifeOf(x)
    <3>1. CASE x = v
      BY <1>1, <2>1, <3>1 DEF lifeOf, InFlight, RInv, TypeInv, TypeOK
    <3>2. CASE x # v BY <2>2, <3>2 DEF lifeOf
    <3> QED BY <3>1, <3>2
  <2>4. life' = life BY <2>3 DEF life
  <2> QED BY <1>2, <2>4, StutterLife
<1> QED BY <1>3, <1>4

LEMMA EndRefines ==
  ASSUME RInv, NEW v \in Vals, EndPoolClose(v) \/ EndLoopClose(v) \/ Resolve(v)
  PROVE  Lifecycle!Next \/ UNCHANGED Lifecycle!vars
<1>1. UNCHANGED <<cached, holders, forced, retired, built>>
  BY DEF EndPoolClose, EndLoopClose, CloseEnds, Resolve, cacheVars, entryVars, callVars, history
<1>2. CASE EndPoolClose(v) \/ EndLoopClose(v)
  <2>1. /\ stage[v] \in {"onPool", "onLoop"} /\ stage' = [stage EXCEPT ![v] = "ended"]
        /\ hand' = hand
    BY <1>2 DEF EndPoolClose, EndLoopClose, CloseEnds
  <2>2. life' = life
    BY <1>1, <2>1 DEF life, lifeOf, Fresh, InFlight, RInv, TypeInv, TypeOK
  <2> QED BY <1>1, <2>2, StutterLife
<1>3. CASE Resolve(v)
  <2>1. /\ stage[v] = "ended" /\ stage' = [stage EXCEPT ![v] = "closed"]
        /\ hand' = [t \in Actors |-> IF hand[t] = v THEN NoVal ELSE hand[t]]
    BY <1>3 DEF Resolve
  <2>2. \A x \in Vals \ {v} : stage'[x] = stage[x] /\ (Fresh(x)' <=> Fresh(x))
    <3>1. \A x \in Vals \ {v}, u \in Actors : hand'[u] = x <=> hand[u] = x
      BY <2>1, ConstantsAssumption DEF RInv, TypeInv, TypeOK
    <3> QED BY <1>1, <2>1, <3>1 DEF Fresh, RInv, TypeInv, TypeOK
  <2>3. lifeOf(v)' = "closed"
    BY <2>1 DEF lifeOf, InFlight, RInv, TypeInv, TypeOK
  <2>4. life' = [life EXCEPT ![v] = "closed"] BY <2>2, <2>3, LifeGrows
  <2>5. life[v] = "closing" BY <2>1 DEF life, lifeOf, InFlight
  <2> QED BY <1>1, <2>4, <2>5 DEF Lifecycle!Next, Lifecycle!EndClose, Lifecycle!Grow
<1> QED BY <1>2, <1>3

LEMMA NextRefines == RInv /\ [Next]_vars => [Lifecycle!Next]_(Lifecycle!vars)
<1> SUFFICES ASSUME RInv, [Next]_vars PROVE Lifecycle!Next \/ UNCHANGED Lifecycle!vars
  OBVIOUS
<1>1. CASE UNCHANGED vars BY <1>1, SameOwners, StutterLife DEF vars
<1>2. BuildStep \/ LoseStep \/ InsertStep \/ ForceStep \/ ReleaseStep => Lifecycle!Next
  BY BuildRefines, LoseRefines, InsertRefines, ForceRefines, ReleaseRefines
     DEF BuildStep, LoseStep, InsertStep, ForceStep, ReleaseStep
<1>3. DetachStep \/ DropStep => UNCHANGED Lifecycle!vars
  BY DetachRefines, DropRefines DEF DetachStep, DropStep
<1>4. StartStep \/ EndStep => Lifecycle!Next \/ UNCHANGED Lifecycle!vars
  BY StartRefines, EndRefines DEF StartStep, EndStep
<1> QED
  BY <1>1, <1>2, <1>3, <1>4, NextCases, AcquireRefines, QuietRefines, EvictRefines

(* The cache implements the life cycle, for any keys, engines and callers. *)
THEOREM LifecycleImplemented == Spec => ImplementsLifecycle
<1>1. Init => CreatorsAreFree
  BY DEF Init, CreatorsAreFree, Free, Waiting, Actors
<1>2. Init => Lifecycle!Init
  BY ConstantsAssumption DEF Init, Lifecycle!Init, life, lifeOf, InFlight
<1>3. RInv /\ [Next]_vars => RInv'
  BY FreeKept, NextTypes, NextOwns DEF RInv
<1>4. Init => RInv
  BY <1>1, InitTypes, InitOwns DEF RInv
<1> QED
  BY <1>2, <1>3, <1>4, NextRefines, PTL DEF Spec, ImplementsLifecycle, Lifecycle!Spec
=============================================================================
