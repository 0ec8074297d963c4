-------------------------- MODULE DatasetRunsProofs --------------------------
(***************************************************************************)
(* Proofs about the dataset queue and its users, for every set of calls,   *)
(* items and datasets and every number of slots.                           *)
(***************************************************************************)
EXTENDS DatasetRuns, FiniteSetTheorems, TLAPS

(* The part of TypeOK that is about the queue, with the count of its slots. *)
QueueInv ==
    /\ permits \in 0..Slots
    /\ depth \in [Tasks -> [Datasets -> Nat]]
    /\ engines \subseteq Datasets
    /\ expired \subseteq Datasets
    /\ keepAlive \in BOOLEAN
    /\ SlotsConserved

RunTypes ==
    /\ owner \in [Datasets -> Calls \cup {NoTask}]
    /\ pc \in [Tasks -> CallPcs \cup ItemPcs]
    /\ \A c \in Calls : pc[c] \in CallPcs
    /\ \A i \in Items : pc[i] \in ItemPcs
    /\ job \in [Tasks -> AllJobs \cup {"none", "item"}]
    /\ ds \in [Tasks -> Datasets \cup {NoDataset}]
    /\ open \in [Tasks -> Nat]
    /\ parent \in [Items -> Calls \cup {NoTask}]
    /\ raised \subseteq Calls

(* What the place of a task says about its other variables.                *)
CallShape ==
    \A c \in Calls :
        /\ pc[c] = "idle" <=> ds[c] = NoDataset
        /\ pc[c] = "idle" => job[c] = "none"
        /\ pc[c] # "idle" => job[c] \in AllJobs
        /\ pc[c] \in {"idle", "lock"} => open[c] = 0
        /\ pc[c] \in {"enter", "inside", "gather", "leave"} => open[c] >= 1
        /\ pc[c] = "gather" => job[c] \in {"run", "update"}

ItemShape ==
    \A i \in Items :
        /\ pc[i] = "idle" <=> ds[i] = NoDataset
        /\ open[i] = IF pc[i] \in {"enter", "inside"} THEN 1 ELSE 0
        /\ job[i] = IF pc[i] = "idle" THEN "none" ELSE "item"

(* Who holds a lock is at work on its dataset, and who needs it and is past *)
(* the wait holds it.                                                       *)
LockInv ==
    /\ \A d \in Datasets : owner[d] # NoTask =>
          ds[owner[d]] = d /\ pc[owner[d]] \notin {"idle", "lock"}
    /\ \A c \in Calls : job[c] \in Locking /\ pc[c] # "lock" => owner[ds[c]] = c

(* A call that is waited for by no gather has no items. *)
KidInv ==
    \A i \in Items : parent[i] # NoTask =>
        pc[i] # "idle" /\ pc[parent[i]] = "gather" /\ ds[parent[i]] = ds[i]

RunInv == RunTypes /\ CallShape /\ ItemShape /\ LockInv /\ KidInv

IInv == QueueInv /\ RunInv /\ ScopeKeepsSlot

-----------------------------------------------------------------------------
(* Entries are finitely many, so that they can be counted. *)
LEMMA EntriesFinite ==
  /\ IsFiniteSet(Tasks \X Datasets)
  /\ IsFiniteSet(Entries)
  /\ Cardinality(Entries) \in Nat
  /\ \A t : IsFiniteSet(EntriesOf(t)) /\ Cardinality(EntriesOf(t)) \in Nat
<1>1. IsFiniteSet(Tasks \X Datasets)
  BY FS_Product, QueueAssumption
<1>2. Entries \subseteq Tasks \X Datasets
  BY DEF Entries
<1>3. \A t : EntriesOf(t) \subseteq Tasks \X Datasets
  BY DEF EntriesOf, Entries
<1> QED
  BY <1>1, <1>2, <1>3, FS_Subset, FS_CardinalityType

(* Going deeper makes no entry and takes no permit. *)
LEMMA BumpKeeps ==
  ASSUME QueueInv, NEW t \in Tasks, NEW d \in Datasets, Bump(t, d)
  PROVE  QueueInv'
<1>1. depth' \in [Tasks -> [Datasets -> Nat]]
  BY DEF QueueInv, Bump
<1>2. Entries' = Entries
  BY <1>1 DEF QueueInv, Bump, Entries
<1> QED
  BY <1>1, <1>2 DEF QueueInv, Bump, SlotsConserved, engineVars

(* A permit becomes an entry. *)
LEMMA AdmitKeeps ==
  ASSUME QueueInv, NEW t \in Tasks, NEW d \in Datasets, Admit(t, d)
  PROVE  QueueInv'
<1>1. depth' \in [Tasks -> [Datasets -> Nat]]
  BY DEF QueueInv, Admit
<1>2. Entries' = Entries \cup {<<t, d>>} /\ <<t, d>> \notin Entries
  BY <1>1 DEF QueueInv, Admit, Entries
<1>3. Cardinality(Entries') = Cardinality(Entries) + 1
  BY <1>2, EntriesFinite, FS_AddElement
<1>4. permits' = permits - 1 /\ permits' \in 0..Slots
  BY QueueAssumption DEF QueueInv, Admit
<1>5. SlotsConserved'
  BY <1>3, <1>4, EntriesFinite, QueueAssumption DEF QueueInv, SlotsConserved
<1> QED
  BY <1>1, <1>4, <1>5 DEF QueueInv, Admit, engineVars

(* At the outermost level an entry becomes a permit; above it nothing does. *)
LEMMA ReleaseSlotKeeps ==
  ASSUME QueueInv, NEW t \in Tasks, NEW d \in Datasets, ReleaseSlot(t, d)
  PROVE  QueueInv'
<1>1. depth' \in [Tasks -> [Datasets -> Nat]]
  BY DEF QueueInv, ReleaseSlot
<1>2. engines' \subseteq Datasets /\ expired' \subseteq Datasets /\ keepAlive' \in BOOLEAN
  BY DEF QueueInv, ReleaseSlot, AfterLastHolder
<1>3. CASE depth[t][d] = 1
  <2>1. Entries' = Entries \ {<<t, d>>} /\ <<t, d>> \in Entries
    BY <1>1, <1>3 DEF QueueInv, ReleaseSlot, Entries
  <2>2. Cardinality(Entries') = Cardinality(Entries) - 1 /\ Cardinality(Entries') \in Nat
    BY <2>1, EntriesFinite, FS_RemoveElement, FS_CardinalityType
  <2>3. permits' = permits + 1
    BY <1>3 DEF ReleaseSlot
  <2>4. permits' \in 0..Slots /\ SlotsConserved'
    BY <2>2, <2>3, EntriesFinite, QueueAssumption DEF QueueInv, SlotsConserved
  <2> QED
    BY <1>1, <1>2, <2>4 DEF QueueInv
<1>4. CASE depth[t][d] # 1
  <2>1. Entries' = Entries
    BY <1>1, <1>4 DEF QueueInv, ReleaseSlot, Entries
  <2> QED
    BY <1>1, <1>2, <1>4, <2>1 DEF QueueInv, ReleaseSlot, SlotsConserved
<1> QED
  BY <1>3, <1>4

(* The end of a task turns all its entries into permits. *)
LEMMA ReleaseAllKeeps ==
  ASSUME QueueInv, NEW t \in Tasks, ReleaseAll(t)
  PROVE  QueueInv'
<1>1. depth' \in [Tasks -> [Datasets -> Nat]]
  BY DEF QueueInv, ReleaseAll
<1>2. Entries' = Entries \ EntriesOf(t)
  BY <1>1 DEF QueueInv, ReleaseAll, Entries, EntriesOf
<1>3. Entries \cap EntriesOf(t) = EntriesOf(t)
  BY DEF EntriesOf
<1>4. /\ IsFiniteSet(Entries \ EntriesOf(t))
      /\ Cardinality(Entries \ EntriesOf(t))
            = Cardinality(Entries) - Cardinality(Entries \cap EntriesOf(t))
  BY EntriesFinite, FS_Difference
<1>5. /\ Cardinality(Entries') = Cardinality(Entries) - Cardinality(EntriesOf(t))
      /\ Cardinality(Entries') \in Nat
  BY <1>2, <1>3, <1>4, FS_CardinalityType
<1>6. permits' = permits + Cardinality(EntriesOf(t))
  BY DEF ReleaseAll
<1>7. permits' \in 0..Slots /\ SlotsConserved'
  BY <1>5, <1>6, EntriesFinite, QueueAssumption DEF QueueInv, SlotsConserved
<1> QED
  BY <1>1, <1>7 DEF QueueInv, ReleaseAll, engineVars

(* Whatever leaves the semaphore and the entries alone keeps their balance. *)
LEMMA SlotsUntouched ==
  ASSUME QueueInv, permits' = permits, depth' = depth, keepAlive' = keepAlive,
         engines' \subseteq Datasets, expired' \subseteq Datasets
  PROVE  QueueInv'
<1>1. Entries' = Entries
  BY DEF Entries
<1> QED
  BY <1>1 DEF QueueInv, SlotsConserved

-----------------------------------------------------------------------------
(* Places, locks and items. *)
LEMMA RunStep ==
  ASSUME IInv, [Next]_vars
  PROVE  RunInv'
<1>1. ASSUME NEW c \in Calls, LockRefused(c)
      PROVE  RunInv'
  BY <1>1, RunsAssumption
  DEF IInv, RunInv, RunTypes, CallShape, ItemShape, LockInv, KidInv, ScopeKeepsSlot,
      CallPcs, ItemPcs, AllJobs, Locking, Goto, EndCall, Kids, LockRefused
<1>2. ASSUME NEW c \in Calls, TakeLock(c)
      PROVE  RunInv'
  BY <1>2, RunsAssumption
  DEF IInv, RunInv, RunTypes, CallShape, ItemShape, LockInv, KidInv, ScopeKeepsSlot,
      CallPcs, ItemPcs, AllJobs, Locking, Goto, EndCall, Kids, TakeLock
<1>3. ASSUME NEW c \in Calls, CancelWait(c)
      PROVE  RunInv'
  BY <1>3, RunsAssumption
  DEF IInv, RunInv, RunTypes, CallShape, ItemShape, LockInv, KidInv, ScopeKeepsSlot,
      CallPcs, ItemPcs, AllJobs, Locking, Goto, EndCall, Kids, CancelWait
<1>4. ASSUME NEW c \in Calls, LeaveCall(c)
      PROVE  RunInv'
  BY <1>4, RunsAssumption
  DEF IInv, RunInv, RunTypes, CallShape, ItemShape, LockInv, KidInv, ScopeKeepsSlot,
      CallPcs, ItemPcs, AllJobs, Locking, Goto, EndCall, Kids, LeaveCall
<1>5. ASSUME NEW c \in Calls, UpdateRuns(c)
      PROVE  RunInv'
  BY <1>5, RunsAssumption
  DEF IInv, RunInv, RunTypes, CallShape, ItemShape, LockInv, KidInv, ScopeKeepsSlot,
      CallPcs, ItemPcs, AllJobs, Locking, Goto, EndCall, Kids, UpdateRuns
<1>6. ASSUME NEW c \in Calls, Gathered(c)
      PROVE  RunInv'
  BY <1>6, RunsAssumption
  DEF IInv, RunInv, RunTypes, CallShape, ItemShape, LockInv, KidInv, ScopeKeepsSlot,
      CallPcs, ItemPcs, AllJobs, Locking, Goto, EndCall, Kids, Gathered
<1>7. ASSUME NEW c \in Calls, NEW I \in SUBSET Items, Spawn(c, I)
      PROVE  RunInv'
  BY <1>7, RunsAssumption
  DEF IInv, RunInv, RunTypes, CallShape, ItemShape, LockInv, KidInv, ScopeKeepsSlot,
      CallPcs, ItemPcs, AllJobs, Locking, Goto, EndCall, Kids, Spawn
<1>8. ASSUME NEW c \in Calls, CallEnds(c)
      PROVE  RunInv'
  BY <1>8 DEF IInv, RunInv, RunTypes, CallShape, ItemShape, LockInv, KidInv, CallEnds, runVars
<1>9. ASSUME NEW c \in Calls, NEW j \in Jobs, NEW d \in Datasets, Begin(c, j, d)
      PROVE  RunInv'
  BY <1>9, RunsAssumption
  DEF IInv, RunInv, RunTypes, CallShape, ItemShape, LockInv, KidInv, ScopeKeepsSlot,
      CallPcs, ItemPcs, AllJobs, Locking, Goto, EndCall, Kids, Begin
<1>10. ASSUME NEW t \in Tasks, TakeSlot(t)
      PROVE  RunInv'
  BY <1>10, RunsAssumption
  DEF IInv, RunInv, RunTypes, CallShape, ItemShape, LockInv, KidInv, ScopeKeepsSlot,
      CallPcs, ItemPcs, AllJobs, Locking, Goto, EndCall, Kids, TakeSlot
<1>11. ASSUME NEW t \in Tasks, EnterDone(t)
      PROVE  RunInv'
  BY <1>11, RunsAssumption
  DEF IInv, RunInv, RunTypes, CallShape, ItemShape, LockInv, KidInv, ScopeKeepsSlot,
      CallPcs, ItemPcs, AllJobs, Locking, Goto, EndCall, Kids, EnterDone
<1>12. ASSUME NEW t \in Tasks, EnterFails(t)
      PROVE  RunInv'
  BY <1>12, RunsAssumption
  DEF IInv, RunInv, RunTypes, CallShape, ItemShape, LockInv, KidInv, ScopeKeepsSlot,
      CallPcs, ItemPcs, AllJobs, Locking, Goto, EndCall, Kids, EnterFails
<1>13. ASSUME NEW i \in Items, LeaveItem(i)
      PROVE  RunInv'
  BY <1>13, RunsAssumption
  DEF IInv, RunInv, RunTypes, CallShape, ItemShape, LockInv, KidInv, ScopeKeepsSlot,
      CallPcs, ItemPcs, AllJobs, Locking, Goto, EndCall, Kids, LeaveItem
<1>14. ASSUME NEW i \in Items, ItemRuns(i)
      PROVE  RunInv'
  BY <1>14, RunsAssumption
  DEF IInv, RunInv, RunTypes, CallShape, ItemShape, LockInv, KidInv, ScopeKeepsSlot,
      CallPcs, ItemPcs, AllJobs, Locking, Goto, EndCall, Kids, ItemRuns
<1>15. ASSUME NEW i \in Items, ItemEnds(i)
      PROVE  RunInv'
  BY <1>15, RunsAssumption
  DEF IInv, RunInv, RunTypes, CallShape, ItemShape, LockInv, KidInv, ScopeKeepsSlot,
      CallPcs, ItemPcs, AllJobs, Locking, Goto, EndCall, Kids, ItemEnds
<1>16. ASSUME ReapChoose \/ \E d \in Datasets : ReapNext(d), UNCHANGED runVars
      PROVE  RunInv'
  BY <1>16 DEF IInv, RunInv, RunTypes, CallShape, ItemShape, LockInv, KidInv, runVars
<1>17. CASE UNCHANGED vars
  BY <1>17 DEF IInv, RunInv, RunTypes, CallShape, ItemShape, LockInv, KidInv, vars, runVars
<1>18. ASSUME NEW t \in Tasks, Resolve(t)
      PROVE  RunInv'
  BY <1>18 DEF IInv, RunInv, RunTypes, CallShape, ItemShape, LockInv, KidInv, Resolve, runVars
<1> QED
  BY <1>1, <1>2, <1>3, <1>4, <1>5, <1>6, <1>7, <1>8, <1>9, <1>10, <1>11, <1>12, <1>13,
     <1>14, <1>15, <1>16, <1>17, <1>18
  DEF Next, CallStep

(* The balance of permits and entries. *)
LEMMA QueueStep ==
  ASSUME IInv, [Next]_vars
  PROVE  QueueInv'
<1>1. ASSUME NEW c \in Calls, LockRefused(c)
      PROVE  QueueInv'
  BY <1>1, SlotsUntouched DEF IInv, QueueInv, queueVars, engineVars, LockRefused
<1>2. ASSUME NEW c \in Calls, TakeLock(c)
      PROVE  QueueInv'
  BY <1>2, SlotsUntouched DEF IInv, QueueInv, queueVars, engineVars, TakeLock
<1>3. ASSUME NEW c \in Calls, CancelWait(c)
      PROVE  QueueInv'
  BY <1>3, SlotsUntouched DEF IInv, QueueInv, queueVars, engineVars, CancelWait
<1>4. ASSUME NEW c \in Calls, LeaveCall(c)
      PROVE  QueueInv'
  <2>1. ds[c] \in Datasets /\ c \in Tasks
    BY <1>4, RunsAssumption DEF IInv, RunInv, RunTypes, CallShape, LeaveCall
  <2> QED
    BY <1>4, <2>1, ReleaseSlotKeeps DEF IInv, LeaveCall
<1>5. ASSUME NEW c \in Calls, UpdateRuns(c)
      PROVE  QueueInv'
  BY <1>5, SlotsUntouched DEF IInv, QueueInv, queueVars, engineVars, UpdateRuns
<1>6. ASSUME NEW c \in Calls, Gathered(c)
      PROVE  QueueInv'
  BY <1>6, SlotsUntouched DEF IInv, QueueInv, queueVars, engineVars, Gathered
<1>7. ASSUME NEW c \in Calls, NEW I \in SUBSET Items, Spawn(c, I)
      PROVE  QueueInv'
  BY <1>7, SlotsUntouched DEF IInv, QueueInv, queueVars, engineVars, Spawn
<1>8. ASSUME NEW c \in Calls, CallEnds(c)
      PROVE  QueueInv'
  BY <1>8, RunsAssumption, ReleaseAllKeeps DEF IInv, CallEnds
<1>9. ASSUME NEW c \in Calls, NEW j \in Jobs, NEW d \in Datasets, Begin(c, j, d)
      PROVE  QueueInv'
  BY <1>9, SlotsUntouched DEF IInv, QueueInv, queueVars, engineVars, Begin
<1>10. ASSUME NEW t \in Tasks, TakeSlot(t)
      PROVE  QueueInv'
  <2>1. ds[t] \in Datasets
    BY <1>10, RunsAssumption DEF IInv, RunInv, RunTypes, CallShape, ItemShape, TakeSlot
  <2> QED
    BY <1>10, <2>1, BumpKeeps, AdmitKeeps DEF IInv, TakeSlot, EnsureSlot
<1>11. ASSUME NEW t \in Tasks, EnterDone(t)
      PROVE  QueueInv'
  BY <1>11, SlotsUntouched DEF IInv, QueueInv, queueVars, engineVars, EnterDone
<1>12. ASSUME NEW t \in Tasks, EnterFails(t)
      PROVE  QueueInv'
  BY <1>12, SlotsUntouched DEF IInv, QueueInv, queueVars, engineVars, EnterFails
<1>13. ASSUME NEW i \in Items, LeaveItem(i)
      PROVE  QueueInv'
  <2>1. ds[i] \in Datasets /\ i \in Tasks
    BY <1>13, RunsAssumption DEF IInv, RunInv, RunTypes, ItemShape, LeaveItem
  <2> QED
    BY <1>13, <2>1, ReleaseSlotKeeps DEF IInv, LeaveItem
<1>14. ASSUME NEW i \in Items, ItemRuns(i)
      PROVE  QueueInv'
  BY <1>14, SlotsUntouched DEF IInv, QueueInv, queueVars, engineVars, ItemRuns
<1>15. ASSUME NEW i \in Items, ItemEnds(i)
      PROVE  QueueInv'
  BY <1>15, RunsAssumption, ReleaseAllKeeps DEF IInv, ItemEnds
<1>16. ASSUME ReapChoose \/ \E d \in Datasets : ReapNext(d), UNCHANGED runVars
      PROVE  QueueInv'
  BY <1>16, SlotsUntouched DEF IInv, QueueInv, ReapChoose, ReapNext
<1>17. CASE UNCHANGED vars
  BY <1>17, SlotsUntouched DEF IInv, QueueInv, vars, queueVars, engineVars
<1>18. ASSUME NEW t \in Tasks, Resolve(t)
      PROVE  QueueInv'
  <2>1. ds[t] \in Datasets
    BY <1>18, RunsAssumption DEF IInv, RunInv, RunTypes, CallShape, ItemShape, Resolve
  <2> QED
    BY <1>18, <2>1, SlotsUntouched DEF IInv, QueueInv, Resolve
<1> QED
  BY <1>1, <1>2, <1>3, <1>4, <1>5, <1>6, <1>7, <1>8, <1>9, <1>10, <1>11, <1>12, <1>13,
     <1>14, <1>15, <1>16, <1>17, <1>18
  DEF Next, CallStep

(* Entries are as deep as the scopes of their task. *)
LEMMA ScopeStep ==
  ASSUME IInv, [Next]_vars
  PROVE  ScopeKeepsSlot'
<1>1. ASSUME NEW c \in Calls, LockRefused(c)
      PROVE  ScopeKeepsSlot'
  BY <1>1, RunsAssumption
  DEF IInv, QueueInv, RunInv, RunTypes, CallShape, ItemShape, ScopeKeepsSlot, CallPcs, ItemPcs,
      queueVars, engineVars, Goto, EndCall, LockRefused
<1>2. ASSUME NEW c \in Calls, TakeLock(c)
      PROVE  ScopeKeepsSlot'
  BY <1>2, RunsAssumption
  DEF IInv, QueueInv, RunInv, RunTypes, CallShape, ItemShape, ScopeKeepsSlot, CallPcs, ItemPcs,
      queueVars, engineVars, Goto, EndCall, TakeLock
<1>3. ASSUME NEW c \in Calls, CancelWait(c)
      PROVE  ScopeKeepsSlot'
  BY <1>3, RunsAssumption
  DEF IInv, QueueInv, RunInv, RunTypes, CallShape, ItemShape, ScopeKeepsSlot, CallPcs, ItemPcs,
      queueVars, engineVars, Goto, EndCall, CancelWait
<1>4. ASSUME NEW c \in Calls, LeaveCall(c)
      PROVE  ScopeKeepsSlot'
  BY <1>4, RunsAssumption
  DEF IInv, QueueInv, RunInv, RunTypes, CallShape, ItemShape, ScopeKeepsSlot, CallPcs, ItemPcs,
      queueVars, engineVars, Goto, EndCall, LeaveCall, ReleaseSlot
<1>5. ASSUME NEW c \in Calls, UpdateRuns(c)
      PROVE  ScopeKeepsSlot'
  BY <1>5, RunsAssumption
  DEF IInv, QueueInv, RunInv, RunTypes, CallShape, ItemShape, ScopeKeepsSlot, CallPcs, ItemPcs,
      queueVars, engineVars, Goto, EndCall, UpdateRuns
<1>6. ASSUME NEW c \in Calls, Gathered(c)
      PROVE  ScopeKeepsSlot'
  BY <1>6, RunsAssumption
  DEF IInv, QueueInv, RunInv, RunTypes, CallShape, ItemShape, ScopeKeepsSlot, CallPcs, ItemPcs,
      queueVars, engineVars, Goto, EndCall, Gathered
<1>7. ASSUME NEW c \in Calls, NEW I \in SUBSET Items, Spawn(c, I)
      PROVE  ScopeKeepsSlot'
  BY <1>7, RunsAssumption
  DEF IInv, QueueInv, RunInv, RunTypes, CallShape, ItemShape, ScopeKeepsSlot, CallPcs, ItemPcs,
      queueVars, engineVars, Goto, EndCall, Spawn
<1>8. ASSUME NEW c \in Calls, CallEnds(c)
      PROVE  ScopeKeepsSlot'
  BY <1>8, RunsAssumption
  DEF IInv, QueueInv, RunInv, RunTypes, CallShape, ItemShape, ScopeKeepsSlot, CallPcs, ItemPcs,
      queueVars, engineVars, Goto, EndCall, CallEnds, ReleaseAll, runVars
<1>9. ASSUME NEW c \in Calls, NEW j \in Jobs, NEW d \in Datasets, Begin(c, j, d)
      PROVE  ScopeKeepsSlot'
  BY <1>9, RunsAssumption
  DEF IInv, QueueInv, RunInv, RunTypes, CallShape, ItemShape, ScopeKeepsSlot, CallPcs, ItemPcs,
      queueVars, engineVars, Goto, EndCall, Begin
<1>10. ASSUME NEW t \in Tasks, TakeSlot(t)
      PROVE  ScopeKeepsSlot'
  BY <1>10, RunsAssumption
  DEF IInv, QueueInv, RunInv, RunTypes, CallShape, ItemShape, ScopeKeepsSlot, CallPcs, ItemPcs,
      queueVars, engineVars, Goto, EndCall, TakeSlot, EnsureSlot, Bump, Admit
<1>11. ASSUME NEW t \in Tasks, EnterDone(t)
      PROVE  ScopeKeepsSlot'
  BY <1>11, RunsAssumption
  DEF IInv, QueueInv, RunInv, RunTypes, CallShape, ItemShape, ScopeKeepsSlot, CallPcs, ItemPcs,
      queueVars, engineVars, Goto, EndCall, EnterDone
<1>12. ASSUME NEW t \in Tasks, EnterFails(t)
      PROVE  ScopeKeepsSlot'
  BY <1>12, RunsAssumption
  DEF IInv, QueueInv, RunInv, RunTypes, CallShape, ItemShape, ScopeKeepsSlot, CallPcs, ItemPcs,
      queueVars, engineVars, Goto, EndCall, EnterFails
<1>13. ASSUME NEW i \in Items, LeaveItem(i)
      PROVE  ScopeKeepsSlot'
  BY <1>13, RunsAssumption
  DEF IInv, QueueInv, RunInv, RunTypes, CallShape, ItemShape, ScopeKeepsSlot, CallPcs, ItemPcs,
      queueVars, engineVars, Goto, EndCall, LeaveItem, ReleaseSlot
<1>14. ASSUME NEW i \in Items, ItemRuns(i)
      PROVE  ScopeKeepsSlot'
  BY <1>14, RunsAssumption
  DEF IInv, QueueInv, RunInv, RunTypes, CallShape, ItemShape, ScopeKeepsSlot, CallPcs, ItemPcs,
      queueVars, engineVars, Goto, EndCall, ItemRuns
<1>15. ASSUME NEW i \in Items, ItemEnds(i)
      PROVE  ScopeKeepsSlot'
  BY <1>15, RunsAssumption
  DEF IInv, QueueInv, RunInv, RunTypes, CallShape, ItemShape, ScopeKeepsSlot, CallPcs, ItemPcs,
      queueVars, engineVars, Goto, EndCall, ItemEnds, ReleaseAll
<1>16. ASSUME ReapChoose \/ \E d \in Datasets : ReapNext(d), UNCHANGED runVars
      PROVE  ScopeKeepsSlot'
  BY <1>16, RunsAssumption
  DEF IInv, QueueInv, RunInv, RunTypes, CallShape, ItemShape, ScopeKeepsSlot, CallPcs, ItemPcs,
      queueVars, engineVars, Goto, EndCall, ReapChoose, ReapNext, runVars
<1>17. CASE UNCHANGED vars
  BY <1>17 DEF IInv, ScopeKeepsSlot, vars, queueVars, engineVars, runVars
<1>18. ASSUME NEW t \in Tasks, Resolve(t)
      PROVE  ScopeKeepsSlot'
  BY <1>18 DEF IInv, ScopeKeepsSlot, Resolve, runVars
<1> QED
  BY <1>1, <1>2, <1>3, <1>4, <1>5, <1>6, <1>7, <1>8, <1>9, <1>10, <1>11, <1>12, <1>13,
     <1>14, <1>15, <1>16, <1>17, <1>18
  DEF Next, CallStep

(* Whoever uses the engines of a dataset holds it, or its parent does, but *)
(* for what a run left behind.                                             *)
LEMMA UserHolds ==
  ASSUME IInv, NEW t \in Tasks, NEW d \in Datasets, Uses(t, d), ~LeftBehind(t)
  PROVE  LET h == IF t \in Items /\ parent[t] # NoTask THEN parent[t] ELSE t
         IN  h \in Tasks /\ depth[h][d] > 0
<1>1. CASE t \in Items /\ parent[t] # NoTask
  <2>1. /\ parent[t] \in Calls /\ parent[t] \in Tasks
        /\ pc[parent[t]] = "gather" /\ ds[parent[t]] = d
    BY <1>1, RunsAssumption DEF IInv, RunInv, RunTypes, KidInv, Uses
  <2>2. open[parent[t]] > 0 /\ open[parent[t]] \in Nat
    BY <2>1 DEF IInv, RunInv, RunTypes, CallShape
  <2>3. depth[parent[t]][d] >= open[parent[t]] /\ depth[parent[t]][d] \in Nat
    BY <2>1, <2>2 DEF IInv, ScopeKeepsSlot, QueueInv
  <2> QED
    BY <1>1, <2>1, <2>2, <2>3
<1>2. CASE ~(t \in Items /\ parent[t] # NoTask)
  <2>1. open[t] > 0 /\ open[t] \in Nat /\ ds[t] = d
    <3>1. CASE t \in Items
      BY <1>2, <3>1, RunsAssumption
      DEF IInv, RunInv, RunTypes, ItemShape, Uses, LeftBehind, Orphan
    <3>2. CASE t \notin Items
      BY <3>2, RunsAssumption DEF IInv, RunInv, RunTypes, CallShape, CallPcs, Uses
    <3> QED
      BY <3>1, <3>2
  <2>2. depth[t][d] >= open[t] /\ depth[t][d] \in Nat
    BY <2>1 DEF IInv, ScopeKeepsSlot, QueueInv
  <2> QED
    BY <1>2, <2>1, <2>2
<1> QED
  BY <1>1, <1>2

(* A release closes the engines of its own dataset at most, and none when the *)
(* task stays at a deeper level or another task holds the dataset.            *)
LEMMA ReleaseSpares ==
  ASSUME NEW t \in Tasks, NEW d \in Datasets, ReleaseSlot(t, d)
  PROVE  /\ engines \ {d} \subseteq engines'
         /\ depth[t][d] # 1 => engines' = engines
         /\ \A h \in Tasks \ {t} : depth[h][d] > 0 => engines' = engines
BY DEF ReleaseSlot, AfterLastHolder, OtherHolds

(* What TeardownSparesUsers says of a step. *)
Spares ==
    \A d \in engines \ engines' :
        \/ d \in expired \ expired'
        \/ \A t \in Tasks : Uses(t, d)' => LeftBehind(t)'

LEMMA SparesStep ==
  ASSUME IInv, IInv', [Next]_vars
  PROVE  Spares
<1>1. ASSUME NEW c \in Calls, LeaveCall(c)
      PROVE  Spares
  <2> SUFFICES ASSUME NEW d \in engines \ engines', NEW u \in Tasks,
                      Uses(u, d)', ~LeftBehind(u)'
               PROVE  FALSE
    BY DEF Spares
  <2>1. c \in Tasks /\ c \notin Items /\ ds[c] \in Datasets /\ ReleaseSlot(c, ds[c])
    BY <1>1, RunsAssumption DEF IInv, RunInv, RunTypes, CallShape, LeaveCall
  <2>2. d = ds[c] /\ d \in Datasets /\ depth[c][d] = 1
    BY <2>1, ReleaseSpares
  <2>3. open[c] \in Nat /\ ~(open[c] > 1)
    BY <2>1, <2>2 DEF IInv, RunInv, RunTypes, ScopeKeepsSlot, QueueInv
  <2>4. pc'[c] = "idle"
    BY <1>1, <2>1, <2>3 DEF LeaveCall, EndCall, Goto, IInv, RunInv, RunTypes
  <2>5. u # c
    BY <2>1, <2>4 DEF Uses
  <2>6. Uses(u, d) /\ ~LeftBehind(u)
    BY <1>1, <2>5 DEF Uses, LeftBehind, Orphan, LeaveCall, EndCall, Goto, IInv, RunInv, RunTypes
  <2>7. pc[c] # "gather"
    BY <1>1 DEF LeaveCall
  <2>8. u \in Items /\ parent[u] # NoTask => parent[u] # c
    BY <2>7 DEF IInv, RunInv, KidInv
  <2> QED
    BY <2>1, <2>2, <2>5, <2>6, <2>8, UserHolds, ReleaseSpares
<1>2. ASSUME NEW i \in Items, LeaveItem(i)
      PROVE  Spares
  <2> SUFFICES ASSUME NEW d \in engines \ engines', NEW u \in Tasks,
                      Uses(u, d)', ~LeftBehind(u)'
               PROVE  FALSE
    BY DEF Spares
  <2>1. i \in Tasks /\ ds[i] \in Datasets /\ ReleaseSlot(i, ds[i])
    BY <1>2, RunsAssumption DEF IInv, RunInv, RunTypes, ItemShape, LeaveItem
  <2>2. d = ds[i] /\ d \in Datasets
    BY <2>1, ReleaseSpares
  <2>3. open[i] = 1 /\ open'[i] = 0
    BY <1>2, <2>1 DEF IInv, RunInv, RunTypes, ItemShape, LeaveItem
  <2>4. u = i => parent[i] # NoTask
    BY <1>2, <2>3 DEF LeftBehind, Orphan, LeaveItem, Goto, IInv, RunInv, RunTypes
  <2>5. Uses(u, d) /\ ~LeftBehind(u)
    BY <1>2, <2>1, <2>3, <2>4
    DEF Uses, LeftBehind, Orphan, LeaveItem, Goto, IInv, RunInv, RunTypes
  <2>6. \A k \in Items : parent[k] # i
    BY <2>1, RunsAssumption DEF IInv, RunInv, RunTypes
  <2> QED
    BY <2>1, <2>2, <2>4, <2>5, <2>6, UserHolds, ReleaseSpares
<1>3. ASSUME NEW d \in Datasets, ReapNext(d)
      PROVE  Spares
  BY <1>3 DEF Spares, ReapNext
<1>4. CASE engines \subseteq engines'
  BY <1>4 DEF Spares
<1>5. ASSUME NEW c \in Calls,
             \/ TakeLock(c) \/ LockRefused(c) \/ UpdateRuns(c) \/ Gathered(c)
             \/ CancelWait(c) \/ CallEnds(c)
             \/ \E I \in SUBSET Items : Spawn(c, I)
             \/ \E j \in Jobs, d \in Datasets : Begin(c, j, d)
      PROVE  engines \subseteq engines'
  BY <1>5
  DEF TakeLock, LockRefused, UpdateRuns, Gathered, CancelWait, CallEnds, ReleaseAll, Spawn,
      Begin, queueVars, engineVars
<1>6. ASSUME NEW t \in Tasks, TakeSlot(t) \/ EnterDone(t) \/ EnterFails(t) \/ Resolve(t)
      PROVE  engines \subseteq engines'
  BY <1>6
  DEF TakeSlot, EnsureSlot, Bump, Admit, EnterDone, EnterFails, Resolve, queueVars, engineVars
<1>7. ASSUME NEW i \in Items, ItemRuns(i) \/ ItemEnds(i)
      PROVE  engines \subseteq engines'
  BY <1>7 DEF ItemRuns, ItemEnds, ReleaseAll, queueVars, engineVars
<1>8. CASE ReapChoose
  BY <1>4, <1>8 DEF ReapChoose
<1>9. CASE UNCHANGED vars
  BY <1>4, <1>9 DEF vars, queueVars, engineVars
<1> QED
  BY <1>1, <1>2, <1>3, <1>4, <1>5, <1>6, <1>7, <1>8, <1>9 DEF Next, CallStep

-----------------------------------------------------------------------------
(* Nobody holds anything at the start. *)
LEMMA InitHolds == Init => IInv
<1> SUFFICES ASSUME Init PROVE IInv
  OBVIOUS
<1>1. QueueInv
  <2>1. Entries = {}
    BY DEF Init, QueueInit, Entries
  <2>2. Cardinality(Entries) = 0
    BY <2>1, FS_EmptySet
  <2> QED
    BY <2>2, QueueAssumption DEF Init, QueueInit, QueueInv, SlotsConserved
<1>2. RunInv
  BY RunsAssumption
  DEF Init, RunInv, RunTypes, CallShape, ItemShape, LockInv, KidInv, CallPcs, ItemPcs, AllJobs,
      Locking
<1>3. ScopeKeepsSlot
  BY DEF Init, ScopeKeepsSlot
<1> QED
  BY <1>1, <1>2, <1>3 DEF IInv

(* The invariant is inductive. *)
LEMMA StepHolds == IInv /\ [Next]_vars => IInv'
BY QueueStep, RunStep, ScopeStep DEF IInv

(* IInv holds in every state: queue, calls and items as the sections of this *)
(* module describe them.                                                     *)
THEOREM Invariance == Spec => []IInv
BY InitHolds, StepHolds, PTL DEF Spec

(* Every variable of the queue and of its users keeps its type; the semaphore *)
(* never goes below zero or above its initial value (queue.py, semaphore).    *)
THEOREM TypeCorrect == Spec => []TypeOK
<1>1. IInv => TypeOK
  BY DEF IInv, QueueInv, RunInv, RunTypes, TypeOK
<1> QED
  BY <1>1, Invariance, PTL

(* No permit is lost or freed twice, however calls nest, fail, are cancelled *)
(* or end (queue.py, release_slot_for and the done-callback).                *)
THEOREM SlotsAreConserved == Spec => []SlotsConserved
<1>1. IInv => SlotsConserved
  BY DEF IInv, QueueInv
<1> QED
  BY <1>1, Invariance, PTL

(* An inner exit never takes the slot of an outer scope (queue.py, depth). *)
THEOREM ScopesKeepSlots == Spec => []ScopeKeepsSlot
<1>1. IInv => ScopeKeepsSlot
  BY DEF IInv
<1> QED
  BY <1>1, Invariance, PTL

(* Who writes under the lock of a dataset works for its owner. *)
LEMMA WriterIsOwners ==
  ASSUME IInv, NEW t \in Tasks, NEW d \in Datasets,
         Writing(t, d), ~Orphan(t)
  PROVE  Root(t) = owner[d]
<1>1. CASE t \in Items
  <2>1. ds[t] = d /\ pc[t] # "idle" /\ parent[t] # NoTask
    BY <1>1, RunsAssumption DEF Writing, Orphan, IInv, RunInv, ItemShape
  <2>2. /\ parent[t] \in Calls /\ ds[parent[t]] = d
        /\ pc[parent[t]] = "gather" /\ job[parent[t]] \in Locking
    BY <1>1, <2>1 DEF IInv, RunInv, RunTypes, KidInv, CallShape, Locking
  <2> QED
    BY <1>1, <2>2 DEF Root, IInv, RunInv, LockInv
<1>2. CASE t \in Calls
  <2>1. t \notin Items /\ ds[t] = d /\ pc[t] # "lock" /\ job[t] \in Locking
    BY <1>2, RunsAssumption DEF Writing
  <2> QED
    BY <1>2, <2>1 DEF Root, IInv, RunInv, LockInv
<1> QED
  BY <1>1, <1>2, RunsAssumption

(* Operations that lock their dataset, and the items they wait for, exclude *)
(* each other (dataset_lock.py, get_dataset_lock).                          *)
THEOREM LocksExclude == Spec => []LockedExclude
<1>1. IInv => LockedExclude
  BY WriterIsOwners DEF LockedExclude
<1> QED
  BY <1>1, Invariance, PTL

(* The last holder of another task and the end of a task spare the engines of *)
(* those who use them (queue.py, release_slot_for and the done-callback), but *)
(* for items that their run left behind and that no entry stands for.         *)
THEOREM TeardownIsSafe == Spec => TeardownSparesUsers
<1>1. IInv /\ IInv' /\ [Next]_vars
      => [\A d \in engines \ engines' :
             \/ d \in expired \ expired'
             \/ \A t \in Tasks : Uses(t, d)' => LeftBehind(t)']_vars
  BY SparesStep DEF Spares
<1> QED
  BY <1>1, Invariance, PTL DEF Spec, TeardownSparesUsers
-----------------------------------------------------------------------------
(* Locks and slots never wait in a circle.                                 *)

(* What an item holds is a slot of its dataset; without one it is idle. *)
ItemSlots == \A i \in Items, d \in Datasets : depth[i][d] > 0 => ds[i] = d

LEMMA ItemSlotsStep == IInv /\ ItemSlots /\ [Next]_vars => ItemSlots'
<1> SUFFICES ASSUME IInv, ItemSlots, [Next]_vars PROVE ItemSlots'
  OBVIOUS
<1> USE RunsAssumption DEF ItemSlots
<1>t. /\ depth \in [Tasks -> [Datasets -> Nat]]
      /\ ds \in [Tasks -> Datasets \cup {NoDataset}]
      /\ \A i \in Items : pc[i] = "idle" <=> ds[i] = NoDataset
      /\ Items \subseteq Tasks /\ Calls \subseteq Tasks
  BY DEF IInv, QueueInv, RunInv, RunTypes, ItemShape
<1>1. ASSUME NEW c \in Calls,
             \/ LockRefused(c) \/ TakeLock(c) \/ CancelWait(c) \/ UpdateRuns(c)
             \/ Gathered(c) \/ \E j \in Jobs, d \in Datasets : Begin(c, j, d)
      PROVE  ItemSlots'
  <2>1. depth' = depth /\ \A i \in Items : ds'[i] = ds[i]
    BY <1>t, <1>1 DEF LockRefused, TakeLock, CancelWait, UpdateRuns, Gathered, Begin,
       EndCall, queueVars
  <2> QED BY <2>1
<1>2. ASSUME NEW c \in Calls, LeaveCall(c)
      PROVE  ItemSlots'
  <2>1. \A i \in Items : ds'[i] = ds[i] /\ depth'[i] = depth[i]
    BY <1>t, <1>2 DEF LeaveCall, EndCall, ReleaseSlot
  <2> QED BY <2>1
<1>3. ASSUME NEW c \in Calls, NEW I \in SUBSET Items, Spawn(c, I)
      PROVE  ItemSlots'
  BY <1>t, <1>3 DEF Spawn, queueVars
<1>4. ASSUME NEW c \in Calls, CallEnds(c)
      PROVE  ItemSlots'
  <2>1. \A i \in Items : ds'[i] = ds[i] /\ depth'[i] = depth[i]
    BY <1>t, <1>4 DEF CallEnds, ReleaseAll, runVars
  <2> QED BY <2>1
<1>5. ASSUME NEW t \in Tasks, TakeSlot(t)
      PROVE  ItemSlots'
  BY <1>t, <1>5 DEF TakeSlot, EnsureSlot, Bump, Admit
<1>6. ASSUME NEW t \in Tasks, EnterDone(t) \/ EnterFails(t) \/ Resolve(t)
      PROVE  ItemSlots'
  <2>1. depth' = depth /\ \A i \in Items : ds'[i] = ds[i]
    BY <1>t, <1>6 DEF EnterDone, EnterFails, Resolve, EndCall, queueVars, runVars
  <2> QED BY <2>1
<1>7. ASSUME NEW i \in Items, LeaveItem(i) \/ ItemRuns(i)
      PROVE  ItemSlots'
  BY <1>t, <1>7 DEF LeaveItem, ReleaseSlot, ItemRuns, queueVars
<1>8. ASSUME NEW i \in Items, ItemEnds(i)
      PROVE  ItemSlots'
  BY <1>t, <1>8 DEF ItemEnds, ReleaseAll
<1>9. CASE (ReapChoose \/ \E d \in Datasets : ReapNext(d)) /\ UNCHANGED runVars
  BY <1>9 DEF ReapChoose, ReapNext, runVars
<1>10. CASE UNCHANGED vars
  BY <1>10 DEF vars, queueVars, runVars
<1> QED
  BY <1>1, <1>2, <1>3, <1>4, <1>5, <1>6, <1>7, <1>8, <1>9, <1>10 DEF Next, CallStep

(* A gather that cannot go on waits for an item that waits for a slot. *)
LEMMA StuckGather ==
  ASSUME IInv, \A t \in Tasks : ~CanGoOn(t), NEW c \in Calls, pc[c] = "gather"
  PROVE  \E i \in Kids(c) : pc[i] = "slot"
<1>1. Kids(c) # {}
  BY RunsAssumption DEF CanGoOn
<1>2. PICK i \in Items : parent[i] = c
  BY <1>1 DEF Kids
<1>3. i \in Tasks /\ pc[i] \in ItemPcs /\ pc[i] # "idle"
  BY <1>2, RunsAssumption DEF IInv, RunInv, RunTypes, KidInv
<1>4. pc[i] = "slot"
  BY <1>3 DEF CanGoOn, ItemPcs
<1> QED BY <1>2, <1>4 DEF Kids

LEMMA NobodyIsStuck == IInv /\ ItemSlots => NoCircularWait
<1> SUFFICES ASSUME IInv, ItemSlots,
                    NEW t \in Tasks, pc[t] \in {"lock", "slot", "gather"},
                    \A u \in Tasks : ~CanGoOn(u)
             PROVE  /\ permits = 0
                    /\ \A c \in Tasks, d \in Datasets : depth[c][d] > 0 =>
                         /\ c \in Calls
                         /\ \/ Stays(c, d)
                            \/ pc[c] = "gather" /\ \E i \in Kids(c) : pc[i] = "slot"
  BY DEF NoCircularWait
<1>1. /\ permits \in Nat /\ depth \in [Tasks -> [Datasets -> Nat]]
      /\ Items \subseteq Tasks /\ Calls \subseteq Tasks /\ Tasks = Calls \cup Items
  BY QueueAssumption, RunsAssumption DEF IInv, QueueInv
<1>2. ASSUME NEW c \in Calls, pc[c] = "gather"
      PROVE  \E u \in Tasks : pc[u] = "slot"
  BY <1>1, <1>2, StuckGather DEF Kids
<1>3. ASSUME NEW i \in Items, pc[i] \in {"lock", "gather"}
      PROVE  FALSE
  BY <1>3 DEF IInv, RunInv, RunTypes, ItemPcs
<1>4. \E u \in Tasks : pc[u] = "slot"
  <2>1. CASE pc[t] = "slot" BY <2>1
  <2>2. CASE pc[t] = "gather" BY <1>1, <1>2, <1>3, <2>2
  <2>3. CASE pc[t] = "lock"
    <3>1. t \in Calls /\ ds[t] \in Datasets
      BY <1>1, <1>3, <2>3 DEF IInv, RunInv, RunTypes, CallShape
    <3>2. owner[ds[t]] # NoTask
      BY <2>3 DEF CanGoOn
    <3>3. /\ owner[ds[t]] \in Calls /\ pc[owner[ds[t]]] \in CallPcs
          /\ pc[owner[ds[t]]] \notin {"idle", "lock"}
      BY <3>1, <3>2 DEF IInv, RunInv, RunTypes, LockInv
    <3>4. ~CanGoOn(owner[ds[t]])
      BY <1>1, <3>3
    <3>5. pc[owner[ds[t]]] \in {"slot", "gather"}
      BY <3>3, <3>4 DEF CanGoOn, CallPcs
    <3> QED BY <1>1, <1>2, <3>3, <3>5
  <2> QED BY <2>1, <2>2, <2>3
<1>5. permits = 0
  BY <1>1, <1>4 DEF CanGoOn
<1>6. ASSUME NEW i \in Items, NEW d \in Datasets, depth[i][d] > 0
      PROVE  FALSE
  <2>1. ds[i] = d /\ pc[i] # "idle" /\ pc[i] \in ItemPcs
    BY <1>6, RunsAssumption DEF ItemSlots, IInv, RunInv, RunTypes, ItemShape
  <2>2. ~CanGoOn(i)
    BY <1>1
  <2> QED BY <1>6, <2>1, <2>2 DEF CanGoOn, ItemPcs
<1>7. ASSUME NEW c \in Calls, NEW d \in Datasets, depth[c][d] > 0
      PROVE  \/ Stays(c, d)
             \/ pc[c] = "gather" /\ \E i \in Kids(c) : pc[i] = "slot"
  <2>1. pc[c] \in CallPcs /\ ~CanGoOn(c)
    BY <1>1 DEF IInv, RunInv, RunTypes
  <2>2. pc[c] \in {"idle", "lock", "slot", "gather"}
    BY <2>1 DEF CanGoOn, CallPcs
  <2>3. CASE pc[c] = "idle"
    BY <2>3, RunsAssumption DEF Stays, IInv, RunInv, CallShape
  <2>4. CASE pc[c] = "lock"
    BY <2>4 DEF Stays, IInv, RunInv, CallShape
  <2>5. CASE pc[c] = "slot"
    BY <1>7, <2>1, <2>5 DEF Stays, CanGoOn
  <2>6. CASE pc[c] = "gather"
    BY <2>6, StuckGather
  <2> QED BY <2>2, <2>3, <2>4, <2>5, <2>6
<1> QED BY <1>1, <1>5, <1>6, <1>7

(* When tasks wait and none can go on, the slots are leaked or with calls    *)
(* whose run waits for a slot of its own item: the order "dataset lock ->    *)
(* queue slot" leaves no other deadlock, for any number of calls and slots   *)
(* (dataset_lock.py).                                                        *)
THEOREM LocksAndSlotsDoNotCircle == Spec => []NoCircularWait
<1>1. Init => ItemSlots
  BY RunsAssumption DEF Init, QueueInit, ItemSlots
<1> QED
  BY <1>1, InitHolds, StepHolds, ItemSlotsStep, NobodyIsStuck, PTL DEF Spec

(* With no slot leaked and no run inside an item, some task can always go on *)
(* while one waits.                                                          *)
THEOREM NoDeadlock ==
  Spec => [](\/ \A t \in Tasks : pc[t] \notin {"lock", "slot", "gather"}
             \/ \E t \in Tasks : CanGoOn(t)
             \/ Leaked \/ NestedWait)
<1>1. /\ IInv /\ NoCircularWait /\ ~Leaked /\ ~NestedWait
      /\ \E t \in Tasks : pc[t] \in {"lock", "slot", "gather"}
      => \E t \in Tasks : CanGoOn(t)
  <2> SUFFICES ASSUME IInv, NoCircularWait, ~Leaked, ~NestedWait,
                      \E t \in Tasks : pc[t] \in {"lock", "slot", "gather"},
                      \A t \in Tasks : ~CanGoOn(t)
               PROVE  FALSE
    OBVIOUS
  <2>1. permits = 0 /\ Cardinality(Entries) # 0
    <3>1. permits = 0
      BY DEF NoCircularWait
    <3>2. permits + Cardinality(Entries) = Slots
      BY DEF IInv, QueueInv, SlotsConserved
    <3> QED BY <3>1, <3>2, EntriesFinite, QueueAssumption
  <2>2. Entries # {}
    BY <2>1, FS_EmptySet
  <2>3. PICK c \in Tasks, d \in Datasets : depth[c][d] > 0
    BY <2>2 DEF Entries
  <2>4. /\ c \in Calls
        /\ \/ Stays(c, d)
           \/ \E i \in Kids(c) : pc[i] = "slot"
    BY <2>3 DEF NoCircularWait
  <2>5. Stays(c, d)
    BY <2>4 DEF NestedWait, Kids
  <2> QED
    BY <2>3, <2>4, <2>5 DEF Leaked, Stays
<1>2. IInv /\ NoCircularWait
      => \/ \A t \in Tasks : pc[t] \notin {"lock", "slot", "gather"}
         \/ \E t \in Tasks : CanGoOn(t)
         \/ Leaked \/ NestedWait
  BY <1>1
<1> QED
  BY <1>2, Invariance, LocksAndSlotsDoNotCircle, PTL
=============================================================================
