----------------------- MODULE MigrationRunnerProofs -----------------------
(***************************************************************************)
(* Proofs about the startup migrations, for every set of processes, calls, *)
(* datasets and releases and every chain: types, mutual exclusion, the     *)
(* honesty of the stamps while datasets are upgraded, downgraded, deleted  *)
(* and recreated, and that no call writes into an unmigrated store.        *)
(***************************************************************************)
EXTENDS MigrationRunner, TLAPS

(* A writer has a target; a step is on a row, this side of the run's goal. *)
Positions ==
  /\ \A c \in Writers : pc[c] # "idle" => target[c] \in Datasets
  /\ \A c \in Callers :
       /\ pc[c] \in {"step", "stamp", "audit", "restamp"} => row[c] \in Datasets
       /\ pc[c] = "stamp" => pos[c] < goal[c]
       /\ pc[c] = "restamp" => goal[c] < pos[c]

TypeInv == TypeOK /\ Positions

LEMMA ChainFacts ==
  /\ Chain \subseteq Nat \ {0}
  /\ \A n \in {0} \union Chain : 1..n \subseteq Chain
  /\ \A r \in Releases : HeadOf[r] \in {0} \union Chain
<1>1. \A r \in Releases : HeadOf[r] \in Nat
  BY ReleaseAssumption
<1>2. Chain \subseteq Nat \ {0}
  BY <1>1 DEF Chain
<1>3. \A r \in Releases : 1..HeadOf[r] \subseteq Chain
  BY DEF Chain
<1>4. ASSUME NEW n \in {0} \union Chain, NEW k \in 1..n
      PROVE  k \in Chain
  <2>1. n \in Chain BY <1>2
  <2>2. PICK r \in Releases : n \in 1..HeadOf[r] BY <2>1 DEF Chain
  <2>3. k \in 1..HeadOf[r] BY <1>1, <2>2
  <2> QED BY <1>3, <2>3
<1>5. ASSUME NEW r \in Releases
      PROVE  HeadOf[r] \in {0} \union Chain
  <2>1. CASE HeadOf[r] = 0 BY <2>1
  <2>2. CASE HeadOf[r] # 0
    <3>1. HeadOf[r] \in 1..HeadOf[r] BY <1>1, <2>2
    <3> QED BY <1>3, <3>1
  <2> QED BY <2>1, <2>2
<1> QED BY <1>2, <1>4, <1>5

-----------------------------------------------------------------------------
(* Types.                                                                  *)

LEMMA InitTypes == Init => TypeInv
BY ChainFacts, ReleaseAssumption
   DEF Init, TypeInv, TypeOK, Positions, Places, Callers

LEMMA RunTypes ==
  ASSUME TypeInv, NEW c \in Callers
  PROVE  /\ pos[c] \in Nat /\ goal[c] \in Nat
         /\ pos[c] < goal[c] => pos[c] + 1 \in Chain
         /\ goal[c] < pos[c] => pos[c] - 1 \in {0} \union Chain
<1>1. /\ pos[c] \in {0} \union Chain /\ goal[c] \in {0} \union Chain
      /\ pos[c] \in Nat /\ goal[c] \in Nat
  <2>1. pos[c] \in {0} \union Chain /\ goal[c] \in {0} \union Chain
    BY DEF TypeInv, TypeOK
  <2>2. {0} \union Chain \subseteq Nat BY ChainFacts
  <2> QED BY <2>1, <2>2
<1>2. ASSUME pos[c] < goal[c] PROVE pos[c] + 1 \in Chain
  <2>1. pos[c] + 1 \in 1..goal[c] BY <1>1, <1>2
  <2> QED BY <1>1, <2>1, ChainFacts
<1>3. ASSUME goal[c] < pos[c] PROVE pos[c] - 1 \in {0} \union Chain
  <2>1. pos[c] - 1 \in {0} \union 1..pos[c] BY <1>1, <1>3
  <2> QED BY <1>1, <2>1, ChainFacts
<1> QED BY <1>1, <1>2, <1>3

LEMMA LeaveTypes ==
  ASSUME TypeOK, NEW c \in Callers
  PROVE  /\ EndRun(c) => /\ mode' \in [Callers -> {"up", "down"}]
                         /\ goal' \in [Callers -> {0} \union Chain]
                         /\ changed' \in [Callers -> BOOLEAN]
                         /\ todo' \in [Callers -> SUBSET Datasets]
                         /\ failed' \in [Callers -> SUBSET Datasets]
                         /\ row' \in [Callers -> Datasets \union {NoDataset}]
                         /\ pos' \in [Callers -> {0} \union Chain]
                         /\ \A o \in Callers : o # c => /\ row'[o] = row[o]
                                                        /\ pos'[o] = pos[o]
                                                        /\ goal'[o] = goal[o]
         /\ Leave(c) => EndRun(c) /\ target' \in [Writers -> Datasets \union {NoDataset}]
         /\ ReleaseStartup(c) => startup' \in [Procs -> Writers \union {NoCaller}]
<1> QED BY DEF TypeOK, EndRun, Leave, ReleaseStartup

LEMMA StepTypes == TypeInv /\ [Next]_vars => TypeInv'
<1> SUFFICES ASSUME TypeInv, [Next]_vars PROVE TypeInv'
  OBVIOUS
<1> USE CallerAssumption DEF TypeInv, TypeOK, Positions, Callers, process,
        bookkeeping, stores, plan, tally, visit, run
<1>1. ASSUME NEW c \in Writers, NEW d \in Datasets, Call(c, d) PROVE TypeInv'
  BY <1>1 DEF Call, Goto, Places, Working
<1>2. ASSUME NEW c \in Writers, EnterStartup(c) PROVE TypeInv'
  BY <1>2 DEF EnterStartup, Goto, Places, Working
<1>3. ASSUME NEW c \in Operators, OperatorUpgrade(c) PROVE TypeInv'
  BY <1>3 DEF OperatorUpgrade, Goto, Places, Working
<1>4. ASSUME NEW c \in Operators, NEW to \in {0} \union Chain, OperatorDowngrade(c, to) PROVE TypeInv'
  BY <1>4 DEF OperatorDowngrade, Goto, Places, Working
<1>5. ASSUME NEW c \in Callers, AcquireLock(c) PROVE TypeInv'
  BY <1>5 DEF AcquireLock, Goto, Places, Working
<1>6. ASSUME NEW c \in Callers, RelationalFails(c) PROVE TypeInv'
  BY <1>6 DEF RelationalFails, Leave, EndRun, ReleaseStartup, Goto, Places, Working
<1>7. ASSUME NEW c \in Callers, ReadVersion(c) PROVE TypeInv'
  BY <1>7, ChainFacts DEF ReadVersion, Head, Goto, Places, Working
<1>8. ASSUME NEW c \in Callers, RecordVersion(c) PROVE TypeInv'
  BY <1>8 DEF RecordVersion, Goto, Places, Working
<1>9. ASSUME NEW c \in Callers, BookkeepingFails(c) PROVE TypeInv'
  BY <1>9 DEF BookkeepingFails, Goto, Places, Working
<1>10. ASSUME NEW c \in Callers, NEW d \in Datasets, SkipRow(c, d) PROVE TypeInv'
  BY <1>10 DEF SkipRow
<1>11. ASSUME NEW c \in Callers, NEW d \in Datasets, OpenRow(c, d) PROVE TypeInv'
  BY <1>11 DEF OpenRow, Goto, Places, Working
<1>12. ASSUME NEW c \in Callers, Up(c) PROVE TypeInv'
  <2>1. row[c] \in Datasets BY <1>12 DEF Up
  <2>2. data[row[c]] \union {pos[c] + 1} \in SUBSET Chain
    BY <1>12, <2>1, RunTypes DEF Up
  <2> QED BY <1>12, <2>1, <2>2 DEF Up, SetData, Goto, Places, Working
<1>13. ASSUME NEW c \in Callers, Stamp(c) PROVE TypeInv'
  BY <1>13, RunTypes DEF Stamp, SetStamp, Goto, Places, Working
<1>14. ASSUME NEW c \in Callers, Sync(c) PROVE TypeInv'
  BY <1>14 DEF Sync, Goto, Places, Working
<1>15. ASSUME NEW c \in Callers, FinishRow(c) PROVE TypeInv'
  BY <1>15 DEF FinishRow, PutDown, Goto, Places, Working
<1>16. ASSUME NEW c \in Callers, FailRow(c) PROVE TypeInv'
  <2>1. row[c] \in Datasets BY <1>16 DEF FailRow
  <2> QED BY <1>16, <2>1 DEF FailRow, PutDown, Goto, Places, Working
<1>17. ASSUME NEW c \in Callers, Down(c) PROVE TypeInv'
  BY <1>17 DEF Down, SetData, Goto, Places, Working
<1>18. ASSUME NEW c \in Callers, Restamp(c) PROVE TypeInv'
  BY <1>18, RunTypes DEF Restamp, SetStamp, Goto, Places, Working
<1>19. ASSUME NEW c \in Callers, LeaveRow(c) PROVE TypeInv'
  BY <1>19 DEF LeaveRow, PutDown, Goto, Places, Working
<1>20. ASSUME NEW c \in Callers, ReleaseLock(c) PROVE TypeInv'
  BY <1>20 DEF ReleaseLock, Goto, Places, Working
<1>21. ASSUME NEW c \in Callers, Summarize(c) PROVE TypeInv'
  <2>1. EndRun(c) /\ ReleaseStartup(c) /\ done' \in [Procs -> BOOLEAN]
    BY <1>21, LeaveTypes DEF Summarize
  <2>2. \/ Leave(c) /\ pc' = [pc EXCEPT ![c] = "idle"]
        \/ UNCHANGED target /\ pc' = [pc EXCEPT ![c] = "write"]
    BY <1>21 DEF Summarize, Goto
  <2>3. TypeOK'
    BY <1>21, <2>1, <2>2, LeaveTypes DEF Summarize, Places, Working
  <2>4. Positions'
    <3>1. \A w \in Writers : pc'[w] # "idle" => target'[w] \in Datasets
      BY <1>21, <2>2 DEF Summarize, Leave
    <3>2. \A o \in Callers : o # c => pc'[o] = pc[o]
      BY <2>2
    <3>3. pc'[c] \in {"idle", "write"}
      BY <2>2
    <3> QED BY <2>1, <3>1, <3>2, <3>3, LeaveTypes
  <2> QED BY <2>3, <2>4
<1>22. ASSUME NEW c \in Writers, Write(c) PROVE TypeInv'
  <2>1. Head \in {0} \union Chain /\ 1..Head \subseteq Chain
    BY ChainFacts DEF Head
  <2>2. target[c] \in Datasets
    BY <1>22 DEF Write
  <2>3. Leave(c) /\ EndRun(c) /\ pc' = [pc EXCEPT ![c] = "idle"]
    BY <1>22, LeaveTypes DEF Write, Goto
  <2>4. TypeOK'
    <3>1. /\ rows' \subseteq Datasets
          /\ stamp' \in [Datasets -> {0} \union Chain]
          /\ data' \in [Datasets -> SUBSET Chain]
          /\ schema' \in [Datasets -> Releases \union {NoRelease}]
          /\ UNCHANGED <<recorded, lastError>>
      <4>1. rows' \subseteq Datasets /\ UNCHANGED <<recorded, lastError>>
        BY <1>22, <2>2 DEF Write
      <4>2. stamp' \in [Datasets -> {0} \union Chain]
        BY <1>22, <2>1 DEF Write
      <4>3. data' \in [Datasets -> SUBSET Chain]
        BY <1>22, <2>1 DEF Write
      <4>4. schema' \in [Datasets -> Releases \union {NoRelease}]
        BY <1>22 DEF Write
      <4> QED BY <4>1, <4>2, <4>3, <4>4
    <3>2. pc' \in [Callers -> Places]
      BY <2>3 DEF Places
    <3> QED BY <1>22, <2>3, <3>1, <3>2, LeaveTypes DEF Write
  <2>5. Positions'
    BY <1>22, <2>3, LeaveTypes DEF Leave
  <2> QED BY <2>4, <2>5
<1>23. ASSUME NEW d \in Datasets, Delete(d) PROVE TypeInv'
  BY <1>23 DEF Delete
<1>24. ASSUME NEW p \in Procs, Crash(p) PROVE TypeInv'
  BY <1>24 DEF Crash, Places
<1>25. ASSUME NEW p \in Procs, Stop(p) PROVE TypeInv'
  BY <1>25 DEF Stop
<1>26. ASSUME NEW p \in Procs, Start(p) PROVE TypeInv'
  BY <1>26 DEF Start
<1>27. ASSUME NEW r \in Releases, Deploy(r) PROVE TypeInv'
  BY <1>27 DEF Deploy
<1>28. CASE UNCHANGED vars BY <1>28 DEF vars
<1> QED
  BY <1>1, <1>2, <1>3, <1>4, <1>5, <1>6, <1>7, <1>8, <1>9, <1>10, <1>11, <1>12, <1>13, <1>14, <1>15, <1>16, <1>17, <1>18, <1>19, <1>20, <1>21, <1>22, <1>23, <1>24, <1>25, <1>26, <1>27, <1>28
     DEF Next, Step

(* Type correctness. *)
THEOREM TypeCorrect == Spec => []TypeOK
<1>1. TypeInv => TypeOK BY DEF TypeInv
<1> QED BY InitTypes, StepTypes, <1>1, PTL DEF Spec

-----------------------------------------------------------------------------
(* Mutual exclusion.                                                       *)

(* The steps of a run that holds the lock before and after.                *)
LockedStep(c) ==
  \/ ReadVersion(c) \/ RecordVersion(c) \/ BookkeepingFails(c)
  \/ \E d \in Datasets : SkipRow(c, d) \/ OpenRow(c, d)
  \/ Up(c) \/ Stamp(c) \/ Sync(c) \/ FinishRow(c) \/ FailRow(c)
  \/ Down(c) \/ Restamp(c) \/ LeaveRow(c)

(* The steps of a call outside its run.                                    *)
OutsideStep(c) ==
  \/ c \in Writers /\ \E d \in Datasets : Call(c, d)
  \/ c \in Writers /\ (EnterStartup(c) \/ Write(c))
  \/ c \in Operators /\ OperatorUpgrade(c)
  \/ c \in Operators /\ \E to \in {0} \union Chain : OperatorDowngrade(c, to)
  \/ Summarize(c)

EnvironmentStep ==
  \/ \E d \in Datasets : Delete(d)
  \/ \E p \in Procs : Stop(p) \/ Start(p)
  \/ \E r \in Releases : Deploy(r)

LEMMA NextCases ==
  ASSUME [Next]_vars
  PROVE  \/ \E c \in Callers : \/ LockedStep(c) \/ OutsideStep(c)
                              \/ AcquireLock(c) \/ ReleaseLock(c) \/ RelationalFails(c)
         \/ EnvironmentStep
         \/ \E p \in Procs : Crash(p)
         \/ UNCHANGED vars
BY DEF Next, Step, LockedStep, OutsideStep, EnvironmentStep, Callers

LEMMA LockedMoves ==
  ASSUME TypeOK, NEW c \in Callers, LockedStep(c)
  PROVE  /\ lock' = lock
         /\ pc[c] \in Working
         /\ \A o \in Callers : o # c => pc'[o] = pc[o]
BY DEF LockedStep, TypeOK, ReadVersion, RecordVersion, BookkeepingFails, SkipRow,
       OpenRow, Up, Stamp, Sync, FinishRow, FailRow, Down, Restamp, LeaveRow,
       PutDown, Goto, Working

LEMMA OutsideMoves ==
  ASSUME TypeOK, NEW c \in Callers, OutsideStep(c)
  PROVE  /\ lock' = lock
         /\ pc'[c] \notin Working
         /\ \A o \in Callers : o # c => pc'[o] = pc[o]
BY DEF OutsideStep, TypeOK, Call, EnterStartup, Write, OperatorUpgrade,
       OperatorDowngrade, Summarize, Goto, Working

LEMMA LockStep == TypeInv /\ OneMigrator /\ [Next]_vars => OneMigrator'
<1> SUFFICES ASSUME TypeInv, OneMigrator, [Next]_vars PROVE OneMigrator'
  OBVIOUS
<1> USE CallerAssumption DEF TypeInv, OneMigrator
<1>1. ASSUME NEW c \in Callers, LockedStep(c)
      PROVE  OneMigrator'
  BY <1>1, LockedMoves
<1>2. ASSUME NEW c \in Callers, OutsideStep(c)
      PROVE  OneMigrator'
  BY <1>2, OutsideMoves
<1>3. ASSUME NEW c \in Callers, AcquireLock(c)
      PROVE  OneMigrator'
  BY <1>3 DEF AcquireLock, Goto, TypeOK
<1>4. ASSUME NEW c \in Callers, ReleaseLock(c) \/ RelationalFails(c)
      PROVE  OneMigrator'
  BY <1>4 DEF ReleaseLock, RelationalFails, Goto, TypeOK, Working
<1>5. CASE EnvironmentStep
  BY <1>5 DEF EnvironmentStep, Delete, Stop, Start, Deploy
<1>6. ASSUME NEW p \in Procs, Crash(p)
      PROVE  OneMigrator'
  BY <1>6 DEF Crash, TypeOK, Working
<1>7. CASE UNCHANGED vars
  BY <1>7 DEF vars
<1> QED BY <1>1, <1>2, <1>3, <1>4, <1>5, <1>6, <1>7, NextCases

(* At most one call migrates at a time, whatever processes crash.          *)
THEOREM OneMigrates == Spec => []OneMigrator
<1>1. Init => OneMigrator
  BY DEF Init, OneMigrator, Working
<1> QED BY InitTypes, StepTypes, <1>1, LockStep, PTL DEF Spec

-----------------------------------------------------------------------------
(* What every run has in common.                                           *)

(* A process that is down has no call and no flag; an upgrade works        *)
(* towards the head of the release that is deployed, a downgrade below it. *)
DownIsQuiet ==
  /\ \A c \in Callers : ~up[ProcOf[c]] => pc[c] = "idle"
  /\ \A p \in Procs : ~up[p] => ~done[p]

AimsAtHead ==
  \A c \in Callers :
    mode[c] = "up" /\ pc[c] \in InHand \union {"record", "rows"} => goal[c] = Head

RevertsBelowHead ==
  \A c \in Callers :
    /\ mode[c] = "down" => pc[c] \in {"lock", "rows", "step", "restamp", "summary"}
    /\ pc[c] = "restamp" => mode[c] = "down"
    /\ mode[c] = "down" /\ pc[c] \in {"step", "restamp"} => pos[c] <= Head

RunInv == DownIsQuiet /\ AimsAtHead /\ RevertsBelowHead

LEMMA HeadIsNat == TypeOK => Head \in Nat
BY ReleaseAssumption DEF TypeOK, Head

LEMMA RunStep ==
  ASSUME TypeInv, RunInv, [Next]_vars
  PROVE  RunInv'
<1> USE CallerAssumption DEF TypeInv, TypeOK, RunInv, DownIsQuiet, AimsAtHead,
        RevertsBelowHead, InHand, process, bookkeeping, stores, plan, tally, visit, run
<1>1. ASSUME NEW c \in Callers, LockedStep(c)
      PROVE  RunInv'
  <2>1. CASE ReadVersion(c) BY <2>1 DEF ReadVersion, Goto, Head
  <2>2. CASE RecordVersion(c) \/ BookkeepingFails(c)
    BY <2>2 DEF RecordVersion, BookkeepingFails, Goto, Head
  <2>3. ASSUME NEW d \in Datasets, SkipRow(c, d) \/ OpenRow(c, d)
        PROVE  RunInv'
    BY <2>3 DEF SkipRow, OpenRow, Due, Goto, Head
  <2>4. CASE Up(c) \/ Stamp(c) \/ Sync(c)
    BY <2>4 DEF Up, Stamp, Sync, Goto, Head
  <2>5. CASE FinishRow(c) \/ FailRow(c)
    BY <2>5 DEF FinishRow, FailRow, PutDown, Goto, Head
  <2>6. CASE Down(c) \/ LeaveRow(c)
    BY <2>6 DEF Down, LeaveRow, PutDown, Goto, Head
  <2>7. CASE Restamp(c)
    <3>1. pos[c] \in Nat /\ Head \in Nat
      BY RunTypes, HeadIsNat
    <3> QED BY <2>7, <3>1 DEF Restamp, Goto, Head
  <2> QED BY <1>1, <2>1, <2>2, <2>3, <2>4, <2>5, <2>6, <2>7 DEF LockedStep
<1>2. ASSUME NEW c \in Callers, OutsideStep(c)
      PROVE  RunInv'
  <2>1. CASE c \in Writers /\ \E d \in Datasets : Call(c, d)
    BY <2>1 DEF Call, Goto, Head
  <2>2. CASE EnterStartup(c) \/ OperatorUpgrade(c)
    BY <2>2 DEF EnterStartup, OperatorUpgrade, Goto, Head
  <2>3. CASE \E to \in {0} \union Chain : OperatorDowngrade(c, to)
    BY <2>3 DEF OperatorDowngrade, Goto, Head
  <2>4. CASE Write(c)
    BY <2>4 DEF Write, Leave, EndRun, Goto, Head
  <2>5. CASE Summarize(c)
    <3>1. pc' = [pc EXCEPT ![c] = "idle"] \/ pc' = [pc EXCEPT ![c] = "write"]
      BY <2>5 DEF Summarize, Goto
    <3>2. /\ EndRun(c) /\ UNCHANGED process /\ pc[c] = "summary"
          /\ UNCHANGED done \/ done' = [done EXCEPT ![ProcOf[c]] = TRUE]
      BY <2>5 DEF Summarize, Leave
    <3> QED BY <3>1, <3>2 DEF EndRun, Head
  <2> QED BY <1>2, <2>1, <2>2, <2>3, <2>4, <2>5 DEF OutsideStep
<1>3. ASSUME NEW c \in Callers, AcquireLock(c) \/ ReleaseLock(c)
      PROVE  RunInv'
  BY <1>3 DEF AcquireLock, ReleaseLock, Goto, Head
<1>4. ASSUME NEW c \in Callers, RelationalFails(c)
      PROVE  RunInv'
  BY <1>4 DEF RelationalFails, Leave, EndRun, Goto, Head
<1>5. CASE EnvironmentStep
  <2>1. CASE \E d \in Datasets : Delete(d)
    BY <2>1 DEF Delete, Head
  <2>2. ASSUME NEW p \in Procs, Stop(p) \/ Start(p)
        PROVE  RunInv'
    <3>1. UNCHANGED <<release, pc, mode, goal, pos>>
      BY <2>2 DEF Stop, Start
    <3>2. AimsAtHead' /\ RevertsBelowHead'
      BY <3>1 DEF Head
    <3>3. DownIsQuiet'
      BY <2>2, <3>1 DEF Stop, Start
    <3> QED BY <3>2, <3>3
  <2>3. ASSUME NEW r \in Releases, Deploy(r)
        PROVE  RunInv'
    <3>1. \A c \in Callers : pc[c] = "idle" /\ mode[c] = "up"
      BY <2>3 DEF Deploy
    <3>2. UNCHANGED <<pc, mode, up, done>>
      BY <2>3 DEF Deploy
    <3> QED BY <3>1, <3>2
  <2> QED BY <1>5, <2>1, <2>2, <2>3 DEF EnvironmentStep
<1>6. ASSUME NEW p \in Procs, Crash(p)
      PROVE  RunInv'
  BY <1>6 DEF Crash, Head
<1>7. CASE UNCHANGED vars
  BY <1>7 DEF vars, Head
<1> QED BY <1>1, <1>2, <1>3, <1>4, <1>5, <1>6, <1>7, NextCases

-----------------------------------------------------------------------------
(* No lock is left behind.                                                 *)

LEMMA LockedKeepsLocks ==
  ASSUME TypeInv, NEW c \in Callers, LockedStep(c)
  PROVE  /\ UNCHANGED <<lock, startup, up>>
         /\ pc[c] \in Working /\ pc'[c] \in Working
         /\ \A o \in Callers : o # c => pc'[o] = pc[o]
BY DEF LockedStep, TypeInv, TypeOK, ReadVersion, RecordVersion, BookkeepingFails, SkipRow,
       OpenRow, Up, Stamp, Sync, FinishRow, FailRow, Down, Restamp, LeaveRow,
       PutDown, Goto, Working, process

LEMMA LocksAreReleased ==
  ASSUME TypeInv, RunInv, NoLockLeftBehind, [Next]_vars
  PROVE  NoLockLeftBehind'
<1> USE CallerAssumption DEF NoLockLeftBehind, AtStartup
<1>t. /\ startup \in [Procs -> Writers \union {NoCaller}]
      /\ lock \in Callers \union {NoCaller}
      /\ pc \in [Callers -> Places] /\ up \in [Procs -> BOOLEAN]
      /\ \A c \in Callers : ProcOf[c] \in Procs
      /\ \A c \in Callers : ~up[ProcOf[c]] => pc[c] = "idle"
      /\ Writers \subseteq Callers /\ Operators \subseteq Callers
  BY DEF TypeInv, TypeOK, RunInv, DownIsQuiet, Callers
<1>1. ASSUME NEW c \in Callers, LockedStep(c)
      PROVE  NoLockLeftBehind'
  BY <1>t, <1>1, LockedKeepsLocks
<1>2. ASSUME NEW c \in Callers, OutsideStep(c)
      PROVE  NoLockLeftBehind'
  <2>1. ASSUME \/ \E d \in Datasets : Call(c, d)
               \/ Write(c) \/ OperatorUpgrade(c)
               \/ \E to \in {0} \union Chain : OperatorDowngrade(c, to)
        PROVE  /\ UNCHANGED <<lock, startup, up>>
               /\ pc[c] \in {"idle", "write"}
               /\ \A o \in Callers : o # c => pc'[o] = pc[o]
    BY <1>t, <2>1 DEF Call, Write, OperatorUpgrade, OperatorDowngrade, Goto, process
  <2>2. CASE c \in Writers /\ ((\E d \in Datasets : Call(c, d)) \/ Write(c))
    <3>1. pc'[c] \in {"idle", "write", "startup"}
      BY <1>t, <2>2 DEF Call, Write, Goto
    <3> QED BY <1>t, <2>1, <2>2, <3>1 DEF Working
  <2>3. CASE /\ c \in Operators
             /\ \/ OperatorUpgrade(c)
                \/ \E to \in {0} \union Chain : OperatorDowngrade(c, to)
    <3>1. c \notin Writers BY <2>3
    <3> QED BY <1>t, <2>1, <2>3, <3>1 DEF Working
  <2>4. CASE c \in Writers /\ EnterStartup(c)
    BY <1>t, <2>4 DEF EnterStartup, Goto, Working, process
  <2>5. CASE Summarize(c)
    <3>1. /\ ReleaseStartup(c) /\ UNCHANGED <<lock, up>> /\ pc[c] = "summary"
          /\ pc'[c] \in {"idle", "write"}
          /\ \A o \in Callers : o # c => pc'[o] = pc[o]
      BY <1>t, <2>5 DEF Summarize, Goto, process
    <3> QED BY <1>t, <3>1 DEF ReleaseStartup, Working
  <2> QED BY <1>2, <2>2, <2>3, <2>4, <2>5 DEF OutsideStep
<1>3. ASSUME NEW c \in Callers, AcquireLock(c)
      PROVE  NoLockLeftBehind'
  BY <1>t, <1>3 DEF AcquireLock, Goto, Working, process
<1>4. ASSUME NEW c \in Callers, ReleaseLock(c)
      PROVE  NoLockLeftBehind'
  BY <1>t, <1>4 DEF ReleaseLock, Goto, Working, process
<1>5. ASSUME NEW c \in Callers, RelationalFails(c)
      PROVE  NoLockLeftBehind'
  <2>1. /\ ReleaseStartup(c) /\ lock' = NoCaller /\ up' = up
        /\ pc[c] = "relational" /\ pc'[c] = "idle"
        /\ \A o \in Callers : o # c => pc'[o] = pc[o]
    BY <1>t, <1>5 DEF RelationalFails, Goto, process
  <2> QED BY <1>t, <2>1 DEF ReleaseStartup, Working
<1>6. CASE EnvironmentStep
  <2>1. ASSUME NEW p \in Procs, Stop(p)
        PROVE  NoLockLeftBehind'
    <3>1. /\ up[p] /\ up' = [up EXCEPT ![p] = FALSE] /\ UNCHANGED <<lock, startup, pc>>
          /\ \A c \in Callers : ProcOf[c] = p => pc[c] = "idle"
      BY <2>1 DEF Stop
    <3> QED BY <1>t, <3>1 DEF Working
  <2>2. ASSUME NEW p \in Procs, Start(p)
        PROVE  NoLockLeftBehind'
    BY <1>t, <2>2 DEF Start
  <2>3. CASE (\E d \in Datasets : Delete(d)) \/ (\E r \in Releases : Deploy(r))
    BY <1>t, <2>3 DEF Delete, Deploy, process
  <2> QED BY <1>6, <2>1, <2>2, <2>3 DEF EnvironmentStep
<1>7. ASSUME NEW p \in Procs, Crash(p)
      PROVE  NoLockLeftBehind'
  <2>1. /\ up' = [up EXCEPT ![p] = FALSE]
        /\ startup' = [startup EXCEPT ![p] = NoCaller]
        /\ lock' = IF lock \in {c \in Callers : ProcOf[c] = p} THEN NoCaller ELSE lock
        /\ \A c \in Callers : pc'[c] = IF ProcOf[c] = p THEN "idle" ELSE pc[c]
    BY <1>7 DEF Crash
  <2> QED BY <1>t, <2>1 DEF Working
<1>8. CASE UNCHANGED vars
  BY <1>t, <1>8 DEF vars, process
<1> QED BY <1>1, <1>2, <1>3, <1>4, <1>5, <1>6, <1>7, <1>8, NextCases

(* Whatever raises or dies, the migration lock is never without a run that *)
(* works under it, and a startup lock is with one live writer of its       *)
(* process: the safety that CallsEnd rests on.                             *)
THEOREM LocksAreNotLeftBehind == Spec => []NoLockLeftBehind
<1>1. Init => RunInv /\ NoLockLeftBehind
  BY CallerAssumption
     DEF Init, RunInv, DownIsQuiet, AimsAtHead, RevertsBelowHead, InHand,
         NoLockLeftBehind, AtStartup, Working, Callers
<1>2. TypeInv /\ RunInv /\ [Next]_vars => RunInv'
  BY RunStep
<1>3. TypeInv /\ RunInv /\ NoLockLeftBehind /\ [Next]_vars => NoLockLeftBehind'
  BY LocksAreReleased
<1> QED BY InitTypes, StepTypes, <1>1, <1>2, <1>3, PTL DEF Spec

-----------------------------------------------------------------------------
(* Without downgrades no run reverts.                                      *)
UpgradesOnly == \A c \in Callers : mode[c] = "up" /\ pc[c] # "restamp"
UpgradeInv == UpgradesOnly /\ RunInv

LEMMA UpgradesOnlyStep ==
  ASSUME ~Downgrades, TypeInv, UpgradesOnly, [Next]_vars
  PROVE  UpgradesOnly'
<1> USE DEF TypeInv, TypeOK, UpgradesOnly, run, plan
<1>1. ASSUME NEW c \in Callers, LockedStep(c)
      PROVE  UpgradesOnly'
  BY <1>1 DEF LockedStep, ReadVersion, RecordVersion, BookkeepingFails, SkipRow, OpenRow,
     Up, Stamp, Sync, FinishRow, FailRow, Down, Restamp, LeaveRow, PutDown, Goto
<1>2. ASSUME NEW c \in Callers, OutsideStep(c)
      PROVE  UpgradesOnly'
  BY <1>2 DEF OutsideStep, Call, EnterStartup, OperatorUpgrade, OperatorDowngrade,
     Summarize, Write, Leave, EndRun, Goto
<1>3. ASSUME NEW c \in Callers, AcquireLock(c) \/ ReleaseLock(c) \/ RelationalFails(c)
      PROVE  UpgradesOnly'
  BY <1>3 DEF AcquireLock, ReleaseLock, RelationalFails, Leave, EndRun, Goto
<1>4. CASE EnvironmentStep
  BY <1>4 DEF EnvironmentStep, Delete, Stop, Start, Deploy
<1>5. ASSUME NEW p \in Procs, Crash(p)
      PROVE  UpgradesOnly'
  BY <1>5 DEF Crash
<1>6. CASE UNCHANGED vars
  BY <1>6 DEF vars
<1> QED BY <1>1, <1>2, <1>3, <1>4, <1>5, <1>6, NextCases

LEMMA UpgradeInvariant ==
  ASSUME ~Downgrades
  PROVE  Spec => []UpgradeInv
<1>1. Init => UpgradesOnly /\ RunInv
  BY CallerAssumption
     DEF Init, UpgradesOnly, RunInv, DownIsQuiet, AimsAtHead, RevertsBelowHead, InHand
<1>2. TypeInv /\ UpgradesOnly /\ [Next]_vars => UpgradesOnly'
  BY UpgradesOnlyStep
<1>3. TypeInv /\ RunInv /\ [Next]_vars => RunInv'
  BY RunStep
<1>4. UpgradesOnly /\ RunInv => UpgradeInv
  BY DEF UpgradeInv
<1> QED BY InitTypes, StepTypes, <1>1, <1>2, <1>3, <1>4, PTL DEF Spec

(* Stores only grow: a row that is there after a step either was there     *)
(* with no more migrations, or is new, at the head of the release.         *)
Grown ==
  \A d \in rows' :
    \/ d \in rows /\ data[d] \subseteq data'[d]
    \/ d \notin rows /\ data'[d] = 1..Head /\ stamp'[d] = Head /\ release' = release

LEMMA StoresChange ==
  ASSUME TypeInv, [Next]_vars
  PROVE  Grown \/ \E c \in Callers : Down(c)
<1> USE DEF TypeInv, TypeOK, Grown, stores, bookkeeping, process
<1>1. ASSUME NEW c \in Callers, Up(c)
      PROVE  Grown
  BY <1>1 DEF Up, SetData
<1>2. ASSUME NEW c \in Writers, Write(c)
      PROVE  Grown
  <2>1. target[c] \in Datasets
    BY <1>2 DEF Write, Positions
  <2>2. CASE target[c] \in rows
    BY <1>2, <2>2 DEF Write
  <2>3. CASE target[c] \notin rows
    BY <1>2, <2>1, <2>3 DEF Write
  <2> QED BY <2>2, <2>3
<1>3. ASSUME NEW d \in Datasets, Delete(d)
      PROVE  Grown
  BY <1>3 DEF Delete
<1>5. CASE UNCHANGED <<rows, data>>
  BY <1>5
<1>6. ASSUME NEW c \in Callers, LockedStep(c), ~Up(c), ~Down(c)
      PROVE  UNCHANGED <<rows, data>>
  BY <1>6 DEF LockedStep, ReadVersion, RecordVersion, BookkeepingFails, SkipRow,
     OpenRow, Stamp, Sync, FinishRow, FailRow, Restamp, LeaveRow
<1>7. ASSUME NEW c \in Callers, OutsideStep(c), ~(c \in Writers /\ Write(c))
      PROVE  UNCHANGED <<rows, data>>
  BY <1>7 DEF OutsideStep, Call, EnterStartup, OperatorUpgrade, OperatorDowngrade,
     Summarize
<1>8. ASSUME NEW c \in Callers, AcquireLock(c) \/ ReleaseLock(c) \/ RelationalFails(c)
      PROVE  UNCHANGED <<rows, data>>
  BY <1>8 DEF AcquireLock, ReleaseLock, RelationalFails
<1>9. ASSUME NEW p \in Procs, Stop(p) \/ Start(p) \/ Crash(p)
      PROVE  UNCHANGED <<rows, data>>
  BY <1>9 DEF Stop, Start, Crash
<1>10. ASSUME NEW r \in Releases, Deploy(r)
      PROVE  UNCHANGED <<rows, data>>
  BY <1>10 DEF Deploy
<1>11. CASE UNCHANGED vars
  BY <1>11 DEF vars
<1> QED BY <1>1, <1>2, <1>3, <1>5, <1>6, <1>7, <1>8, <1>9, <1>10, <1>11,
           NextCases DEF EnvironmentStep

LEMMA StoresGrow ==
  ASSUME TypeInv, UpgradesOnly, [Next]_vars
  PROVE  Grown
BY StoresChange DEF Down, UpgradesOnly

-----------------------------------------------------------------------------
(* The stamps are honest.                                                  *)

(* A reverted migration is always restamped: no process dies between       *)
(* down() and its stamp, and that stamp does not raise.                    *)
RevertsComplete == "crash" \notin Faults /\ "restamp" \notin Faults
Recoverable == UpgradesOnly \/ RevertsComplete

(* The row in hand holds every migration up to the revision reached on it, *)
(* the one about to be stamped included, and all of them once finished; a  *)
(* reverted one is the last it lacks.                                      *)
Ready(c) ==
  row[c] \in rows =>
    /\ pc[c] \in InHand => \A k \in 1..Head : k <= pos[c] => k \in data[row[c]]
    /\ pc[c] = "stamp" => pos[c] + 1 \in data[row[c]]
    /\ pc[c] = "audit" => Has(row[c], Head)
    /\ pc[c] = "restamp" => \A k \in 1..Head : k < pos[c] => k \in data[row[c]]

(* Only the row that is being reverted may be stamped too high.            *)
Honest(d) ==
  \/ Has(d, stamp[d])
  \/ \E c \in Callers : pc[c] = "restamp" /\ row[c] = d

RowsReady == \A c \in Callers : Ready(c)
StampInv == RowsReady /\ \A d \in rows : Honest(d)

LEMMA UpgradesAreHonest == UpgradesOnly /\ StampInv => StampIsHonest
BY DEF UpgradesOnly, StampInv, Honest, StampIsHonest

(* A call that does not move keeps its row ready.                          *)
LEMMA ReadyKept ==
  ASSUME TypeInv, Grown, UNCHANGED release, NEW c \in Callers, Ready(c),
         pc'[c] = pc[c], row'[c] = row[c], pos'[c] = pos[c],
         pc[c] = "stamp" => pos[c] < Head
  PROVE  Ready(c)'
<1>1. Head' = Head /\ Head \in Nat
  BY HeadIsNat DEF TypeInv, Head
<1>2. pos[c] \in Nat
  BY RunTypes
<1>3. CASE row[c] \in rows' /\ row[c] \in rows
  <2>1. data[row[c]] \subseteq data'[row[c]]
    BY <1>3 DEF Grown
  <2> QED BY <1>1, <1>3, <2>1 DEF Ready, Has, InHand
<1>4. CASE row[c] \in rows' /\ row[c] \notin rows
  <2>1. data'[row[c]] = 1..Head
    BY <1>4 DEF Grown
  <2> QED BY <1>1, <1>2, <2>1 DEF Ready, Has, InHand
<1>5. CASE row[c] \notin rows'
  BY <1>5 DEF Ready
<1> QED BY <1>3, <1>4, <1>5

(* The calls a step does not move.                                         *)
Still(c) ==
  \A o \in Callers : o # c =>
    /\ pc'[o] = pc[o]
    /\ row'[o] = row[o] /\ pos'[o] = pos[o]
    /\ todo'[o] = todo[o] /\ failed'[o] = failed[o]
    /\ o \in Writers => target'[o] = target[o]

LEMMA OthersStill ==
  ASSUME TypeOK, NEW c \in Callers,
         \/ LockedStep(c) \/ OutsideStep(c) \/ AcquireLock(c) \/ ReleaseLock(c)
         \/ RelationalFails(c)
  PROVE  Still(c) /\ UNCHANGED release
<1> USE DEF TypeOK, Still, process, plan, tally, visit, run
<1>1. CASE LockedStep(c)
  BY <1>1 DEF LockedStep, ReadVersion, RecordVersion, BookkeepingFails, SkipRow,
     OpenRow, Up, Stamp, Sync, FinishRow, FailRow, Down, Restamp, LeaveRow,
     PutDown, Goto
<1>2. CASE OutsideStep(c)
  BY <1>2 DEF OutsideStep, Call, EnterStartup, OperatorUpgrade, OperatorDowngrade,
     Summarize, Write, Leave, EndRun, Goto
<1>3. CASE AcquireLock(c) \/ ReleaseLock(c) \/ RelationalFails(c)
  BY <1>3 DEF AcquireLock, ReleaseLock, RelationalFails, Leave, EndRun, Goto
<1> QED BY <1>1, <1>2, <1>3

(* The call that moves keeps or makes its row ready.                       *)
(* While a call is at work, no other is.                                   *)
LEMMA OnlyMigrator ==
  ASSUME OneMigrator, NEW c \in Callers, pc[c] \in Working
  PROVE  \A o \in Callers : o # c => pc[o] \notin Working
BY DEF OneMigrator

LEMMA MoverReady ==
  ASSUME TypeInv, OneMigrator, RunInv, StampInv, NEW c \in Callers,
         UNCHANGED release,
         \/ LockedStep(c) \/ OutsideStep(c) \/ AcquireLock(c) \/ ReleaseLock(c)
         \/ RelationalFails(c)
  PROVE  Ready(c)'
<1> USE DEF TypeInv, TypeOK
<1>1. Head' = Head /\ Head \in Nat /\ pos[c] \in Nat
  BY HeadIsNat, RunTypes DEF Head
<1>2. CASE pc'[c] \notin InHand \union {"restamp"}
  BY <1>2 DEF Ready, InHand
<1>3. ASSUME NEW d \in Datasets, OpenRow(c, d)
      PROVE  Ready(c)'
  <2>1. row'[c] = d /\ pos'[c] = stamp[d] /\ pc'[c] = "step" /\ UNCHANGED <<rows, data>>
    BY <1>3 DEF OpenRow, Goto, bookkeeping, stores
  <2>2. d \in rows => Has(d, stamp[d])
    <3>1. \A o \in Callers : pc[o] # "restamp"
      BY <1>3, OnlyMigrator DEF OpenRow, Working
    <3> QED BY <3>1 DEF StampInv, Honest
  <2>3. stamp[d] \in Nat
    <3>1. stamp[d] \in {0} \union Chain OBVIOUS
    <3>2. {0} \union Chain \subseteq Nat BY ChainFacts
    <3> QED BY <3>1, <3>2
  <2> QED BY <1>1, <2>1, <2>2, <2>3 DEF Ready, Has, InHand
<1>4. CASE Up(c)
  <2>1. /\ pc[c] = "step" /\ pc'[c] = "stamp" /\ UNCHANGED <<row, pos, rows>>
        /\ row[c] \in rows => data'[row[c]] = data[row[c]] \union {pos[c] + 1}
    BY <1>4 DEF Up, SetData, Goto, bookkeeping, run, visit
  <2> QED BY <1>1, <2>1 DEF Ready, StampInv, RowsReady, InHand
<1>5. CASE Stamp(c)
  <2>1. /\ pc[c] = "stamp" /\ pc'[c] = "step" /\ UNCHANGED <<row, data, rows>>
        /\ pos'[c] = pos[c] + 1
    BY <1>5 DEF Stamp, Goto, stores
  <2> QED BY <1>1, <2>1 DEF Ready, StampInv, RowsReady, InHand
<1>6. CASE Sync(c)
  <2>1. /\ pc[c] = "step" /\ pc'[c] = "audit" /\ UNCHANGED <<row, pos, data, rows>>
        /\ goal[c] <= pos[c] /\ goal[c] = Head
    BY <1>6, RunTypes DEF Sync, Goto, bookkeeping, run, visit, RunInv, AimsAtHead,
       InHand
  <2> QED BY <1>1, <2>1 DEF Ready, Has, StampInv, RowsReady, InHand
<1>7. CASE Down(c)
  <2>1. /\ pc[c] = "step" /\ pc'[c] = "restamp" /\ UNCHANGED <<row, pos, rows>>
        /\ row[c] \in rows => data'[row[c]] = data[row[c]] \ {pos[c]}
    BY <1>7 DEF Down, SetData, Goto, bookkeeping, run, visit
  <2> QED BY <1>1, <2>1 DEF Ready, StampInv, RowsReady, InHand
<1>11. CASE Restamp(c)
  <2>1. /\ pc[c] = "restamp" /\ pc'[c] = "step" /\ UNCHANGED <<row, data, rows>>
        /\ pos'[c] = pos[c] - 1
    BY <1>11 DEF Restamp, Goto, stores
  <2> QED BY <1>1, <2>1 DEF Ready, StampInv, RowsReady, InHand
<1>8. ASSUME NEW d \in Datasets, SkipRow(c, d)
      PROVE  pc'[c] = "rows"
  BY <1>8 DEF SkipRow
<1>9. CASE \/ ReadVersion(c) \/ RecordVersion(c) \/ BookkeepingFails(c)
           \/ FinishRow(c) \/ FailRow(c) \/ LeaveRow(c)
  <2>1. pc'[c] \in {"record", "rows"}
    BY <1>9 DEF ReadVersion, RecordVersion, BookkeepingFails, FinishRow, FailRow,
       LeaveRow, PutDown, Goto
  <2> QED BY <1>2, <2>1 DEF InHand
<1>10. CASE \/ OutsideStep(c) \/ AcquireLock(c) \/ ReleaseLock(c) \/ RelationalFails(c)
  <2>1. pc'[c] \notin InHand \union {"restamp"}
    BY <1>10 DEF OutsideStep, Call, EnterStartup, OperatorUpgrade, OperatorDowngrade,
       Summarize, Write, AcquireLock, ReleaseLock, RelationalFails, Goto, InHand
  <2> QED BY <1>2, <2>1
<1> QED BY <1>2, <1>3, <1>4, <1>5, <1>6, <1>7, <1>8, <1>9, <1>10, <1>11
        DEF LockedStep, InHand

(* Only four steps touch the stamp of a row.                               *)
LEMMA StampChanges ==
  ASSUME TypeInv, [Next]_vars
  PROVE  \/ UNCHANGED stamp
         \/ \E c \in Callers : Stamp(c) \/ Restamp(c)
         \/ \E c \in Writers : Write(c)
         \/ \E d \in Datasets : Delete(d)
<1> USE DEF bookkeeping
<1>1. ASSUME NEW c \in Callers, LockedStep(c), ~Stamp(c), ~Restamp(c)
      PROVE  UNCHANGED stamp
  BY <1>1 DEF LockedStep, ReadVersion, RecordVersion, BookkeepingFails, SkipRow,
     OpenRow, Up, Sync, FinishRow, FailRow, Down, LeaveRow
<1>3. ASSUME NEW c \in Callers, OutsideStep(c), ~(c \in Writers /\ Write(c))
      PROVE  UNCHANGED stamp
  BY <1>3 DEF OutsideStep, Call, EnterStartup, OperatorUpgrade, OperatorDowngrade,
     Summarize
<1>4. ASSUME NEW c \in Callers, AcquireLock(c) \/ ReleaseLock(c) \/ RelationalFails(c)
      PROVE  UNCHANGED stamp
  BY <1>4 DEF AcquireLock, ReleaseLock, RelationalFails
<1>5. ASSUME NEW p \in Procs, Stop(p) \/ Start(p) \/ Crash(p)
      PROVE  UNCHANGED stamp
  BY <1>5 DEF Stop, Start, Crash
<1>6. ASSUME NEW r \in Releases, Deploy(r)
      PROVE  UNCHANGED stamp
  BY <1>6 DEF Deploy
<1>7. CASE UNCHANGED vars
  BY <1>7 DEF vars
<1> QED BY <1>1, <1>3, <1>4, <1>5, <1>6, <1>7, NextCases DEF EnvironmentStep

(* A call in the middle of a reversion comes to its stamp.                 *)
LEMMA RevertStays ==
  ASSUME TypeInv, Recoverable, [Next]_vars, NEW o \in Callers, pc[o] = "restamp", ~Restamp(o)
  PROVE  pc'[o] = "restamp" /\ row'[o] = row[o]
<1>1. RevertsComplete
  BY DEF Recoverable, UpgradesOnly
<1>2. ASSUME NEW c \in Callers, c # o,
             \/ LockedStep(c) \/ OutsideStep(c) \/ AcquireLock(c) \/ ReleaseLock(c)
             \/ RelationalFails(c)
      PROVE  pc'[o] = "restamp" /\ row'[o] = row[o]
  BY <1>2, OthersStill DEF TypeInv, Still
<1>3. ASSUME \/ LockedStep(o) \/ OutsideStep(o) \/ AcquireLock(o) \/ ReleaseLock(o)
             \/ RelationalFails(o)
      PROVE  FALSE
  BY <1>1, <1>3 DEF RevertsComplete, LockedStep, ReadVersion, RecordVersion,
     BookkeepingFails, SkipRow, OpenRow, Up, Stamp, Sync, FinishRow, FailRow, Down,
     LeaveRow, OutsideStep, Call, EnterStartup, OperatorUpgrade, OperatorDowngrade,
     Summarize, Write, AcquireLock, ReleaseLock, RelationalFails
<1>4. CASE EnvironmentStep
  BY <1>4 DEF EnvironmentStep, Delete, Stop, Start, Deploy, run, visit
<1>5. \A p \in Procs : ~Crash(p)
  BY <1>1 DEF Crash, RevertsComplete
<1>6. CASE UNCHANGED vars
  BY <1>6 DEF vars, run, visit
<1> QED BY <1>2, <1>3, <1>4, <1>5, <1>6, NextCases

(* The two stamps say what the stores hold.                                *)
LEMMA StampedIsHonest ==
  ASSUME TypeInv, RunInv, StampInv, NEW c \in Callers, Stamp(c), row[c] \in rows
  PROVE  Has(row[c], stamp[row[c]])'
<1>1. /\ pc[c] = "stamp" /\ row[c] \in Datasets
      /\ UNCHANGED <<row, data>>
      /\ stamp'[row[c]] = pos[c] + 1
  BY DEF Stamp, SetStamp, stores, TypeInv, TypeOK, Positions
<1>2. /\ pos[c] \in Nat /\ Head \in Nat /\ pos[c] < Head
  BY <1>1, RunTypes, HeadIsNat
     DEF TypeInv, TypeOK, Positions, RunInv, AimsAtHead, RevertsBelowHead, InHand
<1>3. /\ \A k \in 1..Head : k <= pos[c] => k \in data[row[c]]
      /\ pos[c] + 1 \in data[row[c]]
  BY <1>1 DEF StampInv, RowsReady, Ready, InHand
<1> QED BY <1>1, <1>2, <1>3 DEF Has

LEMMA RestampedIsHonest ==
  ASSUME TypeInv, RunInv, StampInv, NEW c \in Callers, Restamp(c), row[c] \in rows
  PROVE  Has(row[c], stamp[row[c]])'
<1>1. /\ pc[c] = "restamp" /\ row[c] \in Datasets
      /\ UNCHANGED <<row, data>>
      /\ stamp'[row[c]] = pos[c] - 1
  BY DEF Restamp, SetStamp, stores, TypeInv, TypeOK, Positions
<1>2. /\ pos[c] \in Nat /\ Head \in Nat /\ pos[c] <= Head
  BY <1>1, RunTypes, HeadIsNat DEF TypeInv, RunInv, RevertsBelowHead
<1>3. \A k \in 1..Head : k < pos[c] => k \in data[row[c]]
  BY <1>1 DEF StampInv, RowsReady, Ready
<1> QED BY <1>1, <1>2, <1>3 DEF Has

LEMMA HonestStep ==
  ASSUME TypeInv, OneMigrator, RunInv, Recoverable, StampInv, [Next]_vars,
         NEW d \in rows'
  PROVE  Honest(d)'
<1>1. ASSUME NEW c \in Callers, Stamp(c) \/ Restamp(c), row[c] = d
      PROVE  Honest(d)'
  <2>1. row[c] \in rows
    BY <1>1 DEF Stamp, Restamp
  <2>2. row'[c] = row[c]
    BY <1>1 DEF Stamp, Restamp
  <2> QED BY <1>1, <2>1, <2>2, StampedIsHonest, RestampedIsHonest DEF Honest
<1>2. ASSUME d \in rows, stamp'[d] = stamp[d], data[d] \subseteq data'[d],
             \A c \in Callers : ~(Restamp(c) /\ row[c] = d)
      PROVE  Honest(d)'
  <2>1. CASE Has(d, stamp[d])
    BY <1>2, <2>1 DEF Honest, Has
  <2>2. ASSUME NEW o \in Callers, pc[o] = "restamp", row[o] = d
        PROVE  Honest(d)'
    BY <1>2, <2>2, RevertStays DEF Honest
  <2> QED BY <1>2, <2>1, <2>2 DEF StampInv, Honest
<1>3. ASSUME NEW c \in Callers, Down(c)
      PROVE  Honest(d)'
  <2>1. /\ pc[c] = "step" /\ pc'[c] = "restamp"
        /\ UNCHANGED <<row, rows, stamp>>
        /\ d # row[c] => data'[d] = data[d]
    BY <1>3 DEF Down, SetData, Goto, bookkeeping, run, visit, TypeInv, TypeOK
  <2>2. CASE d = row[c]
    BY <2>1, <2>2 DEF Honest
  <2>3. CASE d # row[c]
    <3>1. \A o \in Callers : ~Restamp(o)
      BY <2>1, OnlyMigrator DEF Restamp, Working
    <3> QED BY <1>2, <2>1, <2>3, <3>1
  <2> QED BY <2>2, <2>3
<1>4. CASE Grown
  <2>1. CASE d \notin rows
    BY <1>4, <2>1 DEF Grown, Has, Honest
  <2>2. CASE d \in rows /\ stamp'[d] = stamp[d]
    BY <1>1, <1>2, <1>4, <2>2 DEF Grown
  <2>3. CASE d \in rows /\ stamp'[d] # stamp[d]
    <3>1. ASSUME NEW c \in Writers, Write(c)
          PROVE  FALSE
      <4>1. target[c] \in Datasets
        BY <3>1 DEF Write, TypeInv, Positions
      <4> QED BY <2>3, <3>1, <4>1 DEF Write, TypeInv, TypeOK, bookkeeping
    <3>2. ASSUME NEW e \in Datasets, Delete(e)
          PROVE  FALSE
      BY <2>3, <3>2 DEF Delete, TypeInv, TypeOK
    <3>3. PICK c \in Callers : Stamp(c) \/ Restamp(c)
      BY <2>3, <3>1, <3>2, StampChanges
    <3>4. row[c] = d
      BY <2>3, <3>3 DEF Stamp, Restamp, SetStamp, TypeInv, TypeOK
    <3> QED BY <1>1, <3>3, <3>4
  <2> QED BY <2>1, <2>2, <2>3
<1> QED BY <1>3, <1>4, StoresChange

(* A release changes only while nobody has a row in hand.                  *)
LEMMA ReadyStep ==
  ASSUME TypeInv, OneMigrator, RunInv, StampInv, [Next]_vars
  PROVE  RowsReady'
<1> SUFFICES ASSUME NEW o \in Callers PROVE Ready(o)'
  BY DEF RowsReady
<1>1. ASSUME pc'[o] \notin InHand \union {"restamp"}
      PROVE  Ready(o)'
  BY <1>1 DEF Ready, InHand
<1>2. Ready(o) /\ (pc[o] = "stamp" => pos[o] < Head)
  BY DEF StampInv, RowsReady, TypeInv, TypeOK, Positions, RunInv, AimsAtHead,
     RevertsBelowHead, InHand
<1>3. ASSUME UNCHANGED release, pc'[o] = pc[o], row'[o] = row[o], pos'[o] = pos[o]
      PROVE  Ready(o)'
  <2>1. CASE Grown
    BY <1>2, <1>3, <2>1, ReadyKept
  <2>2. ASSUME NEW c \in Callers, Down(c)
        PROVE  pc'[o] \notin InHand \union {"restamp"}
    <3>1. pc[c] = "step" /\ pc'[c] = "restamp"
      BY <2>2 DEF Down, Goto, TypeInv, TypeOK
    <3>2. o # c
      BY <1>3, <3>1
    <3> QED BY <1>3, <3>1, <3>2, OnlyMigrator DEF Working, InHand
  <2> QED BY <1>1, <2>1, <2>2, StoresChange
<1>4. ASSUME NEW c \in Callers,
             \/ LockedStep(c) \/ OutsideStep(c) \/ AcquireLock(c) \/ ReleaseLock(c)
             \/ RelationalFails(c)
      PROVE  Ready(o)'
  <2>1. Still(c) /\ UNCHANGED release
    BY <1>4, OthersStill DEF TypeInv
  <2>2. CASE o = c
    BY <1>4, <2>1, <2>2, MoverReady
  <2>3. CASE o # c
    BY <1>3, <2>1, <2>3 DEF Still
  <2> QED BY <2>2, <2>3
<1>5. ASSUME NEW r \in Releases, Deploy(r)
      PROVE  Ready(o)'
  <2>1. pc'[o] = "idle"
    BY <1>5, CallerAssumption DEF Deploy, RunInv, DownIsQuiet
  <2> QED BY <1>1, <2>1 DEF InHand
<1>6. CASE EnvironmentStep
  BY <1>3, <1>5, <1>6 DEF EnvironmentStep, Delete, Stop, Start, process, run, visit
<1>7. ASSUME NEW p \in Procs, Crash(p)
      PROVE  Ready(o)'
  <2>1. CASE ProcOf[o] = p
    BY <1>1, <1>7, <2>1 DEF Crash, InHand
  <2>2. CASE ProcOf[o] # p
    BY <1>3, <1>7, <2>2 DEF Crash
  <2> QED BY <2>1, <2>2
<1>8. CASE UNCHANGED vars
  BY <1>3, <1>8 DEF vars, process, run, visit
<1> QED BY <1>4, <1>6, <1>7, <1>8, NextCases

LEMMA StampInvariant ==
  ASSUME ~Downgrades \/ RevertsComplete
  PROVE  Spec => [](TypeInv /\ OneMigrator /\ RunInv /\ StampInv)
<1>1. Init => OneMigrator /\ RunInv /\ Recoverable /\ StampInv
  <2> SUFFICES ASSUME Init PROVE OneMigrator /\ RunInv /\ Recoverable /\ StampInv
    OBVIOUS
  <2>1. \A c \in Callers : pc[c] = "idle" /\ mode[c] = "up"
    BY DEF Init
  <2>2. OneMigrator /\ RunInv /\ Recoverable
    BY <2>1, CallerAssumption
       DEF Init, OneMigrator, Working, RunInv, DownIsQuiet, AimsAtHead,
           RevertsBelowHead, InHand, Recoverable, UpgradesOnly
  <2>3. RowsReady
    BY <2>1 DEF RowsReady, Ready, InHand
  <2>4. \A d \in rows : Honest(d)
    BY DEF Init, Honest, Has
  <2> QED BY <2>2, <2>3, <2>4 DEF StampInv
<1>2. TypeInv /\ Recoverable /\ [Next]_vars => Recoverable'
  BY UpgradesOnlyStep DEF Recoverable, RevertsComplete
<1>3. TypeInv /\ OneMigrator /\ [Next]_vars => OneMigrator'
  BY LockStep
<1>4. TypeInv /\ RunInv /\ [Next]_vars => RunInv'
  BY RunStep
<1>5. TypeInv /\ OneMigrator /\ RunInv /\ Recoverable /\ StampInv /\ [Next]_vars
        => StampInv'
  BY HonestStep, ReadyStep DEF StampInv
<1> QED BY InitTypes, StepTypes, <1>1, <1>2, <1>3, <1>4, <1>5, PTL DEF Spec

(* With no migration under way a row never names a migration whose data    *)
(* was reverted, however downgrades, upgrades, deletions, rollbacks of the *)
(* release and failing steps follow each other, as long as no process dies *)
(* and no stamp raises between a down() and its stamp.                     *)
THEOREM RevertedAreUnstamped ==
  ASSUME "crash" \notin Faults, "restamp" \notin Faults
  PROVE  Spec => []RevertedIsUnstamped
<1>1. TypeInv /\ OneMigrator /\ RunInv /\ StampInv => RevertedIsUnstamped
  BY CallerAssumption
     DEF OneMigrator, Working, StampInv, Honest, RevertedIsUnstamped, StampIsHonest
<1>2. Spec => [](TypeInv /\ OneMigrator /\ RunInv /\ StampInv)
  BY StampInvariant DEF RevertsComplete
<1> QED BY <1>1, <1>2, PTL

(* Without downgrades no stamp promises more than the stores hold,         *)
(* whatever crashes, raises, is deleted or rolled back.                    *)
THEOREM StampsAreHonest ==
  ASSUME ~Downgrades
  PROVE  Spec => []StampIsHonest
<1>1. UpgradeInv /\ StampInv => StampIsHonest
  BY UpgradesAreHonest DEF UpgradeInv
<1>2. Spec => [](TypeInv /\ OneMigrator /\ RunInv /\ StampInv)
  BY StampInvariant
<1> QED BY <1>1, <1>2, UpgradeInvariant, PTL

(* A migration only runs on stores that every earlier migration has        *)
(* transformed, if reversions complete or there are none.                  *)
THEOREM UpsAreOrdered ==
  ASSUME ~Downgrades \/ ("crash" \notin Faults /\ "restamp" \notin Faults)
  PROVE  Spec => []UpOnPrepared
<1>1. TypeInv /\ OneMigrator /\ RunInv /\ StampInv => UpOnPrepared
  <2> SUFFICES ASSUME TypeInv, RunInv, StampInv, NEW c \in Callers,
                      pc[c] = "step", mode[c] = "up", pos[c] < goal[c], row[c] \in rows
               PROVE  Has(row[c], pos[c])
    BY DEF UpOnPrepared
  <2>1. pos[c] \in Nat /\ Head \in Nat /\ goal[c] = Head
    BY RunTypes, HeadIsNat DEF TypeInv, RunInv, AimsAtHead, InHand
  <2> QED BY <2>1 DEF StampInv, RowsReady, Ready, InHand, Has
<1>2. Spec => [](TypeInv /\ OneMigrator /\ RunInv /\ StampInv)
  BY StampInvariant DEF RevertsComplete
<1> QED BY <1>1, <1>2, PTL

-----------------------------------------------------------------------------
(* Without downgrades and with readable bookkeeping: nothing is written    *)
(* into an unmigrated store.                                               *)

Listed == InHand \union {"rows", "summary"}

Covered(c) ==
  pc[c] \in Listed =>
    \A d \in rows :
      \/ d \in todo[c] \union failed[c]
      \/ pc[c] \in InHand /\ d = row[c]
      \/ Has(d, Head)

Migrated(c) == pc[c] = "write" /\ target[c] \in rows => Has(target[c], Head)

CoverInv ==
  /\ \A c \in Callers : Covered(c) /\ (pc[c] = "summary" => todo[c] = {})
  /\ \A c \in Writers : Migrated(c)
  /\ DoneIsMigrated

(* What is at head stays at head, and what appears is at head.             *)
LEMMA HeadKept ==
  ASSUME TypeInv, Grown, UNCHANGED release, NEW d \in rows',
         d \in rows => Has(d, Head)
  PROVE  Has(d, Head)'
BY DEF Grown, Has, Head

LEMMA CoveredKept ==
  ASSUME TypeInv, Grown, UNCHANGED release, NEW c \in Callers, Covered(c),
         pc[c] \in Listed, pc'[c] \in Listed,
         \A d \in rows : d \in todo[c] => d \in todo'[c] \union failed'[c] \/ Has(d, Head)
                                          \/ (pc'[c] \in InHand /\ d = row'[c]),
         \A d \in rows : d \in failed[c] => d \in failed'[c],
         \A d \in rows : pc[c] \in InHand /\ d = row[c] =>
            \/ pc'[c] \in InHand /\ d = row'[c]
            \/ d \in failed'[c]
            \/ Has(d, Head)
  PROVE  Covered(c)'
<1> SUFFICES ASSUME NEW d \in rows'
             PROVE  \/ d \in todo'[c] \union failed'[c]
                    \/ pc'[c] \in InHand /\ d = row'[c]
                    \/ Has(d, Head)'
  BY DEF Covered, InHand
<1> QED BY HeadKept DEF Covered

(* The call that moves keeps every row covered.                            *)
LEMMA MoverCovered ==
  ASSUME "bookkeeping" \notin Faults, TypeInv, UpgradeInv, StampInv, CoverInv, Grown,
         NEW c \in Callers, UNCHANGED release,
         \/ LockedStep(c) \/ OutsideStep(c) \/ AcquireLock(c) \/ ReleaseLock(c)
         \/ RelationalFails(c)
  PROVE  Covered(c)'
<1> USE DEF TypeInv, TypeOK
<1>1. /\ Covered(c) /\ Ready(c)
      /\ Head \in Nat /\ pos[c] \in Nat
  BY HeadIsNat, RunTypes DEF CoverInv, StampInv, RowsReady
<1>2. CASE pc'[c] \notin Listed
  BY <1>2 DEF Covered
<1>3. CASE RecordVersion(c)
  BY <1>3 DEF RecordVersion, Covered
<1>4. ASSUME NEW d \in Datasets, SkipRow(c, d)
      PROVE  Covered(c)'
  <2>1. d \in rows => Has(d, Head)
    <3>1. SUFFICES ASSUME d \in rows PROVE Has(d, Head)
      OBVIOUS
    <3>2. Head <= stamp[d]
      <4>1. ~(stamp[d] < Head)
        BY <1>4, <3>1 DEF SkipRow, Due, Pending, UpgradeInv, UpgradesOnly
      <4>2. stamp[d] \in {0} \union Chain OBVIOUS
      <4>3. {0} \union Chain \subseteq Nat BY ChainFacts
      <4> QED BY <1>1, <4>1, <4>2, <4>3
    <3>3. stamp[d] \in {0} \union Chain OBVIOUS
    <3>4. {0} \union Chain \subseteq Nat BY ChainFacts
    <3>5. Has(d, stamp[d])
      BY <3>1, UpgradesAreHonest DEF UpgradeInv, StampIsHonest
    <3> QED BY <1>1, <3>2, <3>3, <3>4, <3>5 DEF Has
  <2>2. /\ pc[c] = "rows" /\ pc'[c] = "rows" /\ UNCHANGED failed
        /\ todo'[c] = todo[c] \ {d}
    BY <1>4 DEF SkipRow
  <2> QED BY <1>1, <2>1, <2>2, CoveredKept DEF Listed, InHand
<1>5. ASSUME NEW d \in Datasets, OpenRow(c, d)
      PROVE  Covered(c)'
  <2>1. /\ pc[c] = "rows" /\ pc'[c] = "step" /\ UNCHANGED failed
        /\ todo'[c] = todo[c] \ {d} /\ row'[c] = d
    BY <1>5 DEF OpenRow, Goto
  <2> QED BY <1>1, <2>1, CoveredKept DEF Listed, InHand
<1>6. CASE Up(c) \/ Stamp(c) \/ Sync(c)
  <2>1. /\ pc[c] \in InHand /\ pc'[c] \in InHand /\ UNCHANGED <<todo, failed, row>>
    BY <1>6 DEF Up, Stamp, Sync, Goto, InHand, run, tally, visit
  <2> QED BY <1>1, <2>1, CoveredKept DEF Listed
<1>7. CASE FinishRow(c)
  <2>1. /\ pc[c] \in InHand /\ pc'[c] = "rows" /\ UNCHANGED <<todo, failed>>
    BY <1>7 DEF FinishRow, PutDown, Goto, InHand, tally
  <2>2. row[c] \in rows => Has(row[c], Head)
    <3>1. CASE pc[c] = "audit"
      BY <1>1, <3>1 DEF Ready, InHand
    <3>2. CASE pc[c] = "step" /\ pos[c] >= goal[c]
      <4>1. goal[c] = Head
        BY <3>2 DEF UpgradeInv, UpgradesOnly, RunInv, AimsAtHead, InHand
      <4> QED BY <1>1, <3>2, <4>1 DEF Ready, Has, InHand
    <3> QED BY <1>7, <3>1, <3>2 DEF FinishRow
  <2> QED BY <1>1, <2>1, <2>2, CoveredKept DEF Listed, InHand
<1>8. CASE FailRow(c)
  <2>1. /\ pc[c] \in InHand /\ pc'[c] = "rows" /\ UNCHANGED todo
        /\ failed'[c] = failed[c] \union {row[c]}
    BY <1>8 DEF FailRow, PutDown, Goto, InHand
  <2> QED BY <1>1, <2>1, CoveredKept DEF Listed, InHand
<1>9. CASE Down(c) \/ Restamp(c) \/ LeaveRow(c)
  BY <1>9 DEF Down, Restamp, LeaveRow, UpgradeInv, UpgradesOnly
<1>10. CASE ReleaseLock(c)
  <2>1. /\ pc[c] = "rows" /\ pc'[c] = "summary" /\ UNCHANGED <<todo, failed>>
    BY <1>10 DEF ReleaseLock, Goto, run, tally
  <2> QED BY <1>1, <2>1, CoveredKept DEF Listed, InHand
<1>11. CASE AcquireLock(c)
  <2>1. pc'[c] = "relational"
    BY <1>11 DEF AcquireLock, Goto, UpgradeInv, UpgradesOnly
  <2> QED BY <1>2, <2>1 DEF Listed, InHand
<1>12. CASE ReadVersion(c) \/ RelationalFails(c) \/ OutsideStep(c)
  <2>1. pc'[c] \notin Listed
    BY <1>12 DEF ReadVersion, RelationalFails, OutsideStep, Call, EnterStartup,
       OperatorUpgrade, OperatorDowngrade, Summarize, Write, Goto, Listed, InHand
  <2> QED BY <1>2, <2>1
<1>13. ~BookkeepingFails(c)
  BY DEF BookkeepingFails
<1> QED BY <1>3, <1>4, <1>5, <1>6, <1>7, <1>8, <1>9, <1>10, <1>11, <1>12, <1>13
        DEF LockedStep

LEMMA CoverStep ==
  ASSUME "bookkeeping" \notin Faults, TypeInv, UpgradeInv, StampInv, CoverInv,
         [Next]_vars
  PROVE  \A o \in Callers : Covered(o)' /\ (pc'[o] = "summary" => todo'[o] = {})
<1>1. Grown
  BY StoresGrow DEF UpgradeInv
<1> SUFFICES ASSUME NEW o \in Callers
             PROVE  Covered(o)' /\ (pc'[o] = "summary" => todo'[o] = {})
  OBVIOUS
<1>2. Covered(o) /\ (pc[o] = "summary" => todo[o] = {})
  BY DEF CoverInv
<1>3. ASSUME UNCHANGED release, pc'[o] = pc[o], row'[o] = row[o], todo'[o] = todo[o],
             failed'[o] = failed[o]
      PROVE  Covered(o)' /\ (pc'[o] = "summary" => todo'[o] = {})
  <2>1. CASE pc[o] \in Listed
    BY <1>1, <1>2, <1>3, <2>1, CoveredKept
  <2>2. CASE pc[o] \notin Listed
    BY <1>2, <1>3, <2>2 DEF Covered
  <2> QED BY <1>2, <1>3, <2>1, <2>2
<1>4. ASSUME pc'[o] = "idle"
      PROVE  Covered(o)' /\ (pc'[o] = "summary" => todo'[o] = {})
  BY <1>4 DEF Covered, Listed, InHand
<1>5. ASSUME NEW c \in Callers,
             \/ LockedStep(c) \/ OutsideStep(c) \/ AcquireLock(c) \/ ReleaseLock(c)
             \/ RelationalFails(c)
      PROVE  Covered(o)' /\ (pc'[o] = "summary" => todo'[o] = {})
  <2>1. Still(c) /\ UNCHANGED release
    BY <1>5, OthersStill DEF TypeInv
  <2>2. CASE o # c
    BY <1>3, <2>1, <2>2 DEF Still
  <2>3. CASE o = c
    <3>1. Covered(o)'
      BY <1>1, <1>5, <2>1, <2>3, MoverCovered
    <3>2. pc'[c] = "summary" => todo'[c] = {}
      <4>1. CASE ReleaseLock(c)
        BY <4>1 DEF ReleaseLock, run, tally
      <4>2. CASE ~ReleaseLock(c)
        <5>1. pc'[c] # "summary"
          BY <1>5, <4>2 DEF LockedStep, ReadVersion, RecordVersion, BookkeepingFails,
             SkipRow, OpenRow, Up, Stamp, Sync, FinishRow, FailRow, Down, Restamp,
             LeaveRow, PutDown, OutsideStep, Call, EnterStartup, OperatorUpgrade,
             OperatorDowngrade, Summarize, Write, AcquireLock, RelationalFails, Goto,
             TypeInv, TypeOK
        <5> QED BY <5>1
      <4> QED BY <4>1, <4>2
    <3> QED BY <2>3, <3>1, <3>2
  <2> QED BY <2>2, <2>3
<1>6. ASSUME NEW r \in Releases, Deploy(r)
      PROVE  pc'[o] = "idle"
  BY <1>6, CallerAssumption DEF Deploy, UpgradeInv, RunInv, DownIsQuiet
<1>7. CASE EnvironmentStep
  BY <1>3, <1>4, <1>6, <1>7
     DEF EnvironmentStep, Delete, Stop, Start, process, run, visit, tally
<1>8. ASSUME NEW p \in Procs, Crash(p)
      PROVE  Covered(o)' /\ (pc'[o] = "summary" => todo'[o] = {})
  <2>1. CASE ProcOf[o] = p
    BY <1>4, <1>8, <2>1 DEF Crash
  <2>2. CASE ProcOf[o] # p
    BY <1>3, <1>8, <2>2 DEF Crash
  <2> QED BY <2>1, <2>2
<1>9. CASE UNCHANGED vars
  BY <1>3, <1>9 DEF vars, process, run, visit, tally
<1> QED BY <1>5, <1>7, <1>8, <1>9, NextCases

(* Only a clean run of a writer sets the flag of its process.              *)
LEMMA DoneChanges ==
  ASSUME TypeInv, [Next]_vars, NEW p \in Procs, done'[p], ~done[p]
  PROVE  \E c \in Writers : Summarize(c) /\ failed[c] = {}
<1> USE CallerAssumption DEF TypeInv, TypeOK
<1>1. ASSUME NEW c \in Callers, LockedStep(c)
      PROVE  FALSE
  BY <1>1 DEF LockedStep, ReadVersion, RecordVersion, BookkeepingFails, SkipRow,
     OpenRow, Up, Stamp, Sync, FinishRow, FailRow, Down, Restamp, LeaveRow
<1>2. ASSUME NEW c \in Callers, OutsideStep(c)
      PROVE  Summarize(c)
  BY <1>2 DEF OutsideStep, Call, EnterStartup, OperatorUpgrade, OperatorDowngrade,
     Write
<1>3. ASSUME NEW c \in Callers, Summarize(c)
      PROVE  c \in Writers /\ failed[c] = {}
  BY <1>3 DEF Summarize
<1>4. ASSUME NEW c \in Callers, AcquireLock(c) \/ ReleaseLock(c) \/ RelationalFails(c)
      PROVE  FALSE
  BY <1>4 DEF AcquireLock, ReleaseLock, RelationalFails
<1>5. CASE EnvironmentStep
  BY <1>5 DEF EnvironmentStep, Delete, Stop, Start, Deploy
<1>6. ASSUME NEW q \in Procs, Crash(q)
      PROVE  FALSE
  BY <1>6 DEF Crash
<1>7. CASE UNCHANGED vars
  BY <1>7 DEF vars
<1> QED BY <1>1, <1>2, <1>3, <1>4, <1>5, <1>6, <1>7, NextCases

(* A new release finds every call idle and every flag down.                *)
LEMMA ReleaseChanges ==
  ASSUME TypeInv, UpgradeInv, [Next]_vars, release' # release
  PROVE  /\ \A c \in Callers : pc'[c] = "idle"
         /\ \A p \in Procs : ~done'[p]
<1>1. ASSUME NEW r \in Releases, Deploy(r)
      PROVE  /\ \A c \in Callers : pc'[c] = "idle"
             /\ \A p \in Procs : ~done'[p]
  BY <1>1, CallerAssumption DEF Deploy, UpgradeInv, RunInv, DownIsQuiet
<1>2. \A c \in Callers :
         ~(\/ LockedStep(c) \/ OutsideStep(c) \/ AcquireLock(c) \/ ReleaseLock(c)
           \/ RelationalFails(c))
  BY OthersStill DEF TypeInv
<1>3. ASSUME NEW d \in Datasets, Delete(d)
      PROVE  FALSE
  BY <1>3 DEF Delete, process
<1>4. ASSUME NEW p \in Procs, Stop(p) \/ Start(p) \/ Crash(p)
      PROVE  FALSE
  BY <1>4 DEF Stop, Start, Crash
<1>5. CASE UNCHANGED vars
  BY <1>5 DEF vars, process
<1> QED BY <1>1, <1>2, <1>3, <1>4, <1>5, NextCases DEF EnvironmentStep

(* A clean run leaves every row at head.                                   *)
LEMMA CleanRun ==
  ASSUME CoverInv, NEW c \in Callers, pc[c] = "summary", NEW d \in rows, d \notin failed[c]
  PROVE  Has(d, Head)
BY DEF CoverInv, Covered, Listed, InHand

LEMMA DoneStep ==
  ASSUME TypeInv, UpgradeInv, CoverInv, [Next]_vars
  PROVE  DoneIsMigrated'
<1>1. Grown
  BY StoresGrow DEF UpgradeInv
<1> SUFFICES ASSUME NEW p \in Procs, done'[p], NEW d \in rows'
             PROVE  Has(d, Head)'
  BY DEF DoneIsMigrated
<1>2. UNCHANGED release
  BY ReleaseChanges
<1>3. d \in rows => Has(d, Head)
  <2>1. CASE done[p]
    BY <2>1 DEF CoverInv, DoneIsMigrated
  <2>2. CASE ~done[p]
    <3>1. PICK c \in Writers : Summarize(c) /\ failed[c] = {}
      BY <2>2, DoneChanges
    <3>2. c \in Callers /\ pc[c] = "summary"
      BY <3>1 DEF Summarize, Callers
    <3> QED BY <3>1, <3>2, CleanRun
  <2> QED BY <2>1, <2>2
<1> QED BY <1>1, <1>2, <1>3, HeadKept

LEMMA WriterStep ==
  ASSUME TypeInv, UpgradeInv, CoverInv, [Next]_vars
  PROVE  \A w \in Writers : Migrated(w)'
<1>1. Grown
  BY StoresGrow DEF UpgradeInv
<1> SUFFICES ASSUME NEW w \in Writers, pc'[w] = "write", target'[w] \in rows'
             PROVE  Has(target[w], Head)'
  BY DEF Migrated
<1> USE DEF TypeInv, TypeOK
<1>2. UNCHANGED release /\ w \in Callers
  BY ReleaseChanges DEF Callers
<1>3. ASSUME target[w] \in rows => Has(target[w], Head), target'[w] = target[w]
      PROVE  Has(target[w], Head)'
  <2>1. Head' = Head BY <1>2 DEF Head
  <2>2. 1..Head \subseteq data'[target[w]]
    <3>1. CASE target[w] \in rows BY <1>1, <1>3, <3>1 DEF Grown, Has
    <3>2. CASE target[w] \notin rows BY <1>1, <1>3, <3>2 DEF Grown
    <3> QED BY <3>1, <3>2
  <2> QED BY <1>3, <2>1, <2>2 DEF Has
<1>4. ASSUME pc[w] = "write", target'[w] = target[w]
      PROVE  Has(target[w], Head)'
  BY <1>3, <1>4 DEF CoverInv, Migrated
<1>5. ASSUME done[ProcOf[w]]
      PROVE  \A d \in rows : Has(d, Head)
  BY <1>2, <1>5, CallerAssumption DEF CoverInv, DoneIsMigrated
<1>6. ASSUME NEW d \in Datasets, Call(w, d)
      PROVE  Has(target[w], Head)'
  <2>1. target'[w] = d /\ done[ProcOf[w]] /\ UNCHANGED <<data, rows>>
    BY <1>2, <1>6 DEF Call, Goto, stores, bookkeeping
  <2> QED BY <1>2, <1>5, <2>1 DEF Has, Head
<1>7. ASSUME EnterStartup(w)
      PROVE  Has(target[w], Head)'
  <2>1. target'[w] = target[w] /\ done[ProcOf[w]]
    BY <1>2, <1>7 DEF EnterStartup, Goto
  <2> QED BY <1>3, <1>5, <2>1
<1>8. ASSUME Summarize(w)
      PROVE  Has(target[w], Head)'
  <2>1. /\ pc[w] = "summary" /\ target'[w] = target[w] /\ target[w] \notin failed[w]
    BY <1>2, <1>8 DEF Summarize, Goto
  <2>2. target[w] \in rows => Has(target[w], Head)
    BY <1>2, <2>1, CleanRun
  <2> QED BY <1>3, <2>1, <2>2
<1>9. ASSUME NEW c \in Callers, c # w,
             \/ LockedStep(c) \/ OutsideStep(c) \/ AcquireLock(c) \/ ReleaseLock(c)
             \/ RelationalFails(c)
      PROVE  Has(target[w], Head)'
  BY <1>2, <1>4, <1>9, OthersStill DEF Still
<1>10. ASSUME \/ LockedStep(w) \/ AcquireLock(w) \/ ReleaseLock(w)
              \/ RelationalFails(w) \/ Write(w) \/ OperatorUpgrade(w)
              \/ \E to \in {0} \union Chain : OperatorDowngrade(w, to)
       PROVE  FALSE
  BY <1>2, <1>10 DEF LockedStep, ReadVersion, RecordVersion, BookkeepingFails,
     SkipRow, OpenRow, Up, Stamp, Sync, FinishRow, FailRow, Down, Restamp, LeaveRow,
     PutDown, AcquireLock, ReleaseLock, RelationalFails, Write, OperatorUpgrade,
     OperatorDowngrade, Goto
<1>11. CASE EnvironmentStep
  <2>1. UNCHANGED <<pc, target>>
    BY <1>11 DEF EnvironmentStep, Delete, Stop, Start, Deploy
  <2> QED BY <1>4, <2>1
<1>12. ASSUME NEW p \in Procs, Crash(p)
       PROVE  Has(target[w], Head)'
  BY <1>2, <1>4, <1>12 DEF Crash
<1>13. CASE UNCHANGED vars
  BY <1>4, <1>13 DEF vars
<1> QED BY <1>2, <1>6, <1>7, <1>8, <1>9, <1>10, <1>11, <1>12, <1>13, NextCases
        DEF OutsideStep

LEMMA CoverInvariant ==
  ASSUME ~Downgrades, "bookkeeping" \notin Faults
  PROVE  Spec => []CoverInv
<1>1. Init => CoverInv
  BY DEF Init, CoverInv, Covered, Migrated, DoneIsMigrated, Listed, InHand, Callers
<1>2. TypeInv /\ UpgradeInv /\ StampInv /\ CoverInv /\ [Next]_vars => CoverInv'
  BY CoverStep, DoneStep, WriterStep DEF CoverInv
<1>3. Spec => [](TypeInv /\ OneMigrator /\ RunInv /\ StampInv)
  BY StampInvariant
<1> QED BY <1>1, <1>2, <1>3, UpgradeInvariant, PTL DEF Spec

(* Without downgrades and with readable bookkeeping, a run accounts for    *)
(* every dataset.                                                          *)
THEOREM NothingNeglected ==
  ASSUME ~Downgrades, "bookkeeping" \notin Faults
  PROVE  Spec => []NoneNeglected
<1>1. CoverInv => NoneNeglected
  BY DEF CoverInv, Covered, NoneNeglected, Listed
<1> QED BY <1>1, CoverInvariant, PTL

(* ... no call writes into a store that is not at the head of the chain,   *)
THEOREM WritesAreMigrated ==
  ASSUME ~Downgrades, "bookkeeping" \notin Faults
  PROVE  Spec => []WritersAreMigrated
<1>1. CoverInv => WritersAreMigrated
  BY DEF CoverInv, Migrated, WritersAreMigrated
<1> QED BY <1>1, CoverInvariant, PTL

(* ... and the once-per-process flag never lies.                           *)
THEOREM DoneMeansMigrated ==
  ASSUME ~Downgrades, "bookkeeping" \notin Faults
  PROVE  Spec => []DoneIsMigrated
<1>1. CoverInv => DoneIsMigrated
  BY DEF CoverInv
<1> QED BY <1>1, CoverInvariant, PTL
=============================================================================
