--------------------------- MODULE MigrationRunner ---------------------------
(***************************************************************************)
(* Startup data migrations: cognee/modules/migrations/startup.py and       *)
(* runner.py.  Writers (cognify, remember, ...) of several processes run   *)
(* the migrations before they write; an operator runs `cognee-cli upgrade` *)
(* and `downgrade`.  All of them take one cross-process lock, read the     *)
(* recorded release, and walk every dataset's revision along one chain,    *)
(* stamping after each step.  A process may crash between any two steps,   *)
(* and most steps may raise.                                               *)
(*                                                                         *)
(* A revision is its place in the chain (0: no revision yet).  The release *)
(* that runs is one value for all processes: it changes only while every   *)
(* process is down, the maintenance window that migrations/README.md asks  *)
(* for.                                                                    *)
(***************************************************************************)
EXTENDS Naturals

CONSTANTS
  Procs,      \* processes that share the stores
  Writers,    \* calls that migrate, then write
  Operators,  \* command-line calls that migrate explicitly
  ProcOf,     \* the process of each call
  Datasets,   \* dataset ids
  Releases,   \* releases that may be deployed
  HeadOf,     \* the head of the chain each release ships
  Downgrades, \* whether operators also downgrade
  Faults,     \* the faults a run includes, of FaultKinds
  NoRelease, NoCaller, NoDataset

Callers == Writers \union Operators

(* What may go wrong: the process dies; the relational upgrade raises; the *)
(* bookkeeping tables cannot be read; up(), its stamp, the storage sync,   *)
(* down() or its stamp raises.                                             *)
FaultKinds == {"crash", "relational", "bookkeeping",
               "up", "stamp", "sync", "down", "restamp"}

ASSUME CallerAssumption ==
  /\ Writers \intersect Operators = {}
  /\ ProcOf \in [Callers -> Procs]
  /\ NoCaller \notin Callers
  /\ NoDataset \notin Datasets
ASSUME ReleaseAssumption ==
  /\ HeadOf \in [Releases -> Nat]
  /\ NoRelease \notin Releases
ASSUME FaultAssumption ==
  /\ Downgrades \in BOOLEAN
  /\ Faults \subseteq FaultKinds

VARIABLES
  release,   \* the release every running process has loaded
  up,        \* whether the process runs
  done,      \* _startup_migrations_done of the process
  startup,   \* holder of the process's asyncio startup lock
  lock,      \* holder of the cross-process migration lock
  recorded,  \* cognee_version of the global_database_version row
  rows,      \* datasets that have a dataset_database row
  stamp,     \* migration_revision of the row
  data,      \* the migrations whose transformation the stores hold
  schema,    \* the release the vector storage was last synced to
  lastError, \* whether migration_last_error is set
  pc,        \* where the call stands
  target,    \* the dataset the call will write
  mode,      \* the direction of the call's migration run: up or down
  goal,      \* the revision the run is to reach
  changed,   \* whether the run found that the release changed
  todo,      \* the rows the run has yet to visit
  failed,    \* the datasets whose migration failed in the run
  row,       \* the row in hand
  pos        \* the revision reached on the row in hand

process == <<release, up>>
bookkeeping == <<recorded, rows, stamp, lastError>>
stores == <<data, schema>>
plan == <<mode, goal, changed>>
tally == <<todo, failed>>
visit == <<row, pos>>
run == <<plan, tally, visit>>
vars == <<process, done, startup, lock, bookkeeping, stores, pc, target, run>>

Head == HeadOf[release]
Chain == UNION {1..HeadOf[r] : r \in Releases}

Working == {"relational", "record", "rows", "step", "stamp", "audit",
            "restamp"}
Places == Working \union {"idle", "startup", "lock", "summary", "write"}

TypeOK ==
  /\ release \in Releases
  /\ up \in [Procs -> BOOLEAN]
  /\ done \in [Procs -> BOOLEAN]
  /\ startup \in [Procs -> Writers \union {NoCaller}]
  /\ lock \in Callers \union {NoCaller}
  /\ recorded \in Releases \union {NoRelease}
  /\ rows \subseteq Datasets
  /\ stamp \in [Datasets -> {0} \union Chain]
  /\ data \in [Datasets -> SUBSET Chain]
  /\ schema \in [Datasets -> Releases \union {NoRelease}]
  /\ lastError \in [Datasets -> BOOLEAN]
  /\ pc \in [Callers -> Places]
  /\ target \in [Writers -> Datasets \union {NoDataset}]
  /\ mode \in [Callers -> {"up", "down"}]
  /\ goal \in [Callers -> {0} \union Chain]
  /\ changed \in [Callers -> BOOLEAN]
  /\ todo \in [Callers -> SUBSET Datasets]
  /\ failed \in [Callers -> SUBSET Datasets]
  /\ row \in [Callers -> Datasets \union {NoDataset}]
  /\ pos \in [Callers -> {0} \union Chain]

(* Any deployment cognee meets first: databases from before the chain,     *)
(* with no revision, no recorded release and a storage of unknown shape.   *)
Init ==
  /\ release \in Releases
  /\ up = [p \in Procs |-> FALSE]
  /\ done = [p \in Procs |-> FALSE]
  /\ startup = [p \in Procs |-> NoCaller]
  /\ lock = NoCaller
  /\ recorded = NoRelease
  /\ rows \in SUBSET Datasets
  /\ stamp = [d \in Datasets |-> 0]
  /\ data = [d \in Datasets |-> {}]
  /\ schema = [d \in Datasets |-> NoRelease]
  /\ lastError = [d \in Datasets |-> FALSE]
  /\ pc = [c \in Callers |-> "idle"]
  /\ target = [c \in Writers |-> NoDataset]
  /\ mode = [c \in Callers |-> "up"]
  /\ goal = [c \in Callers |-> 0]
  /\ changed = [c \in Callers |-> FALSE]
  /\ todo = [c \in Callers |-> {}]
  /\ failed = [c \in Callers |-> {}]
  /\ row = [c \in Callers |-> NoDataset]
  /\ pos = [c \in Callers |-> 0]

-----------------------------------------------------------------------------
(* Calls                                                                   *)

Goto(c, place) == pc' = [pc EXCEPT ![c] = place]

(* pending_migrations: what is above the stored revision.  A revision the  *)
(* release does not know (stamped by newer code) has nothing pending.      *)
Pending(d) == stamp[d] < Head

(* run_migrations_and_block: a process that has migrated goes on at once,  *)
(* another waits for the startup lock of its process.                      *)
Call(c, d) ==
  /\ up[ProcOf[c]] /\ pc[c] = "idle"
  /\ target' = [target EXCEPT ![c] = d]
  /\ Goto(c, IF done[ProcOf[c]] THEN "write" ELSE "startup")
  /\ UNCHANGED <<process, done, startup, lock, bookkeeping, stores, run>>

(* The flag is read again under the startup lock. *)
EnterStartup(c) ==
  LET p == ProcOf[c] IN
  /\ pc[c] = "startup" /\ startup[p] = NoCaller
  /\ \/ /\ done[p]
        /\ Goto(c, "write")
        /\ UNCHANGED startup
     \/ /\ ~done[p]
        /\ startup' = [startup EXCEPT ![p] = c]
        /\ Goto(c, "lock")
  /\ UNCHANGED <<process, done, lock, bookkeeping, stores, target, run>>

(* cognee-cli upgrade: no flag and no startup lock. *)
OperatorUpgrade(c) ==
  /\ up[ProcOf[c]] /\ pc[c] = "idle"
  /\ Goto(c, "lock")
  /\ UNCHANGED <<process, done, startup, lock, bookkeeping, stores, target, run>>

(* cognee-cli downgrade to a revision of the chain, or to its base. *)
OperatorDowngrade(c, to) ==
  /\ Downgrades
  /\ up[ProcOf[c]] /\ pc[c] = "idle"
  /\ to <= Head
  /\ mode' = [mode EXCEPT ![c] = "down"]
  /\ goal' = [goal EXCEPT ![c] = to]
  /\ Goto(c, "lock")
  /\ UNCHANGED <<process, done, startup, lock, bookkeeping, stores, target,
                 changed, tally, visit>>

(* migration_lock; the downgrade then lists the rows, the upgrade first    *)
(* brings the relational schema to head.                                   *)
AcquireLock_Unshared(c) ==
  /\ pc[c] = "lock"
  /\ lock' = c
  /\ \/ /\ mode[c] = "up"
        /\ Goto(c, "relational")
        /\ UNCHANGED todo
     \/ /\ mode[c] = "down"
        /\ todo' = [todo EXCEPT ![c] = rows]
        /\ Goto(c, "rows")
  /\ UNCHANGED <<process, done, startup, bookkeeping, stores, target, plan,
                 failed, visit>>

AcquireLock(c) ==
  /\ pc[c] = "lock" /\ lock = NoCaller
  /\ lock' = c
  /\ \/ /\ mode[c] = "up"
        /\ Goto(c, "relational")
        /\ UNCHANGED todo
     \/ /\ mode[c] = "down"
        /\ todo' = [todo EXCEPT ![c] = rows]
        /\ Goto(c, "rows")
  /\ UNCHANGED <<process, done, startup, bookkeeping, stores, target, plan,
                 failed, visit>>

(* The migration run is over, its locals are gone; the call is over. *)
EndRun(c) ==
  /\ mode' = [mode EXCEPT ![c] = "up"]
  /\ goal' = [goal EXCEPT ![c] = 0]
  /\ changed' = [changed EXCEPT ![c] = FALSE]
  /\ todo' = [todo EXCEPT ![c] = {}]
  /\ failed' = [failed EXCEPT ![c] = {}]
  /\ row' = [row EXCEPT ![c] = NoDataset]
  /\ pos' = [pos EXCEPT ![c] = 0]

Leave(c) ==
  /\ EndRun(c)
  /\ IF c \in Writers
       THEN target' = [target EXCEPT ![c] = NoDataset]
       ELSE UNCHANGED target

ReleaseStartup(c) ==
  startup' = [startup EXCEPT ![ProcOf[c]] = IF @ = c THEN NoCaller ELSE @]

(* alembic raises: both locks are released and the caller gets the error. *)
RelationalFails_KeepsStartupLock(c) ==
  /\ "relational" \in Faults
  /\ pc[c] = "relational"
  /\ lock' = NoCaller
  /\ Goto(c, "idle")
  /\ Leave(c)
  /\ UNCHANGED <<process, done, startup, bookkeeping, stores>>

RelationalFails(c) ==
  /\ "relational" \in Faults
  /\ pc[c] = "relational"
  /\ lock' = NoCaller
  /\ ReleaseStartup(c)
  /\ Goto(c, "idle")
  /\ Leave(c)
  /\ UNCHANGED <<process, done, bookkeeping, stores>>

-----------------------------------------------------------------------------
(* run_database_migrations                                                 *)

(* The recorded release is read before it is overwritten; if the table     *)
(* cannot be read it counts as never recorded.                             *)
ReadVersion(c) ==
  /\ pc[c] = "relational"
  /\ \/ changed' = [changed EXCEPT ![c] = recorded # release]
     \/ "bookkeeping" \in Faults /\ changed' = [changed EXCEPT ![c] = TRUE]
  /\ goal' = [goal EXCEPT ![c] = Head]
  /\ Goto(c, "record")
  /\ UNCHANGED <<process, done, startup, lock, bookkeeping, stores, target, mode,
                 tally, visit>>

(* _record_deployment_version, then the rows to visit. *)
RecordVersion(c) ==
  /\ pc[c] = "record"
  /\ recorded' = release
  /\ todo' = [todo EXCEPT ![c] = rows]
  /\ Goto(c, "rows")
  /\ UNCHANGED <<process, done, startup, lock, rows, stamp, lastError, stores,
                 target, plan, failed, visit>>

(* An OperationalError or ProgrammingError there is taken for a missing    *)
(* table, before or after the release was recorded: nothing is visited.    *)
BookkeepingFails(c) ==
  /\ "bookkeeping" \in Faults
  /\ pc[c] = "record"
  /\ recorded' \in {recorded, release}
  /\ Goto(c, "rows")
  /\ UNCHANGED <<process, done, startup, lock, rows, stamp, lastError, stores,
                 target, run>>

(* What a run still has to do on a row: nothing when the row is gone, and  *)
(* for a downgrade when the revision is at or under the goal or unknown.   *)
Due(c, d) ==
  /\ d \in rows
  /\ IF mode[c] = "up"
       THEN Pending(d) \/ changed[c]
       ELSE goal[c] < stamp[d] /\ stamp[d] <= Head

SkipRow(c, d) ==
  /\ pc[c] = "rows" /\ d \in todo[c]
  /\ ~Due(c, d)
  /\ todo' = [todo EXCEPT ![c] = @ \ {d}]
  /\ UNCHANGED <<process, done, startup, lock, bookkeeping, stores, pc, target,
                 plan, failed, visit>>

OpenRow(c, d) ==
  /\ pc[c] = "rows" /\ d \in todo[c]
  /\ Due(c, d)
  /\ todo' = [todo EXCEPT ![c] = @ \ {d}]
  /\ row' = [row EXCEPT ![c] = d]
  /\ pos' = [pos EXCEPT ![c] = stamp[d]]
  /\ Goto(c, "step")
  /\ UNCHANGED <<process, done, startup, lock, bookkeeping, stores, target, plan,
                 failed>>

(* A statement on a row that was deleted meanwhile has no effect. *)
SetStamp(d, revision) ==
  stamp' = [stamp EXCEPT ![d] = IF d \in rows THEN revision ELSE @]
SetData(d, steps) ==
  data' = [data EXCEPT ![d] = IF d \in rows THEN steps ELSE @]

(* _apply: up() of the next migration, then its stamp. *)
Up_StampsFirst(c) ==
  LET d == row[c] IN
  /\ pc[c] = "step" /\ mode[c] = "up" /\ pos[c] < goal[c]
  /\ SetData(d, data[d] \union {pos[c] + 1})
  /\ SetStamp(d, goal[c])
  /\ Goto(c, "stamp")
  /\ UNCHANGED <<process, done, startup, lock, recorded, rows, lastError, schema,
                 target, run>>

Up_PastTarget(c) ==
  LET d == row[c] IN
  /\ pc[c] = "step" /\ mode[c] = "up" /\ pos[c] <= goal[c]
  /\ SetData(d, data[d] \union {pos[c] + 1})
  /\ Goto(c, "stamp")
  /\ UNCHANGED <<process, done, startup, lock, bookkeeping, schema, target, run>>

Up(c) ==
  LET d == row[c] IN
  /\ pc[c] = "step" /\ mode[c] = "up" /\ pos[c] < goal[c]
  /\ SetData(d, data[d] \union {pos[c] + 1})
  /\ Goto(c, "stamp")
  /\ UNCHANGED <<process, done, startup, lock, bookkeeping, schema, target, run>>

Stamp(c) ==
  LET next == pos[c] + 1 IN
  /\ pc[c] = "stamp"
  /\ SetStamp(row[c], next)
  /\ pos' = [pos EXCEPT ![c] = next]
  /\ Goto(c, "step")
  /\ UNCHANGED <<process, done, startup, lock, recorded, rows, lastError, stores,
                 target, plan, tally, row>>

(* After the chain: the adapter's storage sync, on a release change only. *)
Sync(c) ==
  LET d == row[c] IN
  /\ pc[c] = "step" /\ mode[c] = "up" /\ pos[c] >= goal[c]
  /\ changed[c]
  /\ schema' = [schema EXCEPT ![d] = IF d \in rows THEN release ELSE @]
  /\ Goto(c, "audit")
  /\ UNCHANGED <<process, done, startup, lock, bookkeeping, data, target, run>>

(* The row in hand is put down for the next one. *)
PutDown(c) ==
  /\ row' = [row EXCEPT ![c] = NoDataset]
  /\ pos' = [pos EXCEPT ![c] = 0]
  /\ Goto(c, "rows")

(* The row is finished and its recorded failure cleared. *)
FinishRow(c) ==
  /\ \/ pc[c] = "audit"
     \/ /\ pc[c] = "step" /\ mode[c] = "up" /\ pos[c] >= goal[c]
        /\ ~changed[c]
  /\ lastError' = [lastError EXCEPT ![row[c]] = FALSE]
  /\ PutDown(c)
  /\ UNCHANGED <<process, done, startup, lock, recorded, rows, stamp, stores,
                 target, plan, tally>>

(* A step raised: the failure is recorded and the next row is taken. *)
FailRow_Unreported(c) ==
  LET d == row[c] IN
  /\ mode[c] = "up"
  /\ \/ pc[c] = "step" /\ pos[c] < goal[c] /\ "up" \in Faults
     \/ pc[c] = "step" /\ pos[c] >= goal[c] /\ changed[c] /\ "sync" \in Faults
     \/ pc[c] = "stamp" /\ "stamp" \in Faults
  /\ lastError' = [lastError EXCEPT ![d] = d \in rows]
  /\ PutDown(c)
  /\ UNCHANGED <<process, done, startup, lock, recorded, rows, stamp, stores,
                 target, plan, tally>>

FailRow(c) ==
  LET d == row[c] IN
  /\ mode[c] = "up"
  /\ \/ pc[c] = "step" /\ pos[c] < goal[c] /\ "up" \in Faults
     \/ pc[c] = "step" /\ pos[c] >= goal[c] /\ changed[c] /\ "sync" \in Faults
     \/ pc[c] = "stamp" /\ "stamp" \in Faults
  /\ lastError' = [lastError EXCEPT ![d] = d \in rows]
  /\ failed' = [failed EXCEPT ![c] = @ \union {d}]
  /\ PutDown(c)
  /\ UNCHANGED <<process, done, startup, lock, recorded, rows, stamp, stores,
                 target, plan, todo>>

-----------------------------------------------------------------------------
(* downgrade_database_migrations                                           *)

(* _revert_span: down() of the newest migration, then the stamp below it. *)
Down(c) ==
  LET d == row[c] IN
  /\ pc[c] = "step" /\ mode[c] = "down" /\ goal[c] < pos[c]
  /\ SetData(d, data[d] \ {pos[c]})
  /\ Goto(c, "restamp")
  /\ UNCHANGED <<process, done, startup, lock, bookkeeping, schema, target, run>>

Restamp_OncePerSpan(c) ==
  LET below == pos[c] - 1 IN
  /\ pc[c] = "restamp"
  /\ IF below = goal[c] THEN SetStamp(row[c], below) ELSE UNCHANGED stamp
  /\ pos' = [pos EXCEPT ![c] = below]
  /\ Goto(c, "step")
  /\ UNCHANGED <<process, done, startup, lock, recorded, rows, lastError, stores,
                 target, plan, tally, row>>

Restamp(c) ==
  LET below == pos[c] - 1 IN
  /\ pc[c] = "restamp"
  /\ SetStamp(row[c], below)
  /\ pos' = [pos EXCEPT ![c] = below]
  /\ Goto(c, "step")
  /\ UNCHANGED <<process, done, startup, lock, recorded, rows, lastError, stores,
                 target, plan, tally, row>>

(* The span is reverted, or one of its steps raised: the next row. *)
LeaveRow(c) ==
  /\ mode[c] = "down"
  /\ \/ pc[c] = "step" /\ (pos[c] <= goal[c] \/ "down" \in Faults)
     \/ pc[c] = "restamp" /\ "restamp" \in Faults
  /\ PutDown(c)
  /\ UNCHANGED <<process, done, startup, lock, bookkeeping, stores, target, plan,
                 tally>>

-----------------------------------------------------------------------------
(* The end of a call, and its environment                                  *)

(* Every row was visited: the migration lock is released. *)
ReleaseLock(c) ==
  /\ pc[c] = "rows" /\ todo[c] = {}
  /\ lock' = NoCaller
  /\ Goto(c, "summary")
  /\ UNCHANGED <<process, done, startup, bookkeeping, stores, target, run>>

(* run_migrations sets the flag only if nothing failed, and                *)
(* abort_write_if_migration_blocked raises if the target failed.  A        *)
(* command-line call just returns.                                         *)
Summarize(c) ==
  /\ pc[c] = "summary"
  /\ IF c \in Writers /\ failed[c] = {}
       THEN done' = [done EXCEPT ![ProcOf[c]] = TRUE]
       ELSE UNCHANGED done
  /\ ReleaseStartup(c)
  /\ IF c \in Writers /\ target[c] \notin failed[c]
       THEN Goto(c, "write") /\ EndRun(c) /\ UNCHANGED target
       ELSE Goto(c, "idle") /\ Leave(c)
  /\ UNCHANGED <<process, lock, bookkeeping, stores>>

(* The write.  A dataset without a row gets one, and empty stores of the   *)
(* current shape, stamped at head (get_or_create_dataset_database).        *)
Write(c) ==
  LET d == target[c] IN
  /\ pc[c] = "write"
  /\ \/ d \in rows /\ UNCHANGED <<bookkeeping, stores>>
     \/ /\ d \notin rows
        /\ rows' = rows \union {d}
        /\ stamp' = [stamp EXCEPT ![d] = Head]
        /\ data' = [data EXCEPT ![d] = 1..Head]
        /\ schema' = [schema EXCEPT ![d] = release]
        /\ UNCHANGED <<recorded, lastError>>
  /\ Goto(c, "idle")
  /\ Leave(c)
  /\ UNCHANGED <<process, done, startup, lock>>

(* A dataset is deleted, with its row and its stores, by any process. *)
Delete(d) ==
  /\ d \in rows
  /\ \E p \in Procs : up[p]
  /\ rows' = rows \ {d}
  /\ stamp' = [stamp EXCEPT ![d] = 0]
  /\ data' = [data EXCEPT ![d] = {}]
  /\ schema' = [schema EXCEPT ![d] = NoRelease]
  /\ lastError' = [lastError EXCEPT ![d] = FALSE]
  /\ UNCHANGED <<process, done, startup, lock, recorded, pc, target, run>>

(* A process dies: its calls, its flag and its locks die with it, the      *)
(* advisory lock it holds is released by the database or the OS.           *)
Crash(p) ==
  LET dead == {c \in Callers : ProcOf[c] = p} IN
  /\ "crash" \in Faults
  /\ up[p]
  /\ up' = [up EXCEPT ![p] = FALSE]
  /\ done' = [done EXCEPT ![p] = FALSE]
  /\ startup' = [startup EXCEPT ![p] = NoCaller]
  /\ lock' = IF lock \in dead THEN NoCaller ELSE lock
  /\ pc' = [c \in Callers |-> IF c \in dead THEN "idle" ELSE pc[c]]
  /\ target' = [c \in Writers |-> IF c \in dead THEN NoDataset ELSE target[c]]
  /\ mode' = [c \in Callers |-> IF c \in dead THEN "up" ELSE mode[c]]
  /\ goal' = [c \in Callers |-> IF c \in dead THEN 0 ELSE goal[c]]
  /\ changed' = [c \in Callers |-> changed[c] /\ c \notin dead]
  /\ todo' = [c \in Callers |-> IF c \in dead THEN {} ELSE todo[c]]
  /\ failed' = [c \in Callers |-> IF c \in dead THEN {} ELSE failed[c]]
  /\ row' = [c \in Callers |-> IF c \in dead THEN NoDataset ELSE row[c]]
  /\ pos' = [c \in Callers |-> IF c \in dead THEN 0 ELSE pos[c]]
  /\ UNCHANGED <<release, bookkeeping, stores>>

(* A process ends in good order, between calls. *)
Stop(p) ==
  /\ up[p]
  /\ \A c \in Callers : ProcOf[c] = p => pc[c] = "idle"
  /\ up' = [up EXCEPT ![p] = FALSE]
  /\ done' = [done EXCEPT ![p] = FALSE]
  /\ UNCHANGED <<release, startup, lock, bookkeeping, stores, pc, target, run>>

Start(p) ==
  /\ ~up[p]
  /\ up' = [up EXCEPT ![p] = TRUE]
  /\ UNCHANGED <<release, done, startup, lock, bookkeeping, stores, pc, target, run>>

(* Another release, newer or older, in a maintenance window. *)
Deploy(r) ==
  /\ \A p \in Procs : ~up[p]
  /\ release' = r
  /\ UNCHANGED <<up, done, startup, lock, bookkeeping, stores, pc, target, run>>

Step(c) ==
  \/ AcquireLock(c)
  \/ RelationalFails(c)
  \/ ReadVersion(c)
  \/ RecordVersion(c)
  \/ BookkeepingFails(c)
  \/ \E d \in Datasets : SkipRow(c, d) \/ OpenRow(c, d)
  \/ Up(c)
  \/ Stamp(c)
  \/ Sync(c)
  \/ FinishRow(c)
  \/ FailRow(c)
  \/ Down(c)
  \/ Restamp(c)
  \/ LeaveRow(c)
  \/ ReleaseLock(c)
  \/ Summarize(c)

Next ==
  \/ \E c \in Writers, d \in Datasets : Call(c, d)
  \/ \E c \in Writers : EnterStartup(c) \/ Write(c)
  \/ \E c \in Operators : OperatorUpgrade(c)
  \/ \E c \in Operators, to \in {0} \union Chain : OperatorDowngrade(c, to)
  \/ \E c \in Callers : Step(c)
  \/ \E d \in Datasets : Delete(d)
  \/ \E p \in Procs : Crash(p) \/ Stop(p) \/ Start(p)
  \/ \E r \in Releases : Deploy(r)

Spec == Init /\ [][Next]_vars

(* A call that can take its next step takes it; a lock that is free again  *)
(* and again is granted (asyncio.Lock and the Postgres advisory lock queue *)
(* their waiters, the file lock polls).                                    *)
Fairness ==
  /\ \A c \in Callers : WF_vars(Step(c)) /\ SF_vars(AcquireLock(c))
  /\ \A c \in Writers : SF_vars(EnterStartup(c)) /\ WF_vars(Write(c))

FairSpec == Spec /\ Fairness

-----------------------------------------------------------------------------
(* Properties                                                              *)

Has(d, revision) == 1..revision \subseteq data[d]

(* At most one migration of any kind runs at a time: whoever is between    *)
(* the relational upgrade and the last row holds the lock (migration_lock: *)
(* "a host runs at most ONE migration of any kind at a time").             *)
OneMigrator == \A c \in Callers : pc[c] \in Working => lock = c

(* The stamp never promises more than the stores hold, whatever crashed    *)
(* or raised: every migration up to the stored revision has run (_apply:   *)
(* up() before its stamp).                                                 *)
StampIsHonest == \A d \in rows : Has(d, stamp[d])

(* A migration only runs on stores that all the earlier ones transformed,  *)
(* although other processes migrate, delete and recreate datasets between  *)
(* the reading of the revision and the up() (_migrate_dataset re-reads     *)
(* under the lock).                                                        *)
UpOnPrepared ==
  \A c \in Callers :
    LET d == row[c] IN
    /\ pc[c] = "step" /\ mode[c] = "up" /\ pos[c] < goal[c]
    /\ d \in rows
    => Has(d, pos[c])

(* A run neglects no dataset, those that appear while it runs included:    *)
(* from the moment it has listed the rows each one is at head, still to be *)
(* visited, in hand, or reported as failed (run_database_migrations:       *)
(* failures "are logged and skipped so the remaining databases are still   *)
(* migrated").                                                             *)
InHand == {"step", "stamp", "audit"}

NoneNeglected ==
  \A c \in Callers : pc[c] \in InHand \union {"rows", "summary"} =>
    \A d \in rows :
      \/ d \in todo[c] \union failed[c]
      \/ pc[c] \in InHand /\ d = row[c]
      \/ Has(d, Head)

(* A call only writes into stores that are at the head of the chain:       *)
(* run_migrations_and_block, "writing into a store still on the old scheme *)
(* is the corruption the migration prevents".                              *)
WritersAreMigrated ==
  \A c \in Writers : pc[c] = "write" /\ target[c] \in rows => Has(target[c], Head)

(* The once-per-process flag stays true: while it is set every dataset is  *)
(* at head, those that others create later included.                       *)
DoneIsMigrated ==
  \A p \in Procs : done[p] => \A d \in rows : Has(d, Head)

(* With no migration under way, a row's revision never names a migration   *)
(* whose data has been reverted (_revert_span: "never at a revision whose  *)
(* data has already been reverted").                                       *)
RevertedIsUnstamped == lock = NoCaller => StampIsHonest

(* A call only writes into a vector storage that was synced to the running *)
(* release (_sync_vector_adapter_storage: "A failure propagates like any   *)
(* migration failure for this database (the caller records it and blocks   *)
(* writes)").                                                              *)
WritersAreSynced ==
  \A c \in Writers :
    pc[c] = "write" /\ target[c] \in rows => schema[target[c]] = release

(* No path leaves a lock behind: the migration lock is with a run that is  *)
(* still working under it, and the startup lock of a process is with the   *)
(* one writer of it that waits for the migrations, runs them or sums up    *)
(* (migration_lock and run_migrations release on every exit, the raising   *)
(* ones included; the locks of a dead process go with it).                 *)
AtStartup == Working \union {"lock", "summary"}

NoLockLeftBehind ==
  /\ lock # NoCaller => up[ProcOf[lock]] /\ pc[lock] \in Working
  /\ \A p \in Procs : startup[p] # NoCaller =>
       /\ up[p] /\ ProcOf[startup[p]] = p
       /\ pc[startup[p]] \in AtStartup
  /\ \A c \in Writers : pc[c] \in AtStartup => startup[ProcOf[c]] = c

(* A call that waits for the migrations is let through, refused or dies:   *)
(* no path leaves a lock behind.                                           *)
CallsEnd ==
  \A c \in Writers : pc[c] = "startup" ~> pc[c] \in {"write", "idle"}
=============================================================================
