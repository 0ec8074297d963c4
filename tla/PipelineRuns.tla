---------------------------- MODULE PipelineRuns ----------------------------
(***************************************************************************)
(* Pipeline runs over datasets, from the call that asks for them to what   *)
(* they leave behind: the row that says how far a run came, the artifacts  *)
(* of each item in the graph, the record of which run made them, and the   *)
(* marker that lets later runs skip the item                               *)
(* (pipelines/layers/pipeline_execution_mode.py, pipelines/operations,     *)
(* cognify/rollback.py, cognify/recovery.py).                              *)
(*                                                                         *)
(* A call names the datasets it runs over.  A blocking call takes them one *)
(* after the other; a background call starts all of them, each up to its   *)
(* first answer and inside the lock of its dataset, and only then drives   *)
(* them one after the other.  Cognify runs mark items and can be rolled    *)
(* back; custom runs may answer from the status of an earlier run.  The    *)
(* process can crash at any point, and recovers stale runs when it starts. *)
(***************************************************************************)
EXTENDS Naturals, Sequences, FiniteSets

CONSTANTS
    Datasets,
    Items,
    ItemsOf,        \* the items of each dataset
    Calls,
    Plans,          \* what the calls ask for: one of these, chosen at first
    MaxSets,        \* the most datasets a call names
    MaxFaults,      \* bound: steps that fail or are cancelled, and crashes
    NoRun

Runs == Calls \X (1..MaxSets)
Pipelines == {"cognify", "custom"}
Requests == [pipeline : Pipelines, background : BOOLEAN, sets : Seq(Datasets)]

ASSUME RunsAssumption ==
    /\ ItemsOf \in [Datasets -> SUBSET Items]
    /\ \A d, e \in Datasets : d # e => ItemsOf[d] \cap ItemsOf[e] = {}
    /\ MaxSets \in Nat \ {0}
    /\ Plans \subseteq [Calls -> Requests]
    /\ \A plan \in Plans, c \in Calls : Len(plan[c].sets) \in 1..MaxSets
    /\ MaxFaults \in Nat
    /\ NoRun \notin Runs
ASSUME DatasetsAssumption == IsFiniteSet(Datasets)

VARIABLES
    plan,
    inGraph,        \* provenance is kept in the graph, not in the ledger
    call,
    at,             \* the dataset of its list a call is at
    run,
    reraised,       \* runs whose error is raised after the run is logged
    task,           \* the task of an item in a run
    undo,           \* what the rollback of a run has read
    graph,          \* items with artifacts in the graph and the vectors
    owner,          \* which run the provenance says made them
    marker,         \* the run that marked an item as processed (code: a flag)
    latest,         \* the newest row of each pipeline and dataset
    process,
    stale,          \* datasets startup recovery has yet to look at
    recovery,       \* the dataset it is at, and the step
    torn,           \* items deleted by a rollback, their marker not yet reset
    late,           \* items a task stored or marked after its run's gather
    faults

setup == <<plan, inGraph>>
store == <<graph, owner, marker, torn>>
startup == <<process, stale, recovery>>
vars == <<setup, call, at, run, reraised, task, undo, store, latest, startup, late, faults>>

Statuses == {"none", "initiated", "started", "completed", "errored"}

(* Where a run is.  answered: the status of another run was the answer;      *)
(* started: suspended at its first answer; failing, deleting, resetting: in  *)
(* the rollback handler, before it reads, deletes, and resets; dropped: it   *)
(* ended without a row that says so.                                         *)
Working == {"working", "flushing"}
RollingBack == {"failing", "deleting", "resetting"}
Locked == {"answered", "started", "erring"} \cup Working \cup RollingBack
RunPcs == {"none", "waiting", "ended", "dropped"} \cup Locked

(* Where the task of an item is: ready, before its pre-check; busy, in the   *)
(* try of run_tasks_data_item_incremental; marked, before the flush of its   *)
(* provenance.                                                               *)
Busy == {"working", "owned", "stored"}
Going == {"ready", "marked"} \cup Busy
TaskPcs == {"none", "skipped", "ok", "failed", "gone"} \cup Going

Request(r) == plan[r[1]]
DatasetOf(r) == Request(r).sets[r[2]]
IsCognify(r) == Request(r).pipeline = "cognify"
NotLast(r) == r[2] < Len(Request(r).sets)
NextOf(r) == <<r[1], r[2] + 1>>
ItemsIn(r) == ItemsOf[DatasetOf(r)]
LatestOf(r) == latest[Request(r).pipeline][DatasetOf(r)]

Nothing == [read |-> {}, target |-> {}]

Init ==
    /\ plan \in Plans
    /\ inGraph \in BOOLEAN
    /\ call = [c \in Calls |-> "idle"]
    /\ at = [c \in Calls |-> 1]
    /\ run = [r \in Runs |-> "none"]
    /\ reraised = {}
    /\ task = [r \in Runs |-> [i \in Items |-> "none"]]
    /\ undo = [r \in Runs |-> Nothing]
    /\ graph = {}
    /\ owner = {}
    /\ marker = [i \in Items |-> NoRun]
    /\ latest = [p \in Pipelines |-> [d \in Datasets |-> [run |-> NoRun, status |-> "none"]]]
    /\ process = "up"
    /\ stale = {}
    /\ recovery = <<"pick">>
    /\ torn = {}
    /\ late = {}
    /\ faults = 0

(* A step that fails or is cancelled, or a crash. *)
Fault ==
    /\ faults < MaxFaults
    /\ faults' = faults + 1

LogRow_OfTheCall(r, status) ==
    latest' = [latest EXCEPT ![Request(r).pipeline][DatasetOf(r)] =
                   [run |-> r[1], status |-> status]]

(* A new row becomes the one that tells the status. *)
LogRow(r, status) ==
    latest' = [latest EXCEPT ![Request(r).pipeline][DatasetOf(r)] =
                   [run |-> r, status |-> status]]

-----------------------------------------------------------------------------
(* Calls and the order in which they take their datasets                     *)

BeginCall(c) ==
    /\ process = "up"
    /\ call[c] = "idle"
    /\ call' = [call EXCEPT ![c] = IF plan[c].background THEN "starting" ELSE "driving"]
    /\ run' = [run EXCEPT ![<<c, 1>>] = "waiting"]
    /\ UNCHANGED <<setup, at, reraised, task, undo, store, latest, startup, late, faults>>

(* The first `anext` of a generator has answered.  A background call goes on *)
(* to start the next one, and after the last one creates the task that       *)
(* drives them all.                                                          *)
FirstAnswer(r, pc) ==
    LET startsNext == Request(r).background /\ NotLast(r) IN
    /\ run' = [q \in Runs |-> IF q = r THEN pc
                              ELSE IF startsNext /\ q = NextOf(r) THEN "waiting"
                              ELSE run[q]]
    /\ call' = [call EXCEPT ![r[1]] = IF startsNext THEN @ ELSE "driving"]
    /\ UNCHANGED at

(* The turn of a run to be driven to its end. *)
Driven(r) == call[r[1]] = "driving" /\ at[r[1]] = r[2]

(* What a generator knew goes with it. *)
Forget(r) ==
    /\ undo' = [undo EXCEPT ![r] = Nothing]
    /\ reraised' = reraised \ {r}

(* A generator is exhausted: a blocking call starts the next one. *)
EndRun(r) ==
    LET startsNext == ~Request(r).background /\ NotLast(r) IN
    /\ run' = [q \in Runs |-> IF q = r THEN "ended"
                              ELSE IF startsNext /\ q = NextOf(r) THEN "waiting"
                              ELSE run[q]]
    /\ call' = [call EXCEPT ![r[1]] = IF NotLast(r) THEN @ ELSE "done"]
    /\ at' = [at EXCEPT ![r[1]] = IF NotLast(r) THEN r[2] + 1 ELSE @]
    /\ Forget(r)

(* A generator raises: the call does not go on to its other datasets. *)
RaiseRun(r, pc) ==
    /\ run' = [run EXCEPT ![r] = pc]
    /\ call' = [call EXCEPT ![r[1]] = "failed"]
    /\ Forget(r)
    /\ UNCHANGED at

(* What a failed background call leaves suspended is closed when its task is *)
(* collected.                                                                *)
CloseGenerator(r) ==
    /\ call[r[1]] = "failed"
    /\ run[r] \in {"answered", "started"}
    /\ run' = [run EXCEPT ![r] = IF run[r] = "started" THEN "dropped" ELSE "ended"]
    /\ UNCHANGED <<setup, call, at, reraised, task, undo, store, latest, startup, late, faults>>

-----------------------------------------------------------------------------
(* The lock of the dataset, the qualification, and the row of the start      *)

LockFree_NotReleasedByError(d) ==
    \A r \in Runs : run[r] \in Locked \cup {"dropped"} => DatasetOf(r) # d

LockFree(d) == \A r \in Runs : run[r] \in Locked => DatasetOf(r) # d

(* Custom runs are made with the pipeline cache, cognify never is. *)
AnsweredByStatus(r) == ~IsCognify(r) /\ LatestOf(r).status \in {"started", "completed"}

AnswerRun(r) ==
    /\ run[r] = "waiting"
    /\ LockFree(DatasetOf(r))
    /\ AnsweredByStatus(r)
    /\ FirstAnswer(r, "answered")
    /\ UNCHANGED <<setup, reraised, task, undo, store, latest, startup, late, faults>>

StartRun(r) ==
    /\ run[r] = "waiting"
    /\ LockFree(DatasetOf(r))
    /\ ~AnsweredByStatus(r)
    /\ LogRow(r, "started")
    /\ FirstAnswer(r, "started")
    /\ UNCHANGED <<setup, reraised, task, undo, store, startup, late, faults>>

(* The wait for the lock is cancelled, or the row cannot be written. *)
StartFails(r) ==
    /\ run[r] = "waiting"
    /\ Fault
    /\ RaiseRun(r, "ended")
    /\ UNCHANGED <<setup, task, store, latest, startup, late>>

FinishAnswered(r) ==
    /\ run[r] = "answered"
    /\ Driven(r)
    /\ EndRun(r)
    /\ UNCHANGED <<setup, task, store, latest, startup, late, faults>>

-----------------------------------------------------------------------------
(* The body of a run: the database context, a task per item, the last row    *)

EnterContext(r) ==
    /\ run[r] = "started"
    /\ Driven(r)
    /\ run' = [run EXCEPT ![r] = "working"]
    /\ task' = [task EXCEPT ![r] = [i \in Items |-> IF i \in ItemsIn(r) THEN "ready" ELSE "none"]]
    /\ UNCHANGED <<setup, call, at, reraised, undo, store, latest, startup, late, faults>>

(* The context is entered outside the try that would log the error. *)
EntryFails(r) ==
    /\ run[r] = "started"
    /\ Driven(r)
    /\ Fault
    /\ RaiseRun(r, "dropped")
    /\ UNCHANGED <<setup, task, store, latest, startup, late>>

(* The except clause: cognify runs have a rollback handler.  `info` is what  *)
(* the results per item, where they exist, say the run processed.            *)
Fails(r, info) ==
    /\ run' = [run EXCEPT ![r] = IF IsCognify(r) THEN "failing" ELSE "erring"]
    /\ undo' = [undo EXCEPT ![r] = [read |-> {}, target |-> info]]

Processed_WithSkipped(r) == {i \in Items : task[r][i] \in {"ok", "failed", "skipped"}}

Processed(r) == {i \in Items : task[r][i] \in {"ok", "failed"}}

Returned(r) == \A i \in Items : task[r][i] \notin Going

GatherErrors_Ignored(r) ==
    /\ run[r] = "working"
    /\ Returned(r)
    /\ \E i \in Items : task[r][i] = "failed"
    /\ run' = [run EXCEPT ![r] = "flushing"]
    /\ UNCHANGED <<setup, call, at, reraised, task, undo, store, latest, startup, late, faults>>

(* All items have returned, and some returned an error. *)
GatherErrors(r) ==
    /\ run[r] = "working"
    /\ Returned(r)
    /\ \E i \in Items : task[r][i] = "failed"
    /\ Fails(r, Processed(r))
    /\ UNCHANGED <<setup, call, at, reraised, task, store, latest, startup, late, faults>>

GatherResults(r) ==
    /\ run[r] = "working"
    /\ Returned(r)
    /\ \A i \in Items : task[r][i] # "failed"
    /\ run' = [run EXCEPT ![r] = "flushing"]
    /\ UNCHANGED <<setup, call, at, reraised, task, undo, store, latest, startup, late, faults>>

Complete(r) ==
    /\ run[r] = "flushing"
    /\ LogRow(r, "completed")
    /\ EndRun(r)
    /\ UNCHANGED <<setup, task, store, startup, late, faults>>

(* A push of the stores fails, or the row cannot be written, or the run is   *)
(* cancelled there.                                                          *)
FlushFails(r) ==
    /\ run[r] = "flushing"
    /\ Fault
    /\ Fails(r, Processed(r))
    /\ reraised' = reraised \cup {r}
    /\ UNCHANGED <<setup, call, at, task, store, latest, startup, late>>

(* A cancelled gather cancels the tasks of the items.  The same is left when *)
(* the list of items cannot be made, before any task.                        *)
CancelRun(r) ==
    /\ run[r] = "working"
    /\ Fault
    /\ Fails(r, {})
    /\ reraised' = reraised \cup {r}
    /\ task' = [task EXCEPT ![r] = [i \in Items |-> IF @[i] \in Going THEN "gone" ELSE @[i]]]
    /\ UNCHANGED <<setup, call, at, store, latest, startup, late>>

-----------------------------------------------------------------------------
(* The task of an item.  It outlives its run when another item raises: the   *)
(* gather passes the exception on and leaves the other tasks running.        *)

TaskTo(r, i, pc) == task' = [task EXCEPT ![r][i] = pc]

(* What an item does after the gather of its run has ended is late. *)
NoteLate(r, i) == late' = IF run[r] = "working" THEN late ELSE late \cup {i}

BeginItem(r, i) ==
    /\ task[r][i] = "ready"
    /\ TaskTo(r, i, IF IsCognify(r) /\ marker[i] # NoRun THEN "skipped" ELSE "working")
    /\ UNCHANGED <<setup, call, at, run, reraised, undo, store, latest, startup, late, faults>>

(* An item keeps the run that made its artifacts when it is written again. *)
Owns(r, i) ==
    owner' = owner \cup {pair \in {<<r, i>>} : \A q \in Runs : <<q, i>> \notin owner}

(* The ledger is written before the graph. *)
LedgerItem(r, i) ==
    /\ task[r][i] = "working"
    /\ IsCognify(r)
    /\ ~inGraph
    /\ Owns(r, i)
    /\ TaskTo(r, i, "owned")
    /\ UNCHANGED <<setup, call, at, run, reraised, undo, graph, marker, torn, latest, startup, late, faults>>

(* The graph and the vectors, with the provenance if the graph keeps it. *)
StoreItem(r, i) ==
    /\ task[r][i] = IF inGraph THEN "working" ELSE "owned"
    /\ IsCognify(r)
    /\ IF inGraph THEN Owns(r, i) ELSE UNCHANGED owner
    /\ graph' = graph \cup {i}
    /\ torn' = torn \ {i}
    /\ NoteLate(r, i)
    /\ TaskTo(r, i, "stored")
    /\ UNCHANGED <<setup, call, at, run, reraised, undo, marker, latest, startup, faults>>

MarkItem(r, i) ==
    /\ task[r][i] = "stored"
    /\ marker' = [marker EXCEPT ![i] = r]
    /\ NoteLate(r, i)
    /\ TaskTo(r, i, "marked")
    /\ UNCHANGED <<setup, call, at, run, reraised, undo, graph, owner, torn, latest, startup, faults>>

(* flush_context_provenance, the last an item does.                          *)
FlushItem(r, i) ==
    /\ task[r][i] = "marked"
    /\ TaskTo(r, i, "ok")
    /\ UNCHANGED <<setup, call, at, run, reraised, undo, store, latest, startup, late, faults>>

FinishCustomItem(r, i) ==
    /\ task[r][i] = "working"
    /\ ~IsCognify(r)
    /\ TaskTo(r, i, "ok")
    /\ UNCHANGED <<setup, call, at, run, reraised, undo, store, latest, startup, late, faults>>

(* What an item raises is passed on by the gather, and the run fails at once: *)
(* an error of the pre-check, before the try, or of the flush, after it, and  *)
(* one in the try unless RAISE_INCREMENTAL_LOADING_ERRORS is off; off, it is  *)
(* swallowed, but the flush after it may raise as well.                       *)
ItemRaises(r, i) ==
    /\ task[r][i] \in Going
    /\ run[r] = "working"
    /\ Fault
    /\ TaskTo(r, i, "failed")
    /\ Fails(r, {})
    /\ reraised' = reraised \cup {r}
    /\ UNCHANGED <<setup, call, at, store, latest, startup, late>>

(* With the setting off an error in the try becomes the result of the item of *)
(* a cognify run; and once the gather is over, nobody sees what an item       *)
(* raises.  What the setting allows when it is on, it allows when it is off,  *)
(* so it is not a variable.                                                   *)
ItemErrs(r, i) ==
    /\ \/ task[r][i] \in Busy /\ IsCognify(r)
       \/ task[r][i] \in Going /\ run[r] # "working"
    /\ Fault
    /\ TaskTo(r, i, "failed")
    /\ UNCHANGED <<setup, call, at, run, reraised, undo, store, latest, startup, late>>

-----------------------------------------------------------------------------
(* Rolling a run back                                                        *)

OwnedBy(r) == {i \in Items : <<r, i>> \in owner}
Disowned(r) == {pair \in owner : pair[1] # r}

ReadArtifacts_ResultsOnly(r) ==
    undo' = [undo EXCEPT ![r] = [read |-> OwnedBy(r), target |-> undo[r].target]]

ReadArtifacts(r) ==
    undo' = [undo EXCEPT ![r] = [read |-> OwnedBy(r), target |-> OwnedBy(r) \cup undo[r].target]]

DeleteArtifacts_LedgerFirst(r) ==
    LET doomed == IF inGraph THEN OwnedBy(r) ELSE undo[r].read IN
    /\ graph' = graph \ doomed
    /\ torn' = torn \cup doomed
    /\ owner' = Disowned(r)
    /\ UNCHANGED marker

(* Provenance in the graph goes with the artifacts. *)
DeleteArtifacts(r) ==
    LET doomed == IF inGraph THEN OwnedBy(r) ELSE undo[r].read IN
    /\ graph' = graph \ doomed
    /\ torn' = torn \cup doomed
    /\ owner' = IF inGraph THEN Disowned(r) ELSE owner
    /\ UNCHANGED marker

ResetMarkers_OfAllRuns(r) ==
    /\ marker' = [i \in Items |-> IF i \in undo[r].target THEN NoRun ELSE marker[i]]
    /\ torn' = torn \ undo[r].read
    /\ owner' = IF inGraph THEN owner ELSE {}
    /\ UNCHANGED graph

(* One transaction: the rows of the ledger and the markers. *)
ResetMarkers(r) ==
    /\ marker' = [i \in Items |-> IF i \in undo[r].target THEN NoRun ELSE marker[i]]
    /\ torn' = torn \ undo[r].read
    /\ owner' = IF inGraph THEN owner ELSE Disowned(r)
    /\ UNCHANGED graph

RollbackReads(r) ==
    /\ run[r] = "failing"
    /\ run' = [run EXCEPT ![r] = "deleting"]
    /\ ReadArtifacts(r)
    /\ UNCHANGED <<setup, call, at, reraised, task, store, latest, startup, late, faults>>

RollbackDeletes(r) ==
    /\ run[r] = "deleting"
    /\ run' = [run EXCEPT ![r] = "resetting"]
    /\ DeleteArtifacts(r)
    /\ UNCHANGED <<setup, call, at, reraised, task, undo, latest, startup, late, faults>>

RollbackResets(r) ==
    /\ run[r] = "resetting"
    /\ run' = [run EXCEPT ![r] = "erring"]
    /\ ResetMarkers(r)
    /\ UNCHANGED <<setup, call, at, reraised, task, undo, latest, startup, late, faults>>

(* What the handler raises is logged and dropped. *)
RollbackFails(r) ==
    /\ run[r] \in RollingBack
    /\ Fault
    /\ run' = [run EXCEPT ![r] = "erring"]
    /\ UNCHANGED <<setup, call, at, reraised, task, undo, store, latest, startup, late>>

LogAndRaise_Unlogged(r) ==
    /\ run[r] = "erring"
    /\ r \in reraised
    /\ RaiseRun(r, "ended")
    /\ UNCHANGED <<setup, task, store, latest, startup, late, faults>>

(* What an item returned as an error ends the run, and only the run. *)
LogError(r) ==
    /\ run[r] = "erring"
    /\ r \notin reraised
    /\ LogRow(r, "errored")
    /\ EndRun(r)
    /\ UNCHANGED <<setup, task, store, startup, late, faults>>

LogAndRaise(r) ==
    /\ run[r] = "erring"
    /\ r \in reraised
    /\ LogRow(r, "errored")
    /\ RaiseRun(r, "ended")
    /\ UNCHANGED <<setup, task, store, startup, late, faults>>

(* The except clause itself is cancelled, or the row cannot be written. *)
CleanupFails(r) ==
    /\ run[r] \in RollingBack \cup {"erring"}
    /\ Fault
    /\ RaiseRun(r, "dropped")
    /\ UNCHANGED <<setup, task, store, latest, startup, late>>

-----------------------------------------------------------------------------
(* Crash, restart, and the recovery of stale cognify runs                    *)

Crash ==
    /\ process # "down"
    /\ Fault
    /\ process' = "down"
    /\ stale' = {}
    /\ recovery' = <<"pick">>
    /\ call' = [c \in Calls |-> IF call[c] \in {"starting", "driving"} THEN "lost" ELSE call[c]]
    /\ run' = [r \in Runs |-> IF run[r] \in Locked \cup {"waiting"} THEN "dropped" ELSE run[r]]
    /\ undo' = [r \in Runs |-> Nothing]
    /\ reraised' = {}
    /\ task' = [r \in Runs |-> [i \in Items |-> IF task[r][i] \in Going THEN "gone" ELSE task[r][i]]]
    /\ UNCHANGED <<setup, at, store, latest, late>>

IsStale(d) == latest["cognify"][d].status = "started"

Restart ==
    /\ process = "down"
    /\ process' = "recovering"
    /\ stale' = {d \in Datasets : IsStale(d)}
    /\ UNCHANGED <<setup, call, at, run, reraised, task, undo, store, latest, recovery, late, faults>>

StaleRun(d) == latest["cognify"][d].run

(* The run is younger than STALE_RUN_MIN_AGE_SECONDS. *)
RecoverySkips(d) ==
    /\ recovery = <<"pick">>
    /\ d \in stale
    /\ stale' = stale \ {d}
    /\ UNCHANGED <<setup, call, at, run, reraised, task, undo, store, latest, process, recovery, late, faults>>

RecoveryReads(d) ==
    /\ recovery = <<"pick">>
    /\ d \in stale
    /\ recovery' = <<"delete", d>>
    /\ ReadArtifacts(StaleRun(d))
    /\ UNCHANGED <<setup, call, at, run, reraised, task, store, latest, process, stale, late, faults>>

RecoveryDeletes(d) ==
    /\ recovery = <<"delete", d>>
    /\ recovery' = <<"reset", d>>
    /\ DeleteArtifacts(StaleRun(d))
    /\ UNCHANGED <<setup, call, at, run, reraised, task, undo, latest, process, stale, late, faults>>

RecoveryResets(d) ==
    /\ recovery = <<"reset", d>>
    /\ recovery' = <<"log", d>>
    /\ ResetMarkers(StaleRun(d))
    /\ UNCHANGED <<setup, call, at, run, reraised, task, undo, latest, process, stale, late, faults>>

RecoveryLogs(d) ==
    /\ recovery = <<"log", d>>
    /\ recovery' = <<"pick">>
    /\ undo' = [undo EXCEPT ![StaleRun(d)] = Nothing]
    /\ stale' = stale \ {d}
    /\ latest' = [latest EXCEPT !["cognify"][d] = [run |-> NoRun, status |-> "initiated"]]
    /\ UNCHANGED <<setup, call, at, run, reraised, task, store, process, late, faults>>

RecoveryFails(d) ==
    /\ recovery \in {"delete", "reset", "log"} \X {d}
    /\ Fault
    /\ recovery' = <<"pick">>
    /\ undo' = [undo EXCEPT ![StaleRun(d)] = Nothing]
    /\ stale' = stale \ {d}
    /\ UNCHANGED <<setup, call, at, run, reraised, task, store, latest, process, late>>

(* The server answers calls only after the recovery. *)
RecoveryEnds ==
    /\ process = "recovering"
    /\ recovery = <<"pick">>
    /\ stale = {}
    /\ process' = "up"
    /\ UNCHANGED <<setup, call, at, run, reraised, task, undo, store, latest, stale, recovery, late, faults>>

(* An add puts the cognify runs of its dataset back to the beginning, without *)
(* the lock of the dataset.                                                   *)
AddResets(d) ==
    /\ process = "up"
    /\ latest["cognify"][d].status \notin {"none", "initiated"}
    /\ latest' = [latest EXCEPT !["cognify"][d] = [run |-> NoRun, status |-> "initiated"]]
    /\ UNCHANGED <<setup, call, at, run, reraised, task, undo, store, startup, late, faults>>

-----------------------------------------------------------------------------
RunStep(r) ==
    \/ AnswerRun(r) \/ StartRun(r) \/ FinishAnswered(r) \/ EnterContext(r)
    \/ GatherErrors(r) \/ GatherResults(r) \/ Complete(r)
    \/ RollbackReads(r) \/ RollbackDeletes(r) \/ RollbackResets(r)
    \/ LogError(r) \/ LogAndRaise(r) \/ CloseGenerator(r)

RunFails(r) ==
    \/ StartFails(r) \/ EntryFails(r) \/ FlushFails(r) \/ CancelRun(r)
    \/ RollbackFails(r) \/ CleanupFails(r)

TaskStep(r, i) ==
    \/ BeginItem(r, i) \/ LedgerItem(r, i) \/ StoreItem(r, i) \/ MarkItem(r, i)
    \/ FlushItem(r, i) \/ FinishCustomItem(r, i)

RecoveryStep(d) ==
    \/ RecoverySkips(d) \/ RecoveryReads(d) \/ RecoveryDeletes(d)
    \/ RecoveryResets(d) \/ RecoveryLogs(d)

Next ==
    \/ \E c \in Calls : BeginCall(c)
    \/ \E r \in Runs : RunStep(r) \/ RunFails(r)
    \/ \E r \in Runs, i \in Items : TaskStep(r, i) \/ ItemRaises(r, i) \/ ItemErrs(r, i)
    \/ \E d \in Datasets : RecoveryStep(d) \/ RecoveryFails(d) \/ AddResets(d)
    \/ Crash
    \/ Restart
    \/ RecoveryEnds

Spec == Init /\ [][Next]_vars

(* The event loop gives every task that is ready its turn, what the tasks    *)
(* wait for is answered, and a task that has ended is collected.             *)
Fairness ==
    /\ \A r \in Runs : WF_vars(RunStep(r))
    /\ \A r \in Runs, i \in Items : WF_vars(TaskStep(r, i))

FairSpec == Spec /\ Fairness

-----------------------------------------------------------------------------
TypeOK ==
    /\ plan \in Plans
    /\ inGraph \in BOOLEAN
    /\ call \in [Calls -> {"idle", "starting", "driving", "done", "failed", "lost"}]
    /\ at \in [Calls -> 1..MaxSets]
    /\ run \in [Runs -> RunPcs]
    /\ reraised \subseteq Runs
    /\ task \in [Runs -> [Items -> TaskPcs]]
    /\ undo \in [Runs -> [read : SUBSET Items, target : SUBSET Items]]
    /\ graph \subseteq Items
    /\ owner \subseteq Runs \X Items
    /\ marker \in [Items -> Runs \cup {NoRun}]
    /\ latest \in [Pipelines -> [Datasets -> [run : Runs \cup {NoRun}, status : Statuses]]]
    /\ process \in {"up", "down", "recovering"}
    /\ stale \subseteq Datasets
    /\ recovery \in {<<"pick">>} \cup ({"delete", "reset", "log"} \X Datasets)
    /\ torn \subseteq Items
    /\ late \subseteq Items
    /\ faults \in 0..MaxFaults

(* A marker makes every later run skip the item.  Only two things let it     *)
(* stand for an item without artifacts: a rollback that stopped between its  *)
(* two halves, and a task that outlived its run.                             *)
MarkedIsStored ==
    \A i \in Items : marker[i] # NoRun => i \in graph \cup torn \cup late

(* The order of a rollback: where the ledger keeps the provenance, what was  *)
(* deleted without its marker can still be found by a second rollback        *)
(* (rollback.py, "Important ordering for robust retries").                   *)
TornIsInLedger ==
    ~inGraph => \A i \in torn \ late : \E r \in Runs : <<r, i>> \in owner

(* The ledger is written before the graph, so that what a run wrote can      *)
(* always be swept: no artifacts without an owner.  Late ones escape it.     *)
ArtifactsAreOwned ==
    \A i \in graph : i \in late \/ \E r \in Runs : <<r, i>> \in owner

(* The same without the exception (add_data_points.py, "a failed write can   *)
(* always be swept by the rollback handler").                                *)
FailedWritesAreSwept ==
    \A i \in graph : \E r \in Runs : <<r, i>> \in owner

(* The row that says a dataset is processed is about all of its items,       *)
(* whatever failed, crashed or was rolled back before.                       *)
CompletedIsMarked ==
    \A d \in Datasets :
        latest["cognify"][d].status = "completed" =>
            \A i \in ItemsOf[d] : marker[i] # NoRun

(* The row that says a dataset is being processed is about a run that holds  *)
(* the lock of the dataset, or was lost without an error row.                *)
StartedIsLive ==
    \A p \in Pipelines, d \in Datasets :
        latest[p][d].status = "started" =>
            run[latest[p][d].run] \in (Locked \ {"answered"}) \cup {"dropped"}

(* A rollback takes away the markers its own run set, and no others, except  *)
(* from items that several runs worked on at once.                           *)
OthersKeepTheirMarkers ==
    [][\A i \in Items \ late :
           marker[i] # NoRun /\ marker'[i] = NoRun =>
               \/ run[marker[i]] = "resetting"
               \/ \E d \in Datasets : recovery = <<"reset", d>> /\ StaleRun(d) = marker[i]]_vars

(* The datasets have an order in which every background call names its own. *)
Ordered ==
    \E rank \in [Datasets -> 1..Cardinality(Datasets)] :
        \A c \in Calls : plan[c].background =>
            \A j, k \in DOMAIN plan[c].sets :
                j < k => rank[plan[c].sets[j]] < rank[plan[c].sets[k]]

(* A run that need not wait for another one. *)
CanGoOn(r) ==
    \/ run[r] = "waiting" /\ LockFree(DatasetOf(r))
    \/ run[r] \in {"answered", "started"} /\ (Driven(r) \/ call[r[1]] = "failed")
    \/ run[r] \in Working \cup RollingBack \cup {"erring"}

(* The background calls of all callers, that hold the locks of several       *)
(* datasets before they drive the first, only wait for each other in a       *)
(* circle if they name the datasets in different orders: otherwise a run can *)
(* go on while one waits or is suspended (pipeline_execution_mode.py).       *)
NoCircularWait ==
    /\ Ordered
    /\ \E r \in Runs : run[r] \in Locked \cup {"waiting"}
    => \E r \in Runs : CanGoOn(r)

(* Calls end if the background ones agree on an order: no failure of one run *)
(* leaves another call waiting for the lock of a dataset.                    *)
CallsEnd ==
    Ordered =>
        \A c \in Calls :
            call[c] \in {"starting", "driving"} ~> call[c] \in {"done", "failed", "lost"}
=============================================================================
