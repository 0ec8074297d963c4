----------------------------- MODULE DatasetRuns -----------------------------
(***************************************************************************)
(* The users of the dataset queue: calls that enter the database context   *)
(* of a dataset (context_global_variables.py), under its lock or not       *)
(* (locks/dataset_lock.py), and pipeline runs that work on their items in  *)
(* tasks of their own (pipelines/operations/run_tasks.py).                 *)
(*                                                                         *)
(* A scope is one `async with set_database_global_context_variables`.  A   *)
(* call opens one, and an update a second one inside, for the pipeline it  *)
(* runs in its own task.  An item may run a pipeline as well               *)
(* (cognify_session): it finds the dataset marked as held, because it      *)
(* copied the context of its parent, and needs a slot of its own.          *)
(***************************************************************************)
EXTENDS DatasetQueue

CONSTANTS
    Calls,          \* tasks of requests and of the library's user
    Items,          \* tasks that pipeline runs create for their items
    Jobs,           \* what calls do, a subset of AllJobs
    MaxLeak,        \* bound: how deep an entry may outlive its scopes
    NoTask,
    NoDataset

(* scope: what takes no lock, a search or a write (orphaned rows of a source, *)
(* startup recovery, skills); delete, update: a write under the lock and a    *)
(* scope; run: a pipeline under both.                                         *)
AllJobs == {"scope", "delete", "update", "run"}
Locking == {"delete", "update", "run"}

ASSUME RunsAssumption ==
    /\ Tasks = Calls \cup Items
    /\ Calls \cap Items = {}
    /\ Jobs \subseteq AllJobs
    /\ MaxLeak \in Nat
    /\ NoTask \notin Tasks
    /\ NoDataset \notin Datasets

VARIABLES
    owner,          \* who holds the lock of each dataset
    pc,
    job,
    ds,             \* the dataset a task is about
    open,           \* scopes a task has taken the slot for and not left
    parent,         \* the call whose gather waits for an item
    raised          \* calls whose gather has seen an item raise

runVars == <<owner, pc, job, ds, open, parent, raised>>
vars == <<queueVars, runVars>>

CallPcs == {"idle", "lock", "slot", "enter", "inside", "gather", "leave"}
ItemPcs == {"idle", "work", "slot", "enter", "inside", "raise"}

Init ==
    /\ QueueInit
    /\ owner = [d \in Datasets |-> NoTask]
    /\ pc = [t \in Tasks |-> "idle"]
    /\ job = [t \in Tasks |-> "none"]
    /\ ds = [t \in Tasks |-> NoDataset]
    /\ open = [t \in Tasks |-> 0]
    /\ parent = [i \in Items |-> NoTask]
    /\ raised = {}

Goto(t, l) == pc' = [pc EXCEPT ![t] = l]

Kids(c) == {i \in Items : parent[i] = c}

(***************************************************************************)
(* The end of a call's operation: `async with` of the lock, if any, exits. *)
(* The task lives on, with the slots that no scope gave back.              *)
(***************************************************************************)
EndCall(c) ==
    /\ Goto(c, "idle")
    /\ owner' = [d \in Datasets |-> IF owner[d] = c THEN NoTask ELSE owner[d]]
    /\ job' = [job EXCEPT ![c] = "none"]
    /\ ds' = [ds EXCEPT ![c] = NoDataset]

Begin(c, j, d) ==
    /\ pc[c] = "idle"
    /\ Goto(c, IF j \in Locking THEN "lock" ELSE "slot")
    /\ job' = [job EXCEPT ![c] = j]
    /\ ds' = [ds EXCEPT ![c] = d]
    /\ UNCHANGED <<queueVars, owner, open, parent, raised>>

(* get_dataset_lock refuses a task that holds a slot of the same dataset; a *)
(* slot of another dataset is only logged.                                  *)
LockRefused(c) ==
    /\ pc[c] = "lock"
    /\ depth[c][ds[c]] > 0
    /\ EndCall(c)
    /\ UNCHANGED <<queueVars, open, parent, raised>>

TakeLock(c) ==
    /\ pc[c] = "lock"
    /\ depth[c][ds[c]] = 0
    /\ owner[ds[c]] = NoTask
    /\ owner' = [owner EXCEPT ![ds[c]] = c]
    /\ Goto(c, "slot")
    /\ UNCHANGED <<queueVars, job, ds, open, parent, raised>>

CancelWait_KeepsLock(c) ==
    /\ \/ pc[c] = "lock"
       \/ pc[c] = "slot" /\ depth[c][ds[c]] = 0
    /\ Goto(c, "idle")
    /\ job' = [job EXCEPT ![c] = "none"]
    /\ ds' = [ds EXCEPT ![c] = NoDataset]
    /\ UNCHANGED <<queueVars, owner, open, parent, raised>>

(* A call is cancelled while it waits for the lock or for its first slot. *)
CancelWait(c) ==
    /\ \/ pc[c] = "lock"
       \/ pc[c] = "slot" /\ depth[c][ds[c]] = 0
    /\ EndCall(c)
    /\ UNCHANGED <<queueVars, open, parent, raised>>

(***************************************************************************)
(* Entering a scope: the slot first, then what resolves the databases and  *)
(* can raise.  When it raises, __aexit__ does not run and the slot stays.  *)
(***************************************************************************)
TakeSlot(t) ==
    /\ pc[t] = "slot"
    /\ EnsureSlot(t, ds[t])
    /\ open' = [open EXCEPT ![t] = @ + 1]
    /\ Goto(t, "enter")
    /\ UNCHANGED <<owner, job, ds, parent, raised>>

EnterDone(t) ==
    /\ pc[t] = "enter"
    /\ Goto(t, "inside")
    /\ UNCHANGED <<queueVars, owner, job, ds, open, parent, raised>>

(* Code under a scope, or an item in the context of its run, resolves the *)
(* engines of the dataset, again when they were closed in between.        *)
Resolve(t) ==
    /\ pc[t] \in {"inside", "work"}
    /\ engines' = engines \cup {ds[t]}
    /\ UNCHANGED <<permits, depth, expired, keepAlive, runVars>>

EnterFails(t) ==
    /\ pc[t] = "enter"
    /\ depth[t][ds[t]] < open[t] + MaxLeak
    /\ open' = [open EXCEPT ![t] = @ - 1]
    /\ \/ t \in Items /\ Goto(t, "raise") /\ UNCHANGED <<owner, job, ds>>
       \/ t \in Calls /\ open[t] > 1 /\ Goto(t, "leave") /\ UNCHANGED <<owner, job, ds>>
       \/ t \in Calls /\ open[t] <= 1 /\ EndCall(t)
    /\ UNCHANGED <<queueVars, parent, raised>>

LeaveCall_Unlocks(c) ==
    /\ \/ pc[c] = "leave"
       \/ pc[c] = "inside" /\ job[c] \in {"scope", "delete"}
    /\ ReleaseSlot(c, ds[c])
    /\ open' = [open EXCEPT ![c] = @ - 1]
    /\ IF open[c] > 1
       THEN /\ Goto(c, "leave")
            /\ owner' = [owner EXCEPT ![ds[c]] = NoTask]
            /\ UNCHANGED <<job, ds>>
       ELSE EndCall(c)
    /\ UNCHANGED <<parent, raised>>

(* __aexit__ of a call: one level up, and at the outermost the end. *)
LeaveCall(c) ==
    /\ \/ pc[c] = "leave"
       \/ pc[c] = "inside" /\ job[c] \in {"scope", "delete"}
    /\ ReleaseSlot(c, ds[c])
    /\ open' = [open EXCEPT ![c] = @ - 1]
    /\ IF open[c] > 1 THEN Goto(c, "leave") /\ UNCHANGED <<owner, job, ds>> ELSE EndCall(c)
    /\ UNCHANGED <<parent, raised>>

LeaveItem(i) ==
    /\ pc[i] = "inside"
    /\ ReleaseSlot(i, ds[i])
    /\ open' = [open EXCEPT ![i] = @ - 1]
    /\ Goto(i, "work")
    /\ UNCHANGED <<owner, job, ds, parent, raised>>

(* An update runs the add pipeline in its own task, inside its scope. *)
UpdateRuns(c) ==
    /\ pc[c] = "inside"
    /\ job[c] = "update"
    /\ open[c] = 1
    /\ Goto(c, "slot")
    /\ UNCHANGED <<queueVars, owner, job, ds, open, parent, raised>>

(***************************************************************************)
(* run_tasks: one task per item, and a gather that returns when all are    *)
(* done or the first has raised.  The others go on as nobody's.            *)
(***************************************************************************)
Spawn(c, I) ==
    /\ pc[c] = "inside"
    /\ \/ job[c] = "run"
       \/ job[c] = "update" /\ open[c] = 2
    /\ \A i \in I : pc[i] = "idle"
    /\ pc' = [t \in Tasks |-> IF t = c THEN "gather" ELSE IF t \in I THEN "work" ELSE pc[t]]
    /\ job' = [t \in Tasks |-> IF t \in I THEN "item" ELSE job[t]]
    /\ ds' = [t \in Tasks |-> IF t \in I THEN ds[c] ELSE ds[t]]
    /\ parent' = [i \in Items |-> IF i \in I THEN c ELSE parent[i]]
    /\ UNCHANGED <<queueVars, owner, open, raised>>

Gathered(c) ==
    /\ pc[c] = "gather"
    /\ Kids(c) = {} \/ c \in raised
    /\ Goto(c, "leave")
    /\ parent' = [i \in Items |-> IF parent[i] = c THEN NoTask ELSE parent[i]]
    /\ raised' = raised \ {c}
    /\ UNCHANGED <<queueVars, owner, job, ds, open>>

(* An item runs a pipeline on its dataset (cognify_session): the lock is *)
(* marked as held in the context it copied, the slot is not.             *)
ItemRuns(i) ==
    /\ pc[i] = "work"
    /\ Goto(i, "slot")
    /\ UNCHANGED <<queueVars, owner, job, ds, open, parent, raised>>

(* The task of an item ends; its done-callback frees what it holds before *)
(* the gather resumes.                                                    *)
ItemEnds(i) ==
    /\ pc[i] \in {"work", "raise"}
    /\ ReleaseAll(i)
    /\ Goto(i, "idle")
    /\ job' = [job EXCEPT ![i] = "none"]
    /\ ds' = [ds EXCEPT ![i] = NoDataset]
    /\ parent' = [parent EXCEPT ![i] = NoTask]
    /\ \/ pc[i] = "work" /\ UNCHANGED raised
       \/ raised' = raised \cup ({parent[i]} \ {NoTask})
    /\ UNCHANGED <<owner, open>>

(* The task of a call ends: a new one may come in its place. *)
CallEnds(c) ==
    /\ pc[c] = "idle"
    /\ EntriesOf(c) # {}
    /\ ReleaseAll(c)
    /\ UNCHANGED runVars

CallStep(c) ==
    \/ TakeLock(c) \/ LockRefused(c) \/ LeaveCall(c) \/ UpdateRuns(c) \/ Gathered(c)
    \/ \E I \in SUBSET Items : Spawn(c, I)

Next ==
    \/ \E c \in Calls :
         \/ CallStep(c) \/ CancelWait(c) \/ CallEnds(c)
         \/ \E j \in Jobs, d \in Datasets : Begin(c, j, d)
    \/ \E t \in Tasks : TakeSlot(t) \/ EnterDone(t) \/ EnterFails(t) \/ Resolve(t)
    \/ \E i \in Items : LeaveItem(i) \/ ItemRuns(i) \/ ItemEnds(i)
    \/ (ReapChoose \/ \E d \in Datasets : ReapNext(d)) /\ UNCHANGED runVars

Spec == Init /\ [][Next]_vars

(***************************************************************************)
(* Fairness: the loop runs every task that can go on; locks and semaphores *)
(* of asyncio are first-in first-out, so one that is free again and again  *)
(* is obtained; an item has finitely many steps, so one that is between    *)
(* two of them again and again ends.  No call is assumed to begin, to be   *)
(* cancelled or to end its task.                                           *)
(***************************************************************************)
Fairness ==
    /\ \A c \in Calls : WF_vars(CallStep(c)) /\ SF_vars(TakeLock(c))
    /\ \A t \in Tasks : SF_vars(TakeSlot(t)) /\ WF_vars(EnterDone(t) \/ EnterFails(t))
    /\ \A i \in Items : WF_vars(LeaveItem(i)) /\ SF_vars(ItemEnds(i))

FairSpec == Spec /\ Fairness
-----------------------------------------------------------------------------
TypeOK ==
    /\ permits \in 0..Slots
    /\ depth \in [Tasks -> [Datasets -> Nat]]
    /\ engines \subseteq Datasets
    /\ expired \subseteq Datasets
    /\ keepAlive \in BOOLEAN
    /\ owner \in [Datasets -> Calls \cup {NoTask}]
    /\ pc \in [Tasks -> CallPcs \cup ItemPcs]
    /\ \A c \in Calls : pc[c] \in CallPcs
    /\ \A i \in Items : pc[i] \in ItemPcs
    /\ job \in [Tasks -> AllJobs \cup {"none", "item"}]
    /\ ds \in [Tasks -> Datasets \cup {NoDataset}]
    /\ open \in [Tasks -> Nat]
    /\ parent \in [Items -> Calls \cup {NoTask}]
    /\ raised \subseteq Calls

(* Every permit is either in the semaphore or under exactly one entry: no    *)
(* nesting, failure, cancellation or end of a task frees a slot twice or     *)
(* loses it (queue.py, _make_release and the done-callback).                 *)
SlotsConserved == permits + Cardinality(Entries) = Slots

(* A task that is inside n scopes of a dataset has an entry at least n deep: *)
(* an inner exit never takes away the slot of an outer scope (queue.py,      *)
(* "an inner exit never steals an outer holder's slot").                     *)
ScopeKeepsSlot == \A t \in Tasks : open[t] > 0 => depth[t][ds[t]] >= open[t]

Orphan(t) == t \in Items /\ pc[t] # "idle" /\ parent[t] = NoTask

Writing(t, d) ==
    /\ ds[t] = d
    /\ t \in Calls => job[t] \in Locking /\ pc[t] \in {"inside", "gather", "leave"}

(* The call on whose behalf a task works; an orphan works for nobody. *)
Root(t) == IF t \in Items /\ ~Orphan(t) THEN parent[t] ELSE t

(* Among the operations that lock their dataset and the items they wait for, *)
(* only those of one call write to a dataset (dataset_lock.py, "a delete     *)
(* waits for an in-flight pipeline run on the dataset (and vice versa)").    *)
LockedExclude ==
    \A t, u \in Tasks, d \in Datasets :
        /\ Writing(t, d) /\ Writing(u, d)
        /\ ~Orphan(t) /\ ~Orphan(u)
        => Root(t) = Root(u)

(* Who is inside a scope of a dataset, or an item of a run on it, even of  *)
(* one that is over: the item keeps the engines of the context it copied.  *)
Uses(t, d) ==
    /\ ds[t] = d
    /\ pc[t] \in {"inside", "gather", "leave"} \/ t \in Items

(* An item whose run returned without it and that has no scope of its own: *)
(* no entry of the queue stands for it.                                    *)
LeftBehind(t) == Orphan(t) /\ open[t] = 0

(* No engine is closed under a task that goes on to use it, neither by the    *)
(* last holder of another task nor by the end of a task (queue.py 380-381,    *)
(* "nothing is mid-query here because teardown only fires when no other task  *)
(* holds the dataset").  The code breaks that promise in two ways, which are  *)
(* excepted: a sweep closes what it chose while it was idle, whoever came in  *)
(* between (closing_lru_cache.py, "a request racing the sweep"); and an item  *)
(* that its run left behind, when the gather of run_tasks returned with       *)
(* another item's exception, loses its engine to the run's own teardown or    *)
(* to that of any later holder.                                               *)
TeardownSparesUsers ==
    [][\A d \in engines \ engines' :
          \/ d \in expired \ expired'
          \/ \A t \in Tasks : Uses(t, d)' => LeftBehind(t)']_vars

(* A task that need not wait for another one. *)
CanGoOn(t) ==
    \/ pc[t] \in {"enter", "inside", "leave", "work", "raise"}
    \/ pc[t] = "lock" /\ (owner[ds[t]] = NoTask \/ depth[t][ds[t]] > 0)
    \/ pc[t] = "slot" /\ (permits > 0 \/ depth[t][ds[t]] > 0)
    \/ pc[t] = "gather" /\ (Kids(t) = {} \/ t \in raised)

(* An entry that the scopes its task is in will not give back. *)
Stays(t, d) == ds[t] # d \/ open[t] = 0

(* Locks and slots never wait for each other in a circle: when tasks wait and *)
(* none can go on, every slot is either leaked or held by a call whose run    *)
(* waits for a slot of its own item (dataset_lock.py, "dataset lock -> queue  *)
(* slot" is the order that excludes the deadlock of the two).                 *)
NoCircularWait ==
    /\ \E t \in Tasks : pc[t] \in {"lock", "slot", "gather"}
    /\ \A t \in Tasks : ~CanGoOn(t)
    => /\ permits = 0
       /\ \A c \in Tasks, d \in Datasets : depth[c][d] > 0 =>
            /\ c \in Calls
            /\ \/ Stays(c, d)
               \/ pc[c] = "gather" /\ \E i \in Kids(c) : pc[i] = "slot"

(* A slot that is held and that no scope will give back. *)
Leaked ==
    \E c \in Calls, d \in Datasets :
        depth[c][d] > IF ds[c] = d THEN open[c] ELSE 0

NestedWait == \E i \in Items : pc[i] = "slot"

(* Unless slots stay leaked or a nested run waits for ever, every call gets *)
(* the lock and the slot it waits for: "dataset lock -> queue slot" excludes *)
(* the deadlock of slot holders and lock holders.                           *)
LockAndSlotWaitsEnd ==
    \A c \in Calls :
        \/ pc[c] \in {"lock", "slot"} ~> pc[c] \notin {"lock", "slot"}
        \/ <>[]Leaked
        \/ <>[]NestedWait
=============================================================================
