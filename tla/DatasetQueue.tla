---------------------------- MODULE DatasetQueue ----------------------------
(***************************************************************************)
(* The dataset queue (dataset_queue/queue.py): a semaphore whose permits   *)
(* are held per (task, dataset) pair, with a depth so that a task may open *)
(* the same dataset again, and the engines that the last holder of a       *)
(* dataset keeps warm or tears down.  The operations are action operators; *)
(* the tasks that call them are in DatasetRuns.                            *)
(*                                                                         *)
(* Everything between two awaits of an asyncio loop is one step.  The only *)
(* await of the queue is that of the semaphore, before the slot is noted.  *)
(***************************************************************************)
EXTENDS Integers, FiniteSets

CONSTANTS
    Tasks,          \* asyncio tasks
    Datasets,
    Slots           \* DATASET_QUEUE_MAX_CONCURRENT

ASSUME QueueAssumption ==
    /\ IsFiniteSet(Tasks)
    /\ IsFiniteSet(Datasets)
    /\ Slots \in Nat \ {0}

VARIABLES
    permits,        \* value of the semaphore
    depth,          \* depth of the SlotEntry of (task, dataset); 0: there is none
    engines,        \* datasets with open engines in the engine caches
    expired,        \* datasets whose engines the reaper has yet to close
    keepAlive       \* SUBPROCESS_IDLE_TTL_SECONDS > 0, a setting

engineVars == <<engines, expired, keepAlive>>
queueVars == <<permits, depth, engineVars>>

QueueInit ==
    /\ permits = Slots
    /\ depth = [t \in Tasks |-> [d \in Datasets |-> 0]]
    /\ engines = {}
    /\ expired = {}
    /\ keepAlive \in BOOLEAN

Entries == {e \in Tasks \X Datasets : depth[e[1]][e[2]] > 0}

EntriesOf(t) == {e \in Entries : e[1] = t}

(* active_dataset_ids: what pins an engine in the engine cache. *)
Active == {d \in Datasets : \E t \in Tasks : depth[t][d] > 0}

OtherHolds_Deeper(t, d) == \E u \in Tasks \ {t} : depth[u][d] > 1
OtherHolds(t, d) == \E u \in Tasks \ {t} : depth[u][d] > 0

Bump_SameLevel(t, d) ==
    /\ depth[t][d] > 0
    /\ UNCHANGED <<depth, permits, engineVars>>

(***************************************************************************)
(* ensure_slot: a task that has an entry for the dataset goes deeper;      *)
(* another one waits for the semaphore and makes an entry.                 *)
(***************************************************************************)
Bump(t, d) ==
    /\ depth[t][d] > 0
    /\ depth' = [depth EXCEPT ![t][d] = @ + 1]
    /\ UNCHANGED <<permits, engineVars>>

Admit(t, d) ==
    /\ depth[t][d] = 0
    /\ permits > 0
    /\ permits' = permits - 1
    /\ depth' = [depth EXCEPT ![t][d] = 1]
    /\ UNCHANGED engineVars

EnsureSlot(t, d) == Bump(t, d) \/ Admit(t, d)

(* The engines that remain after the last holder of d has left: touched and *)
(* kept warm, or evicted with a forced close.                               *)
AfterLastHolder(d) == IF keepAlive THEN engines ELSE engines \ {d}

ReleaseSlot_EachLevel(t, d) ==
    /\ depth[t][d] > 0
    /\ depth' = [depth EXCEPT ![t][d] = @ - 1]
    /\ permits' = permits + 1
    /\ engines' = IF depth[t][d] = 1 /\ ~OtherHolds(t, d)
                  THEN AfterLastHolder(d) ELSE engines
    /\ UNCHANGED <<expired, keepAlive>>

(* release_slot_for with an entry: one level up, or out. *)
ReleaseSlot(t, d) ==
    /\ depth[t][d] > 0
    /\ depth' = [depth EXCEPT ![t][d] = @ - 1]
    /\ permits' = IF depth[t][d] = 1 THEN permits + 1 ELSE permits
    /\ engines' = IF depth[t][d] = 1 /\ ~OtherHolds(t, d)
                  THEN AfterLastHolder(d) ELSE engines
    /\ UNCHANGED <<expired, keepAlive>>

ReleaseAll_Forgets(t) ==
    /\ depth' = [depth EXCEPT ![t] = [d \in Datasets |-> 0]]
    /\ UNCHANGED <<permits, engineVars>>

(* The done-callback of a task: whatever it still holds, at any depth.  It *)
(* neither touches nor evicts engines.                                     *)
ReleaseAll(t) ==
    /\ depth' = [depth EXCEPT ![t] = [d \in Datasets |-> 0]]
    /\ permits' = permits + Cardinality(EntriesOf(t))
    /\ UNCHANGED engineVars

(***************************************************************************)
(* The reaper, a thread: a sweep chooses engines that were idle for the    *)
(* TTL and whose dataset is inactive, each at a moment of its own (slots   *)
(* move while it scans), and closes them one by one, whoever has come for  *)
(* them in between.  That a scan is over before its closes begin is left   *)
(* open.  The first release that keeps engines warm starts the reaper;     *)
(* here it is taken to run from the start.                                 *)
(***************************************************************************)
ReapChoose ==
    /\ keepAlive
    /\ \E d \in engines \ (Active \cup expired) : expired' = expired \cup {d}
    /\ UNCHANGED <<permits, depth, engines, keepAlive>>

ReapNext(d) ==
    /\ d \in expired
    /\ expired' = expired \ {d}
    /\ engines' = engines \ {d}
    /\ UNCHANGED <<permits, depth, keepAlive>>
=============================================================================
