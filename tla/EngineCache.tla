---------------------------- MODULE EngineCache ----------------------------
(***************************************************************************)
(* ClosingLRUCache (closing_lru_cache.py): the cache of live database      *)
(* engines.  Every value a factory returns is an engine (in subprocess     *)
(* mode, a worker process that holds an on-disk file lock), so leaving the *)
(* cache and being closed are separate events.                             *)
(*                                                                         *)
(* One action is one critical section or one uninterrupted stretch of      *)
(* thread-local code between two of them.  The cache's lock and an        *)
(* entry's lock are never held across an action.                           *)
(***************************************************************************)
EXTENDS Naturals, FiniteSets

CONSTANTS
  Keys,         \* cache keys: the argument tuples of a decorated factory
  Vals,         \* the engines that factories may ever build (bounds a run)
  KeyOf,        \* KeyOf[v]: the key whose factory builds v
  Callers,      \* threads and tasks that use the cache
  LoopCallers,  \* the callers that are tasks of the one event loop
  Reaper,       \* the idle-TTL reaper thread
  Subprocess,   \* keys whose engines have _subprocess_mode
  MaxSize,      \* maxsize, a positive integer
  Datasets,     \* datasets the queue may give a slot to
  DatasetOf,    \* DatasetOf[k]: the dataset k's database belongs to, or NoVal
  Slots,        \* slots of the dataset queue: how many datasets are active
  NoVal         \* None

ASSUME ConstantsAssumption ==
  /\ KeyOf \in [Vals -> Keys]
  /\ DatasetOf \in [Keys -> Datasets \cup {NoVal}]
  /\ NoVal \notin Vals /\ NoVal \notin Keys /\ NoVal \notin Datasets
  /\ LoopCallers \subseteq Callers
  /\ Reaper \notin Callers
  /\ Subprocess \subseteq Keys
  /\ MaxSize \in Nat \ {0} /\ Slots \in Nat

Actors == Callers \cup {Reaper}
Opt(S) == S \cup {NoVal}

VARIABLES
  (* ClosingLRUCache *)
  cached,    \* _cache: key -> value of its entry, or NoVal
  older,     \* the order of the OrderedDict: <<a, b>> when a is older than b
  closing,   \* _closing: key -> values whose pending-close future is listed
  (* _LeasedCacheEntry, one per value *)
  retired,   \* in_cache = False and close_requested = True (always set as one)
  marked,    \* closed = True
  proxied,   \* proxy is not None: the entry itself references the proxy
  stale,     \* last_touched lies more than the idle TTL in the past
  (* the engines and who uses them *)
  stage,     \* how far the life of the value has come
  holders,   \* callers that reference the proxy
  active,    \* active_dataset_ids(): the datasets that hold a queue slot
  (* the code each actor is in the middle of *)
  pc, want, waits, built, popped, hand, parting, expired,
  (* history *)
  forced,    \* values that evict_and_close closed under their holders
  abandoned  \* values whose future a bounded wait dropped

cacheVars == <<cached, older>>
entryVars == <<retired, marked, proxied>>
callVars  == <<want, waits, built>>
history   == <<forced, abandoned>>
vars == <<cached, older, closing, retired, marked, proxied, stale, stage,
          holders, active, pc, want, waits, built, popped, hand, parting,
          expired, forced, abandoned>>

(***************************************************************************)
(* A close is "registered" when its future enters the registry, then runs  *)
(* on the close thread pool or as a task of the loop, has "ended" when     *)
(* close() is over, and is "closed" once the future is resolved.           *)
(***************************************************************************)
InFlight == {"registered", "onPool", "onLoop", "ended"}
Stages   == {"unborn", "open", "closed"} \cup InFlight
Waiting  == {"await", "block", "drain"}
Pcs == {"idle", "recheck", "build", "insert", "detach", "force", "sweep"}
         \cup Waiting

TypeOK ==
  /\ cached \in [Keys -> Opt(Vals)]
  /\ older \subseteq Keys \X Keys
  /\ closing \in [Keys -> SUBSET Vals]
  /\ retired \subseteq Vals
  /\ marked \subseteq Vals
  /\ proxied \subseteq Vals
  /\ stale \subseteq Vals
  /\ stage \in [Vals -> Stages]
  /\ holders \in [Vals -> SUBSET Callers]
  /\ active \subseteq Datasets
  /\ pc \in [Actors -> Pcs]
  /\ want \in [Callers -> Opt(Keys)]
  /\ waits \in [Callers -> SUBSET Vals]
  /\ built \in [Callers -> Opt(Vals)]
  /\ popped \in [Actors -> SUBSET Vals]
  /\ hand \in [Actors -> Opt(Vals)]
  /\ parting \in [Actors -> Opt(Vals)]
  /\ expired \subseteq Keys
  /\ forced \subseteq Vals
  /\ abandoned \subseteq Vals

Init ==
  /\ cached = [k \in Keys |-> NoVal]
  /\ older = {}
  /\ closing = [k \in Keys |-> {}]
  /\ retired = {} /\ marked = {} /\ proxied = {} /\ stale = {}
  /\ stage = [v \in Vals |-> "unborn"]
  /\ holders = [v \in Vals |-> {}]
  /\ active = {}
  /\ pc = [t \in Actors |-> "idle"]
  /\ want = [c \in Callers |-> NoVal]
  /\ waits = [c \in Callers |-> {}]
  /\ built = [c \in Callers |-> NoVal]
  /\ popped = [t \in Actors |-> {}]
  /\ hand = [t \in Actors |-> NoVal]
  /\ parting = [t \in Actors |-> NoVal]
  /\ expired = {}
  /\ forced = {} /\ abandoned = {}

-----------------------------------------------------------------------------
CachedKeys == {k \in Keys : cached[k] # NoVal}

(* OrderedDict: drop the keys of K, and move_to_end. *)
Without(K) == {p \in older : p[1] \notin K /\ p[2] \notin K}
MoveToEnd(k, others) ==
  Without({k}) \cup {<<other, k>> : other \in others \ {k}}

(* _drop_pending_close.  A name with an underscore is a mutant: what the    *)
(* definition that follows it would be after a plausible mistake.          *)
Drop_WholeKey(f) == [closing EXCEPT ![KeyOf[f]] = {}]
Drop(f) == [closing EXCEPT ![KeyOf[f]] = @ \ {f}]

(* The keys of K that are listed, and the dictionary once they are popped. *)
Present_Unchecked(K) == K
Present(K) == K \cap CachedKeys
Remaining(K) == [k \in Keys |-> IF k \in K THEN NoVal ELSE cached[k]]

(* What keeps a proxy alive: its entry, a caller, a local variable of the  *)
(* actor that detaches the entry.                                          *)
Referenced(v) ==
  \/ v \in proxied
  \/ holders[v] # {}
  \/ \E t \in Actors : parting[t] = v

(* An actor starts something new, or goes on, only between two sections.   *)
Free(t) == hand[t] = NoVal /\ parting[t] = NoVal

(* The loop runs one task at a time and switches only at an await.         *)
Suspended(c) == pc[c] \in {"idle", "await", "drain"} /\ Free(c)
MayRun(t) ==
  t \in LoopCallers => \A c \in LoopCallers \ {t} : Suspended(c)

-----------------------------------------------------------------------------
(* lease(): the one proxy of the entry; it raises on a closed entry.       *)
Lease(c, v) ==
  IF v \in marked
  THEN UNCHANGED <<holders, proxied>>
  ELSE /\ holders' = [holders EXCEPT ![v] = @ \cup {c}]
       /\ proxied' = proxied \cup {v}

(* The cache hit both acquisition paths begin with.                        *)
Hit(c, k) ==
  /\ cached[k] # NoVal
  /\ older' = MoveToEnd(k, CachedKeys)
  /\ stale' = stale \ {cached[k]}
  /\ Lease(c, cached[k])
  /\ pc' = [pc EXCEPT ![c] = "idle"]
  /\ want' = [want EXCEPT ![c] = NoVal]
  /\ UNCHANGED <<cached, closing, retired, marked, stage, active, waits, built,
                 popped, hand, parting, expired, history>>

(* A miss: remember the key and the closes in flight for it, go on at p.   *)
Miss(c, k, pending, p) ==
  /\ cached[k] = NoVal
  /\ want' = [want EXCEPT ![c] = k]
  /\ waits' = [waits EXCEPT ![c] = pending]
  /\ pc' = [pc EXCEPT ![c] = p]
  /\ UNCHANGED <<cacheVars, closing, entryVars, stale, stage, holders, active,
                 built, popped, hand, parting, expired, history>>

(* get_or_create: a thread without a loop blocks on the closes in flight;  *)
(* on the running loop the call never waits.                               *)
LookupSync_BlocksLoop(c, k) ==
  \/ Hit(c, k)
  \/ IF closing[k] = {} THEN Miss(c, k, {}, "build")
     ELSE Miss(c, k, closing[k], "block")
LookupSync(c, k) ==
  \/ Hit(c, k)
  \/ IF c \in LoopCallers \/ closing[k] = {}
     THEN Miss(c, k, {}, "build")
     ELSE Miss(c, k, closing[k], "block")

GetOrCreate(c, k) ==
  /\ pc[c] = "idle" /\ Free(c) /\ MayRun(c)
  /\ LookupSync(c, k)

(* aget_or_create: the task awaits the closes in flight, then calls        *)
(* get_or_create (Recheck).                                                *)
AGetOrCreate(c, k) ==
  /\ c \in LoopCallers
  /\ pc[c] = "idle" /\ Free(c) /\ MayRun(c)
  /\ \/ Hit(c, k)
     \/ Miss(c, k, closing[k], IF closing[k] = {} THEN "recheck" ELSE "await")

Recheck(c) ==
  /\ pc[c] = "recheck" /\ MayRun(c)
  /\ LookupSync(c, want[c])

(* Every future of the snapshot is resolved (or was given up on).          *)
WaitOver(c) ==
  /\ pc[c] \in Waiting /\ MayRun(c)
  /\ \A f \in waits[c] : stage[f] = "closed"
  /\ pc' = [pc EXCEPT ![c] = CASE pc[c] = "await" -> "recheck"
                               [] pc[c] = "block" -> "build"
                               [] pc[c] = "drain" -> "idle"]
  /\ waits' = [waits EXCEPT ![c] = {}]
  /\ UNCHANGED <<cacheVars, closing, entryVars, stale, stage, holders, active,
                 want, built, popped, hand, parting, expired, history>>

(* PENDING_CLOSE_WAIT_SECONDS elapsed: the future leaves the registry.     *)
WaitTimeout(c, f) ==
  /\ pc[c] \in Waiting /\ MayRun(c)
  /\ f \in waits[c] /\ stage[f] # "closed"
  /\ waits' = [waits EXCEPT ![c] = @ \ {f}]
  /\ closing' = Drop(f)
  /\ abandoned' = abandoned \cup {f}
  /\ UNCHANGED <<cacheVars, entryVars, stale, stage, holders, active, pc, want,
                 built, popped, hand, parting, expired, forced>>

(* The awaiting task itself is cancelled: the exception propagates.        *)
CancelWait(c) ==
  /\ pc[c] \in {"await", "drain"} /\ MayRun(c)
  /\ pc' = [pc EXCEPT ![c] = "idle"]
  /\ want' = [want EXCEPT ![c] = NoVal]
  /\ waits' = [waits EXCEPT ![c] = {}]
  /\ UNCHANGED <<cacheVars, closing, entryVars, stale, stage, holders, active,
                 built, popped, hand, parting, expired, history>>

(* await_pending_closes, for the keys K of a database being deleted.       *)
AwaitPendingCloses(c, K) ==
  /\ c \in LoopCallers
  /\ pc[c] = "idle" /\ Free(c) /\ MayRun(c)
  /\ \E k \in K : closing[k] # {}
  /\ waits' = [waits EXCEPT ![c] = UNION {closing[k] : k \in K}]
  /\ pc' = [pc EXCEPT ![c] = "drain"]
  /\ UNCHANGED <<cacheVars, closing, entryVars, stale, stage, holders, active,
                 want, built, popped, hand, parting, expired, history>>

(* factory(), outside every lock; it may raise.                            *)
Build(c) ==
  /\ pc[c] = "build" /\ MayRun(c)
  /\ \E v \in Vals :
       /\ stage[v] = "unborn" /\ KeyOf[v] = want[c]
       /\ stage' = [stage EXCEPT ![v] = "open"]
       /\ built' = [built EXCEPT ![c] = v]
  /\ pc' = [pc EXCEPT ![c] = "insert"]
  /\ UNCHANGED <<cacheVars, closing, entryVars, stale, holders, active, want,
                 waits, popped, hand, parting, expired, history>>

BuildFails(c) ==
  /\ pc[c] = "build" /\ MayRun(c)
  /\ pc' = [pc EXCEPT ![c] = "idle"]
  /\ want' = [want EXCEPT ![c] = NoVal]
  /\ UNCHANGED <<cacheVars, closing, entryVars, stale, stage, holders, active,
                 waits, built, popped, hand, parting, expired, history>>

(* pinned_predicate: the dataset of the key holds a slot.                  *)
Pinnable == {k \in Keys : DatasetOf[k] # NoVal}
Pinned_AnySlot == IF active = {} THEN {} ELSE Pinnable
Pinned == {k \in Keys : DatasetOf[k] \in active}

(* The eviction loop asks the predicate of one candidate after another.    *)
(* The cache lock it holds keeps the entries and their order, but not the  *)
(* slots: those change on the event loop.  A task of the loop sees them    *)
(* unchanged through its whole scan; while a thread scans they move freely *)
(* between two questions, so that it may find any key with a dataset       *)
(* pinned at one moment and unpinned at another, whatever holds a slot     *)
(* when the scan begins or ends.  MaySpare: keys it may find pinned;       *)
(* MustSpare: keys it finds pinned each time.                              *)
MaySpare(c) ==
  IF c \in LoopCallers THEN Pinned ELSE IF Slots = 0 THEN {} ELSE Pinnable
MustSpare(c) == IF c \in LoopCallers THEN Pinned ELSE {}

(* The keys E the loop takes: the least recently used that is not found    *)
(* pinned, until there is room or every candidate is found pinned.         *)
Surplus == IF Cardinality(CachedKeys) < MaxSize
           THEN 0 ELSE Cardinality(CachedKeys) - MaxSize + 1
Victims(c, E) ==
  /\ E \cap MustSpare(c) = {}
  /\ \A e \in E, u \in CachedKeys \ (E \cup MaySpare(c)) : <<e, u>> \in older
  /\ \/ Cardinality(E) = Surplus
     \/ Cardinality(E) < Surplus /\ CachedKeys \ E \subseteq MaySpare(c)

(* The insertion: the loser of a race leases the winner's entry and closes *)
(* its own value; otherwise make room and publish the new entry.           *)
Discard_Leaks(c, v) == UNCHANGED hand
Discard_Winner(c, v) == hand' = [hand EXCEPT ![c] = cached[want[c]]]
Discard(c, v) == hand' = [hand EXCEPT ![c] = v]

InsertLoses(c) ==
  /\ pc[c] = "insert" /\ MayRun(c)
  /\ cached[want[c]] # NoVal
  /\ older' = MoveToEnd(want[c], CachedKeys)
  /\ Lease(c, cached[want[c]])
  /\ Discard(c, built[c])
  /\ built' = [built EXCEPT ![c] = NoVal]
  /\ want' = [want EXCEPT ![c] = NoVal]
  /\ pc' = [pc EXCEPT ![c] = "idle"]
  /\ UNCHANGED <<cached, closing, retired, marked, stale, stage, active, waits,
                 popped, parting, expired, history>>

Insert(c) ==
  /\ pc[c] = "insert" /\ MayRun(c)
  /\ cached[want[c]] = NoVal
  /\ \E E \in SUBSET CachedKeys :
       /\ Victims(c, E)
       /\ cached' = [k \in Keys |-> IF k = want[c] THEN built[c]
                                    ELSE IF k \in E THEN NoVal ELSE cached[k]]
       /\ older' = Without(E) \cup {<<k, want[c]>> : k \in CachedKeys \ E}
       /\ popped' = [popped EXCEPT ![c] = {cached[k] : k \in E}]
  /\ Lease(c, built[c])
  /\ built' = [built EXCEPT ![c] = NoVal]
  /\ want' = [want EXCEPT ![c] = NoVal]
  /\ pc' = [pc EXCEPT ![c] = "detach"]
  /\ UNCHANGED <<closing, retired, marked, stale, stage, active, waits, hand,
                 parting, expired, history>>

-----------------------------------------------------------------------------
(* evict, evict_where and cache_clear pop their entries in one section and *)
(* then detach them one by one.                                            *)
Pop(t, K, p) ==
  /\ cached' = Remaining(K)
  /\ older' = Without(K)
  /\ popped' = [popped EXCEPT ![t] = {cached[k] : k \in K}]
  /\ pc' = [pc EXCEPT ![t] = p]
  /\ UNCHANGED <<closing, entryVars, stale, stage, holders, active, callVars,
                 hand, parting, history>>

EvictWhere(c, K) ==
  /\ pc[c] = "idle" /\ Free(c) /\ MayRun(c)
  /\ Present(K) # {}
  /\ Pop(c, Present(K), "detach")
  /\ UNCHANGED expired

Evict(c, k) == EvictWhere(c, {k})
CacheClear(c) == EvictWhere(c, Keys)

(* evict_and_close: the entry is closed at once, whoever holds its proxy.  *)
EvictAndClose(c, k) ==
  /\ pc[c] = "idle" /\ Free(c) /\ MayRun(c)
  /\ cached[k] # NoVal
  /\ Pop(c, {k}, "force")
  /\ UNCHANGED expired

(* evict_and_close_idle: the expired keys are chosen in one section, each  *)
(* asked whether it is pinned at a moment of its own (the reaper is a      *)
(* thread: the slots move meanwhile), and each is closed in later ones,    *)
(* whatever became of it since.                                            *)
Idle == {k \in Subprocess : cached[k] # NoVal /\ cached[k] \in stale}
SweepChoose ==
  /\ pc[Reaper] = "idle"
  /\ \E S \in SUBSET (IF Slots = 0 THEN {} ELSE Pinnable) : expired' = Idle \ S
  /\ expired' # {}
  /\ pc' = [pc EXCEPT ![Reaper] = "sweep"]
  /\ UNCHANGED <<cacheVars, closing, entryVars, stale, stage, holders, active,
                 callVars, popped, hand, parting, history>>

SweepNext ==
  /\ pc[Reaper] = "sweep"
  /\ \E k \in expired :
       /\ expired' = expired \ {k}
       /\ Pop(Reaper, Present({k}), "force")

(* detach_from_cache, the section under the entry's lock.  An entry whose  *)
(* proxy exists is closed by the proxy's finalizer, else by the detacher.  *)
ClosesNow_IgnoresProxy(v) == v \notin marked
ClosesNow(v) == v \notin proxied /\ v \notin marked

Detach(t) ==
  /\ pc[t] = "detach" /\ Free(t) /\ MayRun(t)
  /\ \E v \in popped[t] :
       /\ popped' = [popped EXCEPT ![t] = @ \ {v}]
       /\ retired' = retired \cup {v}
       /\ proxied' = proxied \ {v}
       /\ marked' = IF ClosesNow(v) THEN marked \cup {v} ELSE marked
       /\ hand' = [hand EXCEPT ![t] = IF ClosesNow(v) THEN v ELSE NoVal]
       /\ parting' = [parting EXCEPT ![t] = IF v \in proxied THEN v ELSE NoVal]
  /\ UNCHANGED <<cacheVars, closing, stale, stage, holders, active, pc,
                 callVars, expired, history>>

(* evict_and_close, the section under the entry's lock.                    *)
ForceDetach(t) ==
  /\ pc[t] = "force" /\ Free(t) /\ MayRun(t)
  /\ \E v \in popped[t] :
       /\ popped' = [popped EXCEPT ![t] = @ \ {v}]
       /\ retired' = retired \cup {v}
       /\ proxied' = proxied \ {v}
       /\ marked' = marked \cup {v}
       /\ hand' = [hand EXCEPT ![t] = IF v \in marked THEN NoVal ELSE v]
       /\ parting' = [parting EXCEPT ![t] = IF v \in proxied THEN v ELSE NoVal]
       /\ forced' = forced \cup {v}
  /\ UNCHANGED <<cacheVars, closing, stale, stage, holders, active, pc,
                 callVars, expired, abandoned>>

(* All popped entries are detached: the operation returns, or the reaper   *)
(* goes on to the next expired key.                                        *)
DetachDone(t) ==
  /\ pc[t] \in {"detach", "force"} /\ Free(t) /\ MayRun(t)
  /\ popped[t] = {}
  /\ pc' = [pc EXCEPT ![t] = IF t = Reaper /\ expired # {} THEN "sweep" ELSE "idle"]
  /\ UNCHANGED <<cacheVars, closing, entryVars, stale, stage, holders, active,
                 callVars, popped, hand, parting, expired, history>>

-----------------------------------------------------------------------------
(* proxy_released, run by the actor t that dropped the last reference to   *)
(* the proxy of v: a requested close starts now, in this actor's hands.    *)
CloseDue_Again(v) == v \in retired
CloseDue_Forgotten(v) == FALSE
CloseDue(v) == v \in retired /\ v \notin marked
Finalize(t, v) ==
  /\ marked' = IF CloseDue(v) THEN marked \cup {v} ELSE marked
  /\ hand' = [hand EXCEPT ![t] = IF CloseDue(v) THEN v ELSE NoVal]

(* A caller lets go of an engine.                                          *)
Release(c, v) ==
  /\ pc[c] = "idle" /\ Free(c) /\ MayRun(c)
  /\ c \in holders[v]
  /\ holders' = [holders EXCEPT ![v] = @ \ {c}]
  /\ IF v \notin proxied /\ holders[v] = {c} /\ (\A t \in Actors : parting[t] # v)
     THEN Finalize(c, v)
     ELSE UNCHANGED <<marked, hand>>
  /\ UNCHANGED <<cacheVars, closing, retired, proxied, stale, stage, active, pc,
                 callVars, popped, parting, expired, history>>

(* "del proxy_to_drop": the detaching actor's own reference.               *)
DropParting(t) ==
  /\ hand[t] = NoVal /\ parting[t] # NoVal /\ MayRun(t)
  /\ parting' = [parting EXCEPT ![t] = NoVal]
  /\ IF holders[parting[t]] = {}
     THEN Finalize(t, parting[t])
     ELSE UNCHANGED <<marked, hand>>
  /\ UNCHANGED <<cacheVars, closing, retired, proxied, stale, stage, holders,
                 active, pc, callVars, popped, expired, history>>

(* _track_close: list a fresh future, then call close() outside the lock.  *)
Register(t) ==
  /\ hand[t] # NoVal /\ stage[hand[t]] = "open" /\ MayRun(t)
  /\ closing' = [closing EXCEPT ![KeyOf[hand[t]]] = @ \cup {hand[t]}]
  /\ stage' = [stage EXCEPT ![hand[t]] = "registered"]
  /\ UNCHANGED <<cacheVars, entryVars, stale, holders, active, pc, callVars,
                 popped, hand, parting, expired, history>>

(* _start_close of an async close(): a subprocess engine closes on the     *)
(* close threads, any other as a task of the running loop.                 *)
StartAsync(t) ==
  /\ hand[t] # NoVal /\ stage[hand[t]] = "registered" /\ MayRun(t)
  /\ KeyOf[hand[t]] \in Subprocess \/ t \in LoopCallers
  /\ stage' = [stage EXCEPT ![hand[t]] =
                 IF KeyOf[hand[t]] \in Subprocess THEN "onPool" ELSE "onLoop"]
  /\ hand' = [hand EXCEPT ![t] = NoVal]
  /\ UNCHANGED <<cacheVars, closing, entryVars, stale, holders, active, pc,
                 callVars, popped, parting, expired, history>>

(* _start_close that is over when it returns: a synchronous close(), one   *)
(* that raises, a pool that rejects work, asyncio.run without a loop.      *)
StartInline(t) ==
  /\ hand[t] # NoVal /\ stage[hand[t]] = "registered" /\ MayRun(t)
  /\ stage' = [stage EXCEPT ![hand[t]] = "ended"]
  /\ UNCHANGED <<cacheVars, closing, entryVars, stale, holders, active, pc,
                 callVars, popped, hand, parting, expired, history>>

(* close() is over: it returned, raised, or its task was cancelled.        *)
CloseEnds(v, where) ==
  /\ stage[v] = where
  /\ stage' = [stage EXCEPT ![v] = "ended"]
  /\ UNCHANGED <<cacheVars, closing, entryVars, stale, holders, active, pc,
                 callVars, popped, hand, parting, expired, history>>

EndPoolClose(v) == CloseEnds(v, "onPool")
EndLoopClose(v) == (\A c \in LoopCallers : Suspended(c)) /\ CloseEnds(v, "onLoop")

(* _resolve_pending_close: leave the registry and wake the waiters.        *)
Resolve(v) ==
  /\ stage[v] = "ended"
  /\ stage' = [stage EXCEPT ![v] = "closed"]
  /\ closing' = Drop(v)
  /\ hand' = [t \in Actors |-> IF hand[t] = v THEN NoVal ELSE hand[t]]
  /\ UNCHANGED <<cacheVars, entryVars, stale, holders, active, pc, callVars,
                 popped, parting, expired, history>>

-----------------------------------------------------------------------------
(* touch(), at the release of a dataset-queue slot.                        *)
Touch(k) ==
  /\ cached[k] # NoVal /\ cached[k] \in stale
  /\ stale' = stale \ {cached[k]}
  /\ UNCHANGED <<cacheVars, closing, entryVars, stage, holders, active, pc,
                 callVars, popped, hand, parting, expired, history>>

(* The idle TTL of an entry passes.                                        *)
Age(k) ==
  /\ k \in Subprocess
  /\ cached[k] # NoVal /\ cached[k] \notin stale
  /\ stale' = stale \cup {cached[k]}
  /\ UNCHANGED <<cacheVars, closing, entryVars, stage, holders, active, pc,
                 callVars, popped, hand, parting, expired, history>>

(* The dataset queue gives a dataset one of its slots, which pins every    *)
(* key of that dataset, or takes it back.                                  *)
Pin(d) ==
  /\ d \notin active /\ Cardinality(active) < Slots
  /\ active' = active \cup {d}
  /\ UNCHANGED <<cacheVars, closing, entryVars, stale, stage, holders, pc,
                 callVars, popped, hand, parting, expired, history>>

Unpin(d) ==
  /\ d \in active
  /\ active' = active \ {d}
  /\ UNCHANGED <<cacheVars, closing, entryVars, stale, stage, holders, pc,
                 callVars, popped, hand, parting, expired, history>>

(* The steps an actor takes on its own once it has begun an operation.     *)
Continue(t) ==
  \/ Detach(t) \/ ForceDetach(t) \/ DetachDone(t)
  \/ DropParting(t) \/ Register(t) \/ StartAsync(t) \/ StartInline(t)
CreatorStep(c) ==
  Recheck(c) \/ Build(c) \/ BuildFails(c) \/ InsertLoses(c) \/ Insert(c)

Next ==
  \/ \E c \in Callers, k \in Keys :
       GetOrCreate(c, k) \/ AGetOrCreate(c, k) \/ Evict(c, k) \/ EvictAndClose(c, k)
  \/ \E c \in Callers :
       \/ CreatorStep(c) \/ WaitOver(c) \/ CancelWait(c) \/ CacheClear(c)
       \/ \E K \in SUBSET Keys : EvictWhere(c, K) \/ AwaitPendingCloses(c, K)
       \/ \E v \in Vals : Release(c, v) \/ WaitTimeout(c, v)
  \/ SweepChoose \/ SweepNext
  \/ \E t \in Actors : Continue(t)
  \/ \E v \in Vals : EndPoolClose(v) \/ EndLoopClose(v) \/ Resolve(v)
  \/ \E k \in Keys : Touch(k) \/ Age(k)
  \/ \E d \in Datasets : Pin(d) \/ Unpin(d)

Spec == Init /\ [][Next]_vars

(* Threads are scheduled, so an actor inside an operation goes on and a    *)
(* close on the pool ends.  The ready queue of the loop is first-in        *)
(* first-out: a task that could resume again and again, and a close that   *)
(* runs as a task, get their turn (strong fairness).  No timeout, release  *)
(* or new operation is assumed ever to happen.                             *)
Fairness ==
  /\ \A t \in Actors : WF_vars(Continue(t))
  /\ \A c \in Callers : WF_vars(CreatorStep(c) \/ WaitOver(c))
  /\ \A c \in LoopCallers : SF_vars(WaitOver(c))
  /\ WF_vars(SweepNext)
  /\ WF_vars(\E v \in Vals : EndPoolClose(v) \/ Resolve(v))
  /\ SF_vars(\E v \in Vals : EndLoopClose(v))
FairSpec == Spec /\ Fairness

-----------------------------------------------------------------------------
(* close() is called at most once on an engine: a value whose close is     *)
(* under way or over is in nobody's hands any more, and no two actors      *)
(* (finalizer, evictor, loser of an insertion, reaper) ever hold the same  *)
(* value to close.                                                         *)
CloseOnce ==
  \A t \in Actors : hand[t] # NoVal =>
    /\ stage[hand[t]] \in {"open", "registered", "ended"}
    /\ \A u \in Actors \ {t} : hand[u] # hand[t]

(* A lookup never hands out an engine that is closed or about to be: what  *)
(* the cache lists is open, of the right key, and not requested to close,  *)
(* so lease() never raises.                                                *)
CachedIsOpen ==
  \A k \in Keys : cached[k] # NoVal =>
    /\ KeyOf[cached[k]] = k
    /\ stage[cached[k]] = "open"
    /\ cached[k] \notin retired \cup marked
    /\ \A t \in Actors : hand[t] # cached[k]

(* An engine is never closed under a caller that still holds its proxy,    *)
(* whichever way it left the cache, unless evict_and_close demanded it.    *)
LeaseKeepsOpen ==
  \A v \in Vals : holders[v] # {} /\ stage[v] # "open" => v \in forced

(* Nobody ever waits for a close that has not started: every future in     *)
(* the registry, and every future a creator waits for, belongs to a close  *)
(* of that key that is under way (or, for the waiter, over).               *)
PendingHasStarted ==
  /\ \A k \in Keys : \A f \in closing[k] : KeyOf[f] = k /\ stage[f] \in InFlight
  /\ \A c \in Callers : \A f \in waits[c] : stage[f] \in InFlight \cup {"closed"}

(* Until it is over, a close stays visible to the creators of its key; a   *)
(* second close of the key does not hide it.  Only a bounded wait that     *)
(* ran out takes it out of their sight.                                    *)
InFlightIsVisible ==
  \A v \in Vals : stage[v] \in InFlight => v \in closing[KeyOf[v]] \cup abandoned

(* Who owns an engine: the cache, the actor that popped it, the creator    *)
(* that built it, or the actor that is about to close it; never two.       *)
CacheOwns ==
  \A k \in Keys : cached[k] # NoVal =>
    /\ KeyOf[cached[k]] = k
    /\ stage[cached[k]] = "open"
    /\ cached[k] \notin retired

PopperOwns ==
  \A t \in Actors : \A v \in popped[t] :
    /\ stage[v] = "open" /\ v \notin retired
    /\ cached[KeyOf[v]] # v
    /\ \A u \in Actors \ {t} : v \notin popped[u]

(* A value nobody but its creator has ever had in hands.                   *)
Untouched(v) ==
  /\ v \notin retired \cup proxied
  /\ holders[v] = {}
  /\ \A t \in Actors : parting[t] # v

OwnedElsewhere(v) ==
  \/ cached[KeyOf[v]] = v
  \/ \E t \in Actors : v \in popped[t]

BuilderOwns ==
  \A c \in Callers : built[c] # NoVal =>
    /\ pc[c] = "insert" /\ KeyOf[built[c]] = want[c]
    /\ stage[built[c]] = "open" /\ Untouched(built[c])
    /\ ~OwnedElsewhere(built[c])
    /\ \A t \in Actors : hand[t] # built[c]
    /\ \A d \in Callers \ {c} : built[d] # built[c]

CloserOwns ==
  \A t \in Actors : hand[t] # NoVal =>
    /\ stage[hand[t]] \in {"open", "registered", "ended"}
    /\ hand[t] \in marked \/ Untouched(hand[t])
    /\ ~OwnedElsewhere(hand[t])
    /\ \A u \in Actors \ {t} : hand[u] # hand[t]

(* Only a detached entry is marked closed or forced; it has given up its   *)
(* proxy; a caller holds a proxy of an entry that was never marked, or     *)
(* lost it to evict_and_close; a value that is not open is in no entry.    *)
EntriesAgree ==
  /\ marked \cup forced \subseteq retired /\ retired \cap proxied = {}
  /\ \A t \in Actors : parting[t] # NoVal => parting[t] \in retired
  /\ \A v \in Vals :
       /\ holders[v] # {} => v \in proxied \cup retired
       /\ holders[v] # {} /\ v \in marked => v \in forced
       /\ stage[v] # "open" => v \in marked \/ Untouched(v)
       /\ stage[v] = "unborn" => Untouched(v)

(* An engine has one owner at a time from its construction to its close.   *)
Ownership == CacheOwns /\ PopperOwns /\ BuilderOwns /\ CloserOwns /\ EntriesAgree

(* The overflow past maxsize ("overflow maxsize instead of closing a value *)
(* that is still actively in use") stays with the datasets the queue can   *)
(* admit at once: a cache that is too large lists, but for the key         *)
(* inserted last, keys of at most Slots datasets, however the slots move   *)
(* between insertions.  It says so of insertions that run on the event     *)
(* loop.  A thread that inserts is excepted: a slot that goes from one     *)
(* dataset to another in the middle of its scan spares the keys of both.   *)
OverflowBounded ==
  Callers \subseteq LoopCallers =>
    \/ Cardinality(CachedKeys) <= MaxSize
    \/ \E A \in SUBSET Datasets, k \in Keys :
         /\ Cardinality(A) <= Slots
         /\ \A j \in CachedKeys \ {k} : DatasetOf[j] \in A

(* No engine is lost: one that is open and was never detached is listed,   *)
(* popped, with its creator or with its closer; one that is out of the     *)
(* cache and that nobody references is with its closer, until close() is   *)
(* under way.                                                              *)
Abandoned(v) == v \in retired /\ ~Referenced(v)
InHands(v) == \E t \in Actors : hand[t] = v
NothingLeaks ==
  \A v \in Vals :
    /\ stage[v] = "open" /\ v \notin retired =>
         OwnedElsewhere(v) \/ InHands(v) \/ \E c \in Callers : built[c] = v
    /\ stage[v] = "open" /\ Abandoned(v) => InHands(v)
    /\ stage[v] = "registered" => InHands(v)

(* An engine that is out of the cache and that nobody references is        *)
(* eventually closed: no path leaks a worker process.                      *)
DetachedIsClosed == \A v \in Vals : Abandoned(v) ~> stage[v] = "closed"

(* An engine that was built is put into the cache or, when another creator *)
(* of the key was faster, closed.                                          *)
LoserIsClosed ==
  \A v \in Vals : (\E c \in Callers : built[c] = v)
                    ~> (cached[KeyOf[v]] = v \/ stage[v] = "closed")

(* A wait ends without the help of its timeout: it can form no cycle with  *)
(* holders, with the loop it would block, or with another waiter.          *)
WaitsEnd == \A c \in Callers : pc[c] \in Waiting ~> pc[c] \notin Waiting
=============================================================================
