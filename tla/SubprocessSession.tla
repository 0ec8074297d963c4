-------------------------- MODULE SubprocessSession --------------------------
(***************************************************************************)
(* A session of the main process with the worker process of an embedded    *)
(* database (cognee_db_workers/harness.py): calls of several threads share  *)
(* the two queues of one worker, a reader thread routes the responses, a    *)
(* call that meets a broken transport or a deadline replaces the worker,    *)
(* replays what set it up and tries again, and one thread may shut the      *)
(* session down at any time.                                                *)
(*                                                                         *)
(* A call is one `call` or `call_async`: both take the same steps.  Ids of  *)
(* requests come from a counter and are unique; here a pair of the call and *)
(* its attempt is the id.  A call works on a table through the proxy of the *)
(* table, which knows the handle the worker gave it                         *)
(* (vector/lancedb/subprocess/proxy.py).  Initially the session is ready    *)
(* and all tables are open, in the order of their numbers.                  *)
(***************************************************************************)
EXTENDS Naturals, FiniteSets

CONSTANTS
    Calls,          \* calls made through the session
    NumTables,      \* tables that are open
    TablesOf,       \* the tables a call may choose
    Releasers,      \* the calls that may be a release
    MaxRetries,     \* SUBPROCESS_MAX_RETRIES
    MaxFaults,      \* bound: crashes, missed deadlines and the shutdown
    MayShutDown,    \* whether the owner shuts the session down
    Replay,         \* the sender of the requests that set a worker up
    NoCall

ASSUME SessionAssumption ==
    /\ NumTables \in Nat \ {0}
    /\ TablesOf \in [Calls -> SUBSET (1..NumTables)]
    /\ Releasers \subseteq Calls
    /\ MaxRetries \in Nat
    /\ MaxFaults \in Nat
    /\ MayShutDown \in BOOLEAN
    /\ Replay \notin Calls
    /\ NoCall \notin Calls \cup {Replay}

Tables == 1..NumTables
Handles == Tables
NoHandle == 0
Tries == 0..MaxRetries

(* Timeouts in a row that make a call replace the worker. *)
TimeoutsBeforeRespawn == 2

VARIABLES
    closed,         \* _closed_event
    pending,        \* _pending: calls whose attempt waits for its response
    reader,         \* the reader thread: "none", "reading", "ending"
    streak,         \* _consecutive_timeouts
    owner,          \* who holds _respawn_lock
    steps,          \* _replay_steps: tables that are opened again
    remap,          \* _handle_remap
    handle          \* the handle of each proxy

VARIABLES
    worker,         \* the current process: "starting", "serving", "dead"
    reqs,           \* _req_q
    resps,          \* _resp_q
    registry,       \* which table each handle of the worker is
    nextHandle      \* the counter of the registry

VARIABLES
    pc,
    req,            \* the request of a call: hid is the handle its proxy put in,
                    \* sent the one _apply_remap made of it
    try,            \* attempts that have failed
    fut,            \* the future of the current attempt
    todo,           \* replay steps the respawn has not run yet
    moved           \* new_remap of the respawn in progress

VARIABLES
    stage,          \* of the shutdown
    wasClosed       \* already_closed in shutdown

VARIABLES
    faults,         \* history: crashes, missed deadlines and the shutdown so far
    served,         \* history: times a worker has run the request of a call
    misled          \* history: requests have worked on the table of another,
                    \* strays of attempts that had ended, or awaited ones

sessionVars == <<closed, pending, reader, streak, owner, steps, remap, handle>>
workerVars == <<worker, reqs, resps, registry, nextHandle>>
callVars == <<pc, req, try, fut, todo, moved>>
shutVars == <<stage, wasClosed>>
ghostVars == <<faults, served, misled>>
vars == <<sessionVars, workerVars, callVars, shutVars, ghostVars>>

Request(c) == [from |-> c, try |-> try[c], op |-> req[c].op, table |-> req[c].table,
               hid |-> req[c].sent]
OpenRequest(t) == [from |-> Replay, try |-> 0, op |-> "open", table |-> t, hid |-> NoHandle]
Response(c, k, h) == [to |-> c, try |-> k, hid |-> h]
Ready == Response(NoCall, 0, NoHandle)

Requests == [from : Calls \cup {Replay}, try : Tries, op : {"use", "release", "open"},
             table : Tables, hid : Handles \cup {NoHandle}]
Responses == [to : Calls \cup {Replay, NoCall}, try : Tries, hid : Handles \cup {NoHandle}]

ProxyRequests == [op : {"use", "release"}, table : Tables, hid : Handles, sent : Handles]
BuildRequest(o, t) == [op |-> o, table |-> t, hid |-> handle[t], sent |-> handle[t]]
NoRequest == [op |-> "use", table |-> 1, hid |-> 1, sent |-> 1]

Empty == [h \in Handles |-> NoHandle]
(* dict.get(h, h) *)
Moved(m, h) == IF m[h] = NoHandle THEN h ELSE m[h]

(* The registry of futures knows the id. *)
Awaited(c, k) == c \in pending /\ try[c] = k

Alive == worker # "dead"
(* Nobody reads the request queue of a dead worker. *)
WorkerGone ==
    /\ worker' = "dead"
    /\ reqs' = {}
    /\ registry' = Empty
    /\ nextHandle' = 1
Outcomes == {"returned", "raised"}
Begun(c) == pc[c] \notin {"idle"} \cup Outcomes

(* Steps of a respawn, all under the respawn lock.  In those of Replaying  *)
(* the respawn reads the response queue itself.                            *)
Replaying == {"ready", "replay", "replayed"}
Respawning == {"join", "start"} \cup Replaying

Init ==
    /\ closed = FALSE
    /\ pending = {}
    /\ reader = "reading"
    /\ streak = 0
    /\ owner = NoCall
    /\ steps = Tables
    /\ remap = Empty
    /\ handle = [t \in Tables |-> t]
    /\ worker = "serving"
    /\ reqs = {}
    /\ resps = {}
    /\ registry = [h \in Handles |-> h]
    /\ nextHandle = NumTables + 1
    /\ pc = [c \in Calls |-> "idle"]
    /\ req = [c \in Calls |-> NoRequest]
    /\ try = [c \in Calls |-> 0]
    /\ fut = [c \in Calls |-> "none"]
    /\ todo = {}
    /\ moved = Empty
    /\ stage = "no"
    /\ wasClosed = FALSE
    /\ faults = 0
    /\ served = [c \in Calls |-> 0]
    /\ misled = {}

Goto(c, l) == pc' = [pc EXCEPT ![c] = l]

(* The locals of a call go with it. *)
EndCall(c, outcome) ==
    /\ Goto(c, outcome)
    /\ req' = [req EXCEPT ![c] = NoRequest]
    /\ try' = [try EXCEPT ![c] = 0]

TransportError_OneMore(c) ==
    \/ /\ try[c] > MaxRetries
       /\ EndCall(c, "raised")
    \/ /\ try[c] <= MaxRetries
       /\ try' = [try EXCEPT ![c] = @ + 1]
       /\ Goto(c, "respawn")
       /\ UNCHANGED req

(* SubprocessTransportError in the retry loop of call and call_async. *)
TransportError(c) ==
    \/ /\ try[c] = MaxRetries
       /\ EndCall(c, "raised")
    \/ /\ try[c] < MaxRetries
       /\ try' = [try EXCEPT ![c] = @ + 1]
       /\ Goto(c, "respawn")
       /\ UNCHANGED req

-----------------------------------------------------------------------------
(* One attempt: _issue, _issue_async.                                      *)

(* A method of the proxy of table t builds its request. *)
Use(c, t) ==
    /\ pc[c] = "idle"
    /\ t \in TablesOf[c]
    /\ handle[t] # NoHandle
    /\ req' = [req EXCEPT ![c] = BuildRequest("use", t)]
    /\ Goto(c, "check")
    /\ UNCHANGED <<sessionVars, workerVars, try, fut, todo, moved, shutVars, ghostVars>>

(* release: the proxy forgets its handle and its replay step first. *)
Release(c, t) ==
    /\ pc[c] = "idle"
    /\ c \in Releasers
    /\ t \in TablesOf[c]
    /\ handle[t] # NoHandle
    /\ req' = [req EXCEPT ![c] = BuildRequest("release", t)]
    /\ handle' = [handle EXCEPT ![t] = NoHandle]
    /\ steps' = steps \ {t}
    /\ Goto(c, "check")
    /\ UNCHANGED <<closed, pending, reader, streak, owner, remap, workerVars,
                   try, fut, todo, moved, shutVars, ghostVars>>

(* _check_alive and _apply_remap, without a lock. *)
Check(c) ==
    /\ pc[c] = "check"
    /\ \/ /\ closed
          /\ TransportError(c)
       \/ /\ ~closed /\ ~Alive
          /\ Goto(c, "gone")
          /\ UNCHANGED <<req, try>>
       \/ /\ ~closed /\ Alive
          /\ req' = [req EXCEPT ![c].sent = Moved(remap, req[c].hid)]
          /\ Goto(c, "register")
          /\ UNCHANGED try
    /\ UNCHANGED <<sessionVars, workerVars, fut, todo, moved, shutVars, ghostVars>>

(* _check_alive has seen a dead process: by now it may have been replaced. *)
CloseGone(c) ==
    /\ pc[c] = "gone"
    /\ closed' = TRUE
    /\ TransportError(c)
    /\ UNCHANGED <<pending, reader, streak, owner, steps, remap, handle, workerVars,
                   fut, todo, moved, shutVars, ghostVars>>

RegisterPending_Unchecked(c) ==
    /\ pc[c] = "register"
    /\ pending' = pending \cup {c}
    /\ fut' = [fut EXCEPT ![c] = "waiting"]
    /\ Goto(c, "put")
    /\ UNCHANGED <<closed, reader, streak, owner, steps, remap, handle, workerVars,
                   req, try, todo, moved, shutVars, ghostVars>>

RegisterPending(c) ==
    /\ pc[c] = "register"
    /\ \/ /\ closed
          /\ TransportError(c)
          /\ UNCHANGED <<pending, fut>>
       \/ /\ ~closed
          /\ pending' = pending \cup {c}
          /\ fut' = [fut EXCEPT ![c] = "waiting"]
          /\ Goto(c, "put")
          /\ UNCHANGED <<req, try>>
    /\ UNCHANGED <<closed, reader, streak, owner, steps, remap, handle, workerVars,
                   todo, moved, shutVars, ghostVars>>

(* _req_q is read now: it may be the queue of a new worker. *)
Put(c) ==
    /\ pc[c] = "put"
    /\ reqs' = IF Alive THEN reqs \cup {Request(c)} ELSE reqs
    /\ Goto(c, "wait")
    /\ UNCHANGED <<sessionVars, worker, resps, registry, nextHandle, req, try, fut, todo, moved, shutVars, ghostVars>>

(* The response: _reset_timeout_counter, and the entry is popped. *)
Return(c) ==
    /\ pc[c] = "wait"
    /\ fut[c] = "answered"
    /\ streak' = 0
    /\ pending' = pending \ {c}
    /\ fut' = [fut EXCEPT ![c] = "none"]
    /\ EndCall(c, "returned")
    /\ UNCHANGED <<closed, reader, owner, steps, remap, handle, workerVars,
                   todo, moved, shutVars, ghostVars>>

(* SubprocessTransportError from the future. *)
Fail(c) ==
    /\ pc[c] = "wait"
    /\ fut[c] = "failed"
    /\ pending' = pending \ {c}
    /\ fut' = [fut EXCEPT ![c] = "none"]
    /\ TransportError(c)
    /\ UNCHANGED <<closed, reader, streak, owner, steps, remap, handle, workerVars,
                   todo, moved, shutVars, ghostVars>>

(* The deadline of the call: the entry is popped, the request stays in the *)
(* queue.  With a retry left the call records its timeout in the streak,   *)
(* which belongs to the session, not to the caller.                        *)
Expire(c) ==
    /\ pc[c] = "wait"
    /\ fut[c] = "waiting"
    /\ faults < MaxFaults
    /\ faults' = faults + 1
    /\ fut' = [fut EXCEPT ![c] = "none"]
    /\ pending' = pending \ {c}
    /\ \/ /\ try[c] = MaxRetries
          /\ EndCall(c, "raised")
          /\ UNCHANGED streak
       \/ /\ try[c] < MaxRetries
          /\ try' = [try EXCEPT ![c] = @ + 1]
          /\ streak' = streak + 1
          /\ Goto(c, IF streak + 1 >= TimeoutsBeforeRespawn THEN "force" ELSE "respawn")
          /\ UNCHANGED req
    /\ UNCHANGED <<closed, reader, owner, steps, remap, handle, workerVars,
                   todo, moved, shutVars, served, misled>>

(* _force_respawn_after_timeouts: closes without the lock of the registry. *)
ForceRespawn(c) ==
    /\ pc[c] = "force"
    /\ closed' = TRUE
    /\ streak' = 0
    /\ Goto(c, "respawn")
    /\ UNCHANGED <<pending, reader, owner, steps, remap, handle, workerVars,
                   req, try, fut, todo, moved, shutVars, ghostVars>>

-----------------------------------------------------------------------------
(* _respawn, under _respawn_lock.                                          *)

EnterRespawn(c) ==
    /\ pc[c] = "respawn"
    /\ owner = NoCall
    /\ \/ /\ ~closed /\ Alive               \* a sibling has respawned already
          /\ Goto(c, "check")
          /\ UNCHANGED <<closed, owner>>
       \/ /\ closed \/ ~Alive
          /\ closed' = TRUE
          /\ owner' = c
          /\ Goto(c, "join")
    /\ UNCHANGED <<pending, reader, streak, steps, remap, handle, workerVars,
                   req, try, fut, todo, moved, shutVars, ghostVars>>

ReplaceWorker_Unjoined(c) ==
    /\ pc[c] = "join"
    /\ worker' = "starting"
    /\ reqs' = {}
    /\ resps' = {}
    /\ registry' = Empty
    /\ nextHandle' = 1
    /\ Goto(c, "ready")
    /\ UNCHANGED <<sessionVars, req, try, fut, todo, moved, shutVars, ghostVars>>

(* The reader is joined, the old process killed, and respawn_factory makes *)
(* a process and two queues: nobody else looks while the session is closed. *)
ReplaceWorker(c) ==
    /\ pc[c] = "join"
    /\ reader = "none"
    /\ worker' = "starting"
    /\ reqs' = {}
    /\ resps' = {}
    /\ registry' = Empty
    /\ nextHandle' = 1
    /\ Goto(c, "ready")
    /\ UNCHANGED <<sessionVars, req, try, fut, todo, moved, shutVars,
                   ghostVars>>

AwaitReady(c) ==
    /\ pc[c] = "ready"
    /\ Ready \in resps
    /\ resps' = resps \ {Ready}
    /\ todo' = steps
    /\ Goto(c, "replay")
    /\ UNCHANGED <<sessionVars, worker, reqs, registry, nextHandle, req, try, fut, moved, shutVars, ghostVars>>

(* An exception leaves the respawn, and with it the retry loop: the lock is *)
(* released and the session stays closed.                                  *)
Abort(c) ==
    /\ owner' = NoCall
    /\ todo' = {}
    /\ moved' = Empty
    /\ EndCall(c, "raised")
    /\ UNCHANGED <<closed, pending, reader, streak, steps, remap, handle,
                   fut, shutVars, ghostVars>>

(* The sentinel never came: the worker died first, or it was taken away. *)
NeverReady(c) ==
    /\ pc[c] = "ready"
    /\ worker # "starting"
    /\ Ready \notin resps
    /\ WorkerGone
    /\ Abort(c)
    /\ UNCHANGED resps

First_Reversed(S, t) == t \in S /\ \A u \in S : t >= u
(* Steps are replayed in the order of their registration. *)
First(S, t) == t \in S /\ \A u \in S : t <= u

(* _raw_call_locked, the request ... *)
ReplayStep(c) ==
    /\ pc[c] = "replay"
    /\ \E t \in Tables : First(todo, t) /\ reqs' = reqs \cup {OpenRequest(t)}
    /\ Goto(c, "replayed")
    /\ UNCHANGED <<sessionVars, worker, resps, registry, nextHandle, req, try, fut, todo, moved, shutVars, ghostVars>>

(* ... and its response: apply_new_handle binds the proxy, if it is not   *)
(* released, and the old handle is mapped to the new one.                  *)
ReplayAnswer(c, t, m) ==
    /\ pc[c] = "replayed"
    /\ First(todo, t)
    /\ m \in resps
    /\ m.to = Replay
    /\ resps' = resps \ {m}
    /\ todo' = todo \ {t}
    /\ \/ /\ handle[t] # NoHandle
          /\ handle' = [handle EXCEPT ![t] = m.hid]
          /\ moved' = [moved EXCEPT ![handle[t]] = m.hid]
       \/ /\ handle[t] = NoHandle
          /\ UNCHANGED <<handle, moved>>
    /\ Goto(c, "replay")
    /\ UNCHANGED <<closed, pending, reader, streak, owner, steps, remap, worker, reqs,
                   registry, nextHandle, req, try, fut, shutVars, ghostVars>>

(* A response with another id, or none because the worker is gone. *)
ReplayBreaks(c) ==
    /\ pc[c] = "replayed"
    /\ \/ \E m \in resps : m.to # Replay /\ resps' = resps \ {m}
       \/ resps = {} /\ ~Alive /\ UNCHANGED resps
    /\ Abort(c)
    /\ UNCHANGED <<worker, reqs, registry, nextHandle>>

(* The composed map, and _closed_event.clear(). *)
Composed == [h \in Handles |-> IF remap[h] # NoHandle THEN Moved(moved, remap[h]) ELSE moved[h]]

Reopen(c) ==
    /\ pc[c] = "replay"
    /\ todo = {}
    /\ remap' = Composed
    /\ moved' = Empty
    /\ closed' = FALSE
    /\ Goto(c, "start")
    /\ UNCHANGED <<pending, reader, streak, owner, steps, handle, workerVars,
                   req, try, fut, todo, shutVars, ghostVars>>

(* _start_reader_thread; the retry loop issues the request again. *)
StartReader(c) ==
    /\ pc[c] = "start"
    /\ reader' = "reading"
    /\ owner' = NoCall
    /\ Goto(c, "check")
    /\ UNCHANGED <<closed, pending, streak, steps, remap, handle, workerVars,
                   req, try, fut, todo, moved, shutVars, ghostVars>>

-----------------------------------------------------------------------------
(* The reader thread: _reader_loop.                                        *)

(* A response resolves the future that waits for its id, or is dropped. A  *)
(* reader that waits in get() may take one more after the session closed.  *)
ReaderTakes(m) ==
    /\ reader = "reading"
    /\ m \in resps
    /\ resps' = resps \ {m}
    /\ \/ /\ Awaited(m.to, m.try)
          /\ pending' = pending \ {m.to}
          /\ fut' = [fut EXCEPT ![m.to] = "answered"]
       \/ /\ ~Awaited(m.to, m.try)
          /\ UNCHANGED <<pending, fut>>
    /\ UNCHANGED <<closed, reader, streak, owner, steps, remap, handle, worker, reqs,
                   registry, nextHandle, pc, req, try, todo, moved,
                   shutVars, ghostVars>>

ReaderLeaves ==
    /\ reader = "reading"
    /\ closed \/ (~Alive /\ resps = {})
    /\ reader' = "ending"
    /\ UNCHANGED <<closed, pending, streak, owner, steps, remap, handle, workerVars,
                   callVars, shutVars, ghostVars>>

FailAllPending_Resolves ==
    /\ pending' = {}
    /\ fut' = [c \in Calls |-> IF c \in pending THEN "answered" ELSE fut[c]]

FailAllPending ==
    /\ pending' = {}
    /\ fut' = [c \in Calls |-> IF c \in pending THEN "failed" ELSE fut[c]]

ReaderEnds_LeaksFutures ==
    /\ reader = "ending"
    /\ reader' = "none"
    /\ closed' = TRUE
    /\ UNCHANGED <<pending, fut>>
    /\ UNCHANGED <<streak, owner, steps, remap, handle, workerVars, pc, req, try, todo,
                   moved, shutVars, ghostVars>>

ReaderEnds ==
    /\ reader = "ending"
    /\ reader' = "none"
    /\ closed' = TRUE
    /\ FailAllPending
    /\ UNCHANGED <<streak, owner, steps, remap, handle, workerVars, pc, req, try, todo, moved, shutVars, ghostVars>>

-----------------------------------------------------------------------------
(* The worker process: run_worker_loop and the handlers of a table.        *)

WorkerReady ==
    /\ worker = "starting"
    /\ worker' = "serving"
    /\ resps' = resps \cup {Ready}
    /\ UNCHANGED <<sessionVars, reqs, registry, nextHandle, callVars, shutVars, ghostVars>>

(* Handlers run as tasks of the worker: any queued request may be next.    *)
Serve(r) ==
    /\ worker = "serving"
    /\ r \in reqs
    /\ r.from \in Calls
    /\ reqs' = reqs \ {r}
    /\ resps' = resps \cup {Response(r.from, r.try, NoHandle)}
    /\ registry' = IF r.op = "release" THEN [registry EXCEPT ![r.hid] = NoHandle] ELSE registry
    /\ served' = [served EXCEPT ![r.from] = @ + 1]
    /\ misled' = IF r.op = "use" /\ registry[r.hid] \notin {NoHandle, r.table}
                 THEN misled \cup {IF Awaited(r.from, r.try) THEN "awaited" ELSE "stray"}
                 ELSE misled
    /\ UNCHANGED <<sessionVars, worker, nextHandle, callVars, shutVars, faults>>

ServeOpen(r) ==
    /\ worker = "serving"
    /\ r \in reqs
    /\ r.from = Replay
    /\ nextHandle \in Handles
    /\ reqs' = reqs \ {r}
    /\ resps' = resps \cup {Response(Replay, 0, nextHandle)}
    /\ registry' = [registry EXCEPT ![nextHandle] = r.table]
    /\ nextHandle' = nextHandle + 1
    /\ UNCHANGED <<sessionVars, worker, callVars, shutVars, ghostVars>>

(* The worker dies: a response may not have left its process yet. *)
Crash ==
    /\ Alive
    /\ faults < MaxFaults
    /\ faults' = faults + 1
    /\ WorkerGone
    /\ \E kept \in SUBSET resps : resps' = kept
    /\ UNCHANGED <<sessionVars, callVars, shutVars, served, misled>>

-----------------------------------------------------------------------------
(* shutdown, which takes no respawn lock.                                  *)

BeginShutdown ==
    /\ MayShutDown
    /\ stage = "no"
    /\ faults < MaxFaults
    /\ faults' = faults + 1
    /\ stage' = "join"
    /\ wasClosed' = closed
    /\ closed' = TRUE
    /\ UNCHANGED <<pending, reader, streak, owner, steps, remap, handle, workerVars,
                   callVars, served, misled>>

ShutdownJoins ==
    /\ stage = "join"
    /\ reader = "none"
    /\ stage' = "kill"
    /\ UNCHANGED <<sessionVars, workerVars, callVars, wasClosed, ghostVars>>

(* Unless the session was closed already, SHUTDOWN is put and one response *)
(* taken for its acknowledgement; then the process that is current by now  *)
(* is killed.                                                              *)
ShutdownKills ==
    /\ stage = "kill"
    /\ \/ UNCHANGED resps
       \/ ~wasClosed /\ Alive /\ \E m \in resps : resps' = resps \ {m}
    /\ WorkerGone
    /\ stage' = "finish"
    /\ wasClosed' = FALSE
    /\ UNCHANGED <<sessionVars, callVars, ghostVars>>

(* The second join ends with the reader, or in vain if the session has     *)
(* been opened again.                                                      *)
ShutdownFinishes ==
    /\ stage = "finish"
    /\ reader = "none" \/ ~closed
    /\ FailAllPending
    /\ steps' = {}
    /\ remap' = Empty
    /\ stage' = "done"
    /\ UNCHANGED <<closed, reader, streak, owner, handle, workerVars, pc, req, try, todo, moved, wasClosed, ghostVars>>

-----------------------------------------------------------------------------
CallStep(c) ==
    \/ Check(c) \/ CloseGone(c) \/ RegisterPending(c) \/ Put(c) \/ Return(c) \/ Fail(c)
    \/ ForceRespawn(c) \/ EnterRespawn(c) \/ ReplaceWorker(c)
    \/ AwaitReady(c) \/ NeverReady(c) \/ ReplayStep(c) \/ ReplayBreaks(c)
    \/ \E t \in Tables, m \in resps : ReplayAnswer(c, t, m)
    \/ Reopen(c) \/ StartReader(c)

ReaderStep == (\E m \in resps : ReaderTakes(m)) \/ ReaderLeaves \/ ReaderEnds
WorkerStep == WorkerReady \/ \E r \in reqs : Serve(r) \/ ServeOpen(r)
ShutdownStep == ShutdownJoins \/ ShutdownKills \/ ShutdownFinishes

Next ==
    \/ \E c \in Calls, t \in Tables : Use(c, t) \/ Release(c, t)
    \/ \E c \in Calls : CallStep(c) \/ Expire(c)
    \/ ReaderStep
    \/ WorkerStep
    \/ Crash
    \/ BeginShutdown
    \/ ShutdownStep

Spec == Init /\ [][Next]_vars

(* Threads are scheduled, a worker that lives serves what it is sent.  No  *)
(* call begins, no deadline passes and no worker dies out of fairness.     *)
Fairness ==
    /\ \A c \in Calls : WF_vars(CallStep(c))
    /\ WF_vars(ReaderStep)
    /\ WF_vars(WorkerStep)
    /\ WF_vars(ShutdownStep)

FairSpec == Spec /\ Fairness

-----------------------------------------------------------------------------
TypeOK ==
    /\ closed \in BOOLEAN
    /\ pending \subseteq Calls
    /\ reader \in {"none", "reading", "ending"}
    /\ streak \in Nat
    /\ owner \in Calls \cup {NoCall}
    /\ steps \subseteq Tables
    /\ remap \in [Handles -> Handles \cup {NoHandle}]
    /\ handle \in [Tables -> Handles \cup {NoHandle}]
    /\ worker \in {"starting", "serving", "dead"}
    /\ reqs \subseteq Requests
    /\ resps \subseteq Responses
    /\ registry \in [Handles -> Tables \cup {NoHandle}]
    /\ nextHandle \in Nat
    /\ pc \in [Calls -> {"idle", "check", "gone", "register", "put", "wait",
                         "force", "respawn"} \cup Respawning \cup Outcomes]
    /\ req \in [Calls -> ProxyRequests]
    /\ try \in [Calls -> Tries]
    /\ fut \in [Calls -> {"none", "waiting", "answered", "failed"}]
    /\ todo \subseteq Tables
    /\ moved \in [Handles -> Handles \cup {NoHandle}]
    /\ stage \in {"no", "join", "kill", "finish", "done"}
    /\ wasClosed \in BOOLEAN
    /\ faults \in Nat
    /\ served \in [Calls -> Nat]
    /\ misled \subseteq {"stray", "awaited"}

(* No leaked future: whoever waits for a response has a reader that will   *)
(* deliver it or fail it, or one that is about to start.                   *)
PendingHasReader ==
    pending # {} => reader # "none" \/ \E c \in Calls : pc[c] = "start"

(* The queue of responses has one consumer: while a respawn reads it to    *)
(* replay the set-up, no reader thread does, and there is one respawn.     *)
ReplayReadsAlone ==
    \A c \in Calls : pc[c] \in Respawning =>
        /\ owner = c
        /\ pc[c] \in Replaying => reader = "none"

(* A session nothing has happened to executes each request exactly once    *)
(* before it returns, and raises nothing, however its callers interleave.  *)
QuietIsExactlyOnce ==
    faults = 0 /\ stage = "no" =>
        \A c \in Calls : /\ pc[c] # "raised"
                         /\ pc[c] = "returned" => served[c] = 1

(* As long as no table has been released, no request works on a table      *)
(* other than the one of its proxy, also when it was built before a        *)
(* respawn or put after it.                                                *)
UnreleasedIsNotMisled == (\A t \in Tables : handle[t] # NoHandle) => misled = {}

(* Every call ends, also if no deadline ever passes. *)
CallsEnd == \A c \in Calls : Begun(c) ~> pc[c] \in Outcomes

(* What the session promises its callers. *)
Status == [c \in Calls |-> IF Begun(c) THEN "open" ELSE pc[c]]
Remote == INSTANCE RemoteCalls WITH status <- Status, Attempts <- MaxRetries + 1
ImplementsRemoteCalls == Remote!Spec
=============================================================================
