---------------------- MODULE SubprocessSessionProofs ----------------------
(***************************************************************************)
(* Proofs about the subprocess session, for any calls, tables, number of   *)
(* retries and faults.                                                     *)
(***************************************************************************)
EXTENDS SubprocessSession, FiniteSetTheorems, TLAPS

(* The part of TypeOK that the steps of a call change together. *)
Places == {"idle", "check", "gone", "register", "put", "wait", "force", "respawn"}
          \cup Respawning \cup Outcomes
CallTypes ==
    /\ pc \in [Calls -> Places]
    /\ req \in [Calls -> ProxyRequests]
    /\ try \in [Calls -> Tries]

-----------------------------------------------------------------------------
LEMMA TypeInit == Init => TypeOK
<1> SUFFICES ASSUME Init PROVE TypeOK
  OBVIOUS
<1>1. NoRequest \in ProxyRequests /\ 0 \in Tries /\ NoHandle \notin Handles
  BY SessionAssumption DEF NoRequest, ProxyRequests, Tries, Handles, Tables, NoHandle
<1>2. CallTypes
  BY <1>1 DEF Init, CallTypes, Places
<1>3. /\ remap \in [Handles -> Handles \cup {NoHandle}]
      /\ handle \in [Tables -> Handles \cup {NoHandle}]
      /\ registry \in [Handles -> Tables \cup {NoHandle}]
      /\ moved \in [Handles -> Handles \cup {NoHandle}]
  BY DEF Init, Handles, Empty
<1>4. /\ nextHandle \in Nat
      /\ fut \in [Calls -> {"none", "waiting", "answered", "failed"}]
      /\ served \in [Calls -> Nat]
      /\ streak \in Nat /\ faults \in Nat
  BY SessionAssumption DEF Init
<1>5. /\ pending \subseteq Calls /\ steps \subseteq Tables /\ todo \subseteq Tables
      /\ reqs \subseteq Requests /\ resps \subseteq Responses
      /\ misled \subseteq {"stray", "awaited"}
  BY DEF Init
<1> QED
  BY <1>2, <1>3, <1>4, <1>5 DEF Init, TypeOK, CallTypes, Places

LEMMA EndTypes ==
  ASSUME TypeOK, NEW c \in Calls, NEW o \in Outcomes, EndCall(c, o)
  PROVE  CallTypes'
<1>1. NoRequest \in ProxyRequests /\ 0 \in Tries
  BY SessionAssumption DEF NoRequest, ProxyRequests, Tries, Handles, Tables
<1> QED
  BY <1>1 DEF TypeOK, CallTypes, Places, EndCall, Goto

LEMMA TransportTypes ==
  ASSUME TypeOK, NEW c \in Calls, TransportError(c)
  PROVE  CallTypes'
<1>1. "raised" \in Outcomes
  BY DEF Outcomes
<1>2. CASE EndCall(c, "raised")
  BY <1>1, <1>2, EndTypes
<1>3. CASE try[c] < MaxRetries /\ try' = [try EXCEPT ![c] = @ + 1]
           /\ Goto(c, "respawn") /\ UNCHANGED req
  <2>1. try[c] + 1 \in Tries
    BY <1>3, SessionAssumption DEF TypeOK, Tries
  <2> QED
    BY <1>3, <2>1 DEF TypeOK, CallTypes, Places, Goto
<1> QED
  BY <1>2, <1>3 DEF TransportError

(* Every step keeps the types. *)
LEMMA TypeStep ==
  ASSUME TypeOK, [Next]_vars
  PROVE  TypeOK'
<1>1. ASSUME NEW c \in Calls, NEW t \in Tables, Use(c, t)
      PROVE  TypeOK'
    BY <1>1
       DEF Use, Goto, BuildRequest, TypeOK, Respawning, Replaying, Outcomes,
           ProxyRequests, Handles, sessionVars, workerVars, shutVars, ghostVars
<1>2. ASSUME NEW c \in Calls, NEW t \in Tables, Release(c, t)
      PROVE  TypeOK'
    BY <1>2
       DEF Release, Goto, BuildRequest, TypeOK, Respawning, Replaying, Outcomes,
           ProxyRequests, Handles, workerVars, shutVars, ghostVars
<1>3. ASSUME NEW c \in Calls, Check(c)
      PROVE  TypeOK'
  <2>1. CASE TransportError(c)
    BY <1>3, <2>1, TransportTypes
       DEF Check, TypeOK, CallTypes, Places, sessionVars, workerVars, shutVars,
           ghostVars
  <2>2. CASE Goto(c, "gone") /\ UNCHANGED <<req, try>>
    BY <1>3, <2>2 DEF Check, Goto, TypeOK, sessionVars, workerVars, shutVars, ghostVars
  <2>3. CASE /\ req' = [req EXCEPT ![c].sent = Moved(remap, req[c].hid)]
             /\ Goto(c, "register") /\ UNCHANGED try
    <3>1. req[c] \in ProxyRequests /\ Moved(remap, req[c].hid) \in Handles
      BY DEF TypeOK, ProxyRequests, Moved
    <3>2. [req[c] EXCEPT !.sent = Moved(remap, req[c].hid)] \in ProxyRequests
      BY <3>1 DEF ProxyRequests
    <3>3. req' \in [Calls -> ProxyRequests]
      BY <2>3, <3>2 DEF TypeOK
    <3> QED
      BY <1>3, <2>3, <3>3
         DEF Check, Goto, TypeOK, sessionVars, workerVars, shutVars, ghostVars
  <2> QED
    BY <1>3, <2>1, <2>2, <2>3 DEF Check
<1>4. ASSUME NEW c \in Calls, CloseGone(c)
      PROVE  TypeOK'
  BY <1>4, TransportTypes
     DEF CloseGone, TypeOK, CallTypes, Places, workerVars, shutVars, ghostVars
<1>5. ASSUME NEW c \in Calls, RegisterPending(c)
      PROVE  TypeOK'
  <2>1. CASE closed
    BY <1>5, <2>1, TransportTypes
       DEF RegisterPending, TypeOK, CallTypes, Places, workerVars, shutVars, ghostVars
  <2>2. CASE ~closed
    BY <1>5, <2>2 DEF RegisterPending, Goto, TypeOK, workerVars, shutVars, ghostVars
  <2> QED
    BY <2>1, <2>2
<1>6. ASSUME NEW c \in Calls, Put(c)
      PROVE  TypeOK'
    BY <1>6
       DEF Put, Goto, Request, TypeOK, Respawning, Replaying, Outcomes, ProxyRequests,
           Requests, sessionVars, shutVars, ghostVars
<1>7. ASSUME NEW c \in Calls, Return(c)
      PROVE  TypeOK'
  <2>1. CallTypes'
    BY <1>7, EndTypes DEF Return, Outcomes
  <2> QED
    BY <1>7, <2>1 DEF Return, CallTypes, Places, TypeOK, workerVars, shutVars, ghostVars
<1>8. ASSUME NEW c \in Calls, Fail(c)
      PROVE  TypeOK'
  BY <1>8, TransportTypes
     DEF Fail, TypeOK, CallTypes, Places, workerVars, shutVars, ghostVars
<1>9. ASSUME NEW c \in Calls, Expire(c)
      PROVE  TypeOK'
  <2>2. CASE try[c] = MaxRetries
    <3>1. EndCall(c, "raised") /\ UNCHANGED streak /\ "raised" \in Outcomes
      BY <1>9, <2>2, SessionAssumption DEF Expire, Outcomes
    <3>2. CallTypes'
      BY <3>1, EndTypes
    <3>3. /\ faults' = faults + 1 /\ fut' = [fut EXCEPT ![c] = "none"]
          /\ pending' = pending \ {c}
          /\ UNCHANGED <<closed, reader, owner, steps, remap, handle, workerVars,
                         todo, moved, shutVars, served, misled>>
      BY <1>9 DEF Expire
    <3> QED
      BY <3>1, <3>2, <3>3 DEF CallTypes, Places, TypeOK, workerVars, shutVars
  <2>3. CASE try[c] < MaxRetries
    <3>1. try' = [try EXCEPT ![c] = @ + 1] /\ UNCHANGED req
      BY <1>9, <2>3, SessionAssumption DEF Expire
    <3>2. streak' \in Nat
      BY <1>9, <2>3, SessionAssumption DEF Expire, TypeOK
    <3>3. \E l \in {"force", "respawn"} : pc' = [pc EXCEPT ![c] = l]
      BY <1>9, <2>3, SessionAssumption DEF Expire, Goto
    <3>4. try[c] + 1 \in Tries
      BY <2>3, SessionAssumption DEF TypeOK, Tries
    <3>5. try' \in [Calls -> Tries]
      BY <3>1, <3>4 DEF TypeOK
    <3> QED
      BY <1>9, <3>1, <3>2, <3>3, <3>5 DEF Expire, TypeOK, workerVars, shutVars
  <2> QED
    BY <1>9, <2>2, <2>3 DEF Expire
<1>10. ASSUME NEW c \in Calls, ForceRespawn(c)
       PROVE  TypeOK'
    BY <1>10
       DEF ForceRespawn, Goto, TypeOK, Respawning, Replaying, Outcomes, workerVars,
           shutVars, ghostVars
<1>11. ASSUME NEW c \in Calls, EnterRespawn(c)
       PROVE  TypeOK'
    BY <1>11
       DEF EnterRespawn, Goto, TypeOK, Respawning, Replaying, Outcomes, workerVars,
           shutVars, ghostVars
<1>12. ASSUME NEW c \in Calls, ReplaceWorker(c)
       PROVE  TypeOK'
    BY <1>12
       DEF ReplaceWorker, Goto, TypeOK, Respawning, Replaying, Outcomes, Empty,
           sessionVars, shutVars, ghostVars
<1>13. ASSUME NEW c \in Calls, AwaitReady(c)
       PROVE  TypeOK'
    BY <1>13
       DEF AwaitReady, Goto, TypeOK, Respawning, Replaying, Outcomes, sessionVars,
           shutVars, ghostVars
<1>14. ASSUME NEW c \in Calls, NeverReady(c)
       PROVE  TypeOK'
  <2>1. CallTypes'
    BY <1>14, EndTypes DEF NeverReady, Abort, Outcomes
  <2> QED
    BY <1>14, <2>1
       DEF NeverReady, Abort, CallTypes, Places, TypeOK, WorkerGone, Empty, Tables,
           Handles, shutVars, ghostVars
<1>15. ASSUME NEW c \in Calls, ReplayStep(c)
       PROVE  TypeOK'
  <2>1. \A t \in Tables : OpenRequest(t) \in Requests
    BY SessionAssumption DEF OpenRequest, Requests, Tries, NoHandle
  <2> QED
    BY <1>15, <2>1
       DEF ReplayStep, Goto, Respawning, Replaying, TypeOK, sessionVars, shutVars,
           ghostVars
<1>16. ASSUME NEW c \in Calls, NEW t \in Tables, NEW m \in resps, ReplayAnswer(c, t, m)
       PROVE  TypeOK'
  <2>1. m.hid \in Handles \cup {NoHandle}
    BY DEF TypeOK, Responses
  <2>2. handle' \in [Tables -> Handles \cup {NoHandle}]
    BY <1>16, <2>1 DEF ReplayAnswer, TypeOK
  <2>3. moved' \in [Handles -> Handles \cup {NoHandle}]
    BY <1>16, <2>1 DEF ReplayAnswer, TypeOK
  <2> QED
    BY <1>16, <2>2, <2>3
       DEF ReplayAnswer, Goto, Respawning, Replaying, TypeOK, shutVars, ghostVars
<1>17. ASSUME NEW c \in Calls, ReplayBreaks(c)
       PROVE  TypeOK'
  <2>1. CallTypes'
    BY <1>17, EndTypes DEF ReplayBreaks, Abort, Outcomes
  <2> QED
    BY <1>17, <2>1
       DEF ReplayBreaks, Abort, CallTypes, Places, TypeOK, Empty, shutVars, ghostVars
<1>18. ASSUME NEW c \in Calls, Reopen(c)
       PROVE  TypeOK'
    BY <1>18
       DEF Reopen, Goto, Composed, Moved, TypeOK, Respawning, Replaying, Outcomes,
           Empty, workerVars, shutVars, ghostVars
<1>19. ASSUME NEW c \in Calls, StartReader(c)
       PROVE  TypeOK'
    BY <1>19
       DEF StartReader, Goto, TypeOK, Respawning, Replaying, Outcomes, workerVars,
           shutVars, ghostVars
<1>20. ASSUME NEW m \in resps, ReaderTakes(m)
       PROVE  TypeOK'
  <2>1. fut' \in [Calls -> {"none", "waiting", "answered", "failed"}]
    BY <1>20 DEF ReaderTakes, TypeOK
  <2>2. pending' \subseteq Calls /\ resps' \subseteq Responses
    BY <1>20 DEF ReaderTakes, TypeOK
  <2> QED
    BY <1>20, <2>1, <2>2 DEF ReaderTakes, TypeOK, shutVars, ghostVars
<1>21. ASSUME ReaderLeaves
       PROVE  TypeOK'
    BY <1>21
       DEF ReaderLeaves, TypeOK, Respawning, Replaying, Outcomes, workerVars, callVars,
           shutVars, ghostVars
<1>22. ASSUME ReaderEnds
       PROVE  TypeOK'
    BY <1>22
       DEF ReaderEnds, FailAllPending, TypeOK, Respawning, Replaying, Outcomes,
           workerVars, shutVars, ghostVars
<1>23. ASSUME WorkerReady
       PROVE  TypeOK'
    BY <1>23, SessionAssumption
       DEF WorkerReady, TypeOK, Respawning, Replaying, Outcomes, Ready, Response,
           Responses, Tries, NoHandle, sessionVars, callVars, shutVars, ghostVars
<1>24. ASSUME NEW r \in reqs, Serve(r)
       PROVE  TypeOK'
  <2>1. r.from \in Calls /\ r.try \in Tries
    BY <1>24 DEF Serve, TypeOK, Requests
  <2>2. Response(r.from, r.try, NoHandle) \in Responses
    BY <2>1 DEF Response, Responses
  <2>3. registry' \in [Handles -> Tables \cup {NoHandle}]
    BY <1>24 DEF Serve, TypeOK
  <2>4. served' \in [Calls -> Nat]
    BY <1>24, <2>1 DEF Serve, TypeOK
  <2>5. misled' \subseteq {"stray", "awaited"}
    BY <1>24 DEF Serve, TypeOK
  <2>6. reqs' \subseteq Requests /\ resps' \subseteq Responses
    BY <1>24, <2>2 DEF Serve, TypeOK
  <2> QED
    BY <1>24, <2>3, <2>4, <2>5, <2>6 DEF Serve, TypeOK, sessionVars, callVars, shutVars
<1>25. ASSUME NEW r \in reqs, ServeOpen(r)
       PROVE  TypeOK'
    BY <1>25, SessionAssumption
       DEF ServeOpen, TypeOK, Respawning, Replaying, Outcomes, Response, Responses,
           Requests, Tries, Handles, sessionVars, callVars, shutVars, ghostVars
<1>26. ASSUME Crash
       PROVE  TypeOK'
    BY <1>26
       DEF Crash, WorkerGone, TypeOK, Respawning, Replaying, Outcomes, Empty,
           sessionVars, callVars, shutVars
<1>27. ASSUME BeginShutdown
       PROVE  TypeOK'
    BY <1>27
       DEF BeginShutdown, TypeOK, Respawning, Replaying, Outcomes, workerVars, callVars
<1>28. ASSUME ShutdownJoins
       PROVE  TypeOK'
    BY <1>28
       DEF ShutdownJoins, TypeOK, Respawning, Replaying, Outcomes, sessionVars,
           workerVars, callVars, ghostVars
<1>29. ASSUME ShutdownKills
       PROVE  TypeOK'
    BY <1>29
       DEF ShutdownKills, WorkerGone, TypeOK, Respawning, Replaying, Outcomes, Empty,
           sessionVars, callVars, ghostVars
<1>30. ASSUME ShutdownFinishes
       PROVE  TypeOK'
    BY <1>30
       DEF ShutdownFinishes, FailAllPending, TypeOK, Respawning, Replaying, Outcomes,
           Empty, workerVars, ghostVars
<1>31. CASE UNCHANGED vars
  BY <1>31
     DEF TypeOK, Respawning, Replaying, Outcomes, vars, sessionVars, workerVars,
         callVars, shutVars, ghostVars
<1> QED
  BY <1>1, <1>2, <1>3, <1>4, <1>5, <1>6, <1>7, <1>8, <1>9, <1>10, <1>11, <1>12,
     <1>13, <1>14, <1>15, <1>16, <1>17, <1>18, <1>19, <1>20, <1>21, <1>22, <1>23,
     <1>24, <1>25, <1>26, <1>27, <1>28, <1>29, <1>30, <1>31
    DEF Next, CallStep, ReaderStep, WorkerStep, ShutdownStep

(* Every variable has its type, in particular every handle that a proxy or  *)
(* a request carries is one a worker may have given.                        *)
THEOREM TypeCorrect == Spec => []TypeOK
<1>1. TypeOK /\ [Next]_vars => TypeOK'
  BY TypeStep
<1> QED
  BY TypeInit, <1>1, PTL DEF Spec

-----------------------------------------------------------------------------
(* One respawn at a time, which reads the responses alone; an open session  *)
(* has a reader or gets one, and so has a future that waits.                *)
LockInv ==
    /\ \A c \in Calls : pc[c] \in Respawning => owner = c
    /\ \A c \in Calls : pc[c] \in Replaying \cup {"start"} => reader = "none"
    /\ ~closed => reader # "none" \/ \E c \in Calls : pc[c] = "start"
    /\ PendingHasReader

LEMMA LockInit == Init => LockInv
  BY DEF Init, LockInv, PendingHasReader, Respawning, Replaying

(* Every step keeps it. *)
LEMMA LockStep ==
  ASSUME TypeOK, LockInv, [Next]_vars
  PROVE  LockInv'
<1> SUFFICES ASSUME pc \in [Calls -> Places], pending \subseteq Calls PROVE LockInv'
  BY DEF TypeOK, Places
<1>1. ASSUME NEW c \in Calls, NEW t \in Tables, Use(c, t)
      PROVE  LockInv'
    BY <1>1
       DEF Use, Goto, BuildRequest, LockInv, PendingHasReader, Respawning, Replaying,
           Outcomes, sessionVars, workerVars, shutVars, ghostVars
<1>2. ASSUME NEW c \in Calls, NEW t \in Tables, Release(c, t)
      PROVE  LockInv'
    BY <1>2
       DEF Release, Goto, BuildRequest, LockInv, PendingHasReader, Respawning,
           Replaying, Outcomes, workerVars, shutVars, ghostVars
<1>3. ASSUME NEW c \in Calls, Check(c)
      PROVE  LockInv'
    BY <1>3
       DEF Check, TransportError, EndCall, Goto, Moved, LockInv, PendingHasReader,
           Respawning, Replaying, Outcomes, sessionVars, workerVars, shutVars, ghostVars
<1>4. ASSUME NEW c \in Calls, CloseGone(c)
      PROVE  LockInv'
    BY <1>4
       DEF CloseGone, TransportError, EndCall, Goto, LockInv, PendingHasReader,
           Respawning, Replaying, Outcomes, workerVars, shutVars, ghostVars
<1>5. ASSUME NEW c \in Calls, RegisterPending(c)
      PROVE  LockInv'
    BY <1>5
       DEF RegisterPending, TransportError, EndCall, Goto, LockInv, PendingHasReader,
           Respawning, Replaying, Outcomes, workerVars, shutVars, ghostVars
<1>6. ASSUME NEW c \in Calls, Put(c)
      PROVE  LockInv'
    BY <1>6
       DEF Put, Goto, Request, LockInv, PendingHasReader, Respawning, Replaying,
           Outcomes, sessionVars, shutVars, ghostVars
<1>7. ASSUME NEW c \in Calls, Return(c)
      PROVE  LockInv'
    BY <1>7
       DEF Return, EndCall, Goto, LockInv, PendingHasReader, Respawning, Replaying,
           Outcomes, workerVars, shutVars, ghostVars
<1>8. ASSUME NEW c \in Calls, Fail(c)
      PROVE  LockInv'
    BY <1>8
       DEF Fail, TransportError, EndCall, Goto, LockInv, PendingHasReader, Respawning,
           Replaying, Outcomes, workerVars, shutVars, ghostVars
<1>9. ASSUME NEW c \in Calls, Expire(c)
      PROVE  LockInv'
    BY <1>9
       DEF Expire, EndCall, Goto, LockInv, PendingHasReader, Respawning, Replaying,
           Outcomes, workerVars, shutVars
<1>10. ASSUME NEW c \in Calls, ForceRespawn(c)
       PROVE  LockInv'
    BY <1>10
       DEF ForceRespawn, Goto, LockInv, PendingHasReader, Respawning, Replaying,
           Outcomes, workerVars, shutVars, ghostVars
<1>11. ASSUME NEW c \in Calls, EnterRespawn(c)
       PROVE  LockInv'
    BY <1>11, SessionAssumption
       DEF EnterRespawn, Goto, LockInv, PendingHasReader, Respawning, Replaying,
           Outcomes, workerVars, shutVars, ghostVars
<1>12. ASSUME NEW c \in Calls, ReplaceWorker(c)
       PROVE  LockInv'
    BY <1>12
       DEF ReplaceWorker, Goto, LockInv, PendingHasReader, Respawning, Replaying,
           Outcomes, sessionVars, shutVars, ghostVars
<1>13. ASSUME NEW c \in Calls, AwaitReady(c)
       PROVE  LockInv'
    BY <1>13
       DEF AwaitReady, Goto, LockInv, PendingHasReader, Respawning, Replaying, Outcomes,
           sessionVars, shutVars, ghostVars
<1>14. ASSUME NEW c \in Calls, NeverReady(c)
       PROVE  LockInv'
    BY <1>14
       DEF NeverReady, WorkerGone, Abort, EndCall, Goto, LockInv, PendingHasReader,
           Respawning, Replaying, Outcomes, shutVars, ghostVars
<1>15. ASSUME NEW c \in Calls, ReplayStep(c)
       PROVE  LockInv'
    BY <1>15
       DEF ReplayStep, Goto, First, OpenRequest, LockInv, PendingHasReader, Respawning,
           Replaying, Outcomes, sessionVars, shutVars, ghostVars
<1>16. ASSUME NEW c \in Calls, NEW t \in Tables, NEW m \in resps, ReplayAnswer(c, t, m)
       PROVE  LockInv'
    BY <1>16
       DEF ReplayAnswer, Goto, LockInv, PendingHasReader, Respawning, Replaying,
           Outcomes, shutVars, ghostVars
<1>17. ASSUME NEW c \in Calls, ReplayBreaks(c)
       PROVE  LockInv'
    BY <1>17
       DEF ReplayBreaks, Abort, EndCall, Goto, LockInv, PendingHasReader, Respawning,
           Replaying, Outcomes, shutVars, ghostVars
<1>18. ASSUME NEW c \in Calls, Reopen(c)
       PROVE  LockInv'
    BY <1>18
       DEF Reopen, Goto, Composed, Moved, LockInv, PendingHasReader, Respawning,
           Replaying, Outcomes, workerVars, shutVars, ghostVars
<1>19. ASSUME NEW c \in Calls, StartReader(c)
       PROVE  LockInv'
    BY <1>19
       DEF StartReader, Goto, LockInv, PendingHasReader, Respawning, Replaying,
           Outcomes, workerVars, shutVars, ghostVars
<1>20. ASSUME NEW m \in resps, ReaderTakes(m)
       PROVE  LockInv'
    BY <1>20
       DEF ReaderTakes, Awaited, LockInv, PendingHasReader, Respawning, Replaying,
           Outcomes, shutVars, ghostVars
<1>21. ASSUME ReaderLeaves
       PROVE  LockInv'
    BY <1>21
       DEF ReaderLeaves, LockInv, PendingHasReader, Respawning, Replaying, Outcomes,
           workerVars, callVars, shutVars, ghostVars
<1>22. ASSUME ReaderEnds
       PROVE  LockInv'
    BY <1>22
       DEF ReaderEnds, FailAllPending, LockInv, PendingHasReader, Respawning, Replaying,
           Outcomes, workerVars, shutVars, ghostVars
<1>23. ASSUME WorkerReady
       PROVE  LockInv'
    BY <1>23
       DEF WorkerReady, LockInv, PendingHasReader, Respawning, Replaying, Outcomes,
           sessionVars, callVars, shutVars, ghostVars
<1>24. ASSUME NEW r \in reqs, Serve(r)
       PROVE  LockInv'
    BY <1>24
       DEF Serve, Awaited, LockInv, PendingHasReader, Respawning, Replaying, Outcomes,
           sessionVars, callVars, shutVars
<1>25. ASSUME NEW r \in reqs, ServeOpen(r)
       PROVE  LockInv'
    BY <1>25
       DEF ServeOpen, LockInv, PendingHasReader, Respawning, Replaying, Outcomes,
           sessionVars, callVars, shutVars, ghostVars
<1>26. ASSUME Crash
       PROVE  LockInv'
    BY <1>26
       DEF Crash, WorkerGone, LockInv, PendingHasReader, Respawning, Replaying,
           Outcomes, sessionVars, callVars, shutVars
<1>27. ASSUME BeginShutdown
       PROVE  LockInv'
    BY <1>27
       DEF BeginShutdown, LockInv, PendingHasReader, Respawning, Replaying, Outcomes,
           workerVars, callVars
<1>28. ASSUME ShutdownJoins
       PROVE  LockInv'
    BY <1>28
       DEF ShutdownJoins, LockInv, PendingHasReader, Respawning, Replaying, Outcomes,
           sessionVars, workerVars, callVars, ghostVars
<1>29. ASSUME ShutdownKills
       PROVE  LockInv'
    BY <1>29
       DEF ShutdownKills, WorkerGone, LockInv, PendingHasReader, Respawning, Replaying,
           Outcomes, sessionVars, callVars, ghostVars
<1>30. ASSUME ShutdownFinishes
       PROVE  LockInv'
    BY <1>30
       DEF ShutdownFinishes, FailAllPending, LockInv, PendingHasReader, Respawning,
           Replaying, Outcomes, workerVars, ghostVars
<1>31. CASE UNCHANGED vars
  BY <1>31
     DEF LockInv, PendingHasReader, Respawning, Replaying, Outcomes, vars, sessionVars,
         workerVars, callVars, shutVars, ghostVars
<1> QED
  BY <1>1, <1>2, <1>3, <1>4, <1>5, <1>6, <1>7, <1>8, <1>9, <1>10, <1>11, <1>12,
     <1>13, <1>14, <1>15, <1>16, <1>17, <1>18, <1>19, <1>20, <1>21, <1>22, <1>23,
     <1>24, <1>25, <1>26, <1>27, <1>28, <1>29, <1>30, <1>31
    DEF Next, CallStep, ReaderStep, WorkerStep, ShutdownStep

LEMMA Locks == Spec => [](TypeOK /\ LockInv)
<1>1. TypeOK /\ LockInv /\ [Next]_vars => TypeOK' /\ LockInv'
  BY TypeStep, LockStep
<1> QED
  BY TypeInit, LockInit, <1>1, PTL DEF Spec

(* No path leaks a future: whoever waits for a response has a reader that   *)
(* will answer or fail it.                                                  *)
THEOREM FuturesHaveReaders == Spec => []PendingHasReader
<1>1. TypeOK /\ LockInv => PendingHasReader
  BY DEF LockInv
<1> QED
  BY Locks, <1>1, PTL

(* The queue of responses never has two consumers. *)
THEOREM ReplaysReadAlone == Spec => []ReplayReadsAlone
<1>1. TypeOK /\ LockInv => ReplayReadsAlone
  BY DEF LockInv, ReplayReadsAlone, Respawning, Replaying
<1> QED
  BY Locks, <1>1, PTL

-----------------------------------------------------------------------------
(* An answer was served before. *)
AnsweredInv ==
    /\ \A c \in Calls : fut[c] = "answered" => served[c] > 0
    /\ \A m \in resps : m.to \in Calls => served[m.to] > 0

(* What a call may have had served: each attempt puts one request, which is *)
(* served at most once and perhaps after the call has ended.                *)
Allowed(c) ==
    IF pc[c] = "idle" THEN 0
    ELSE IF pc[c] \in Outcomes THEN MaxRetries + 1
    ELSE IF pc[c] = "wait" THEN try[c] + 1 ELSE try[c]

Queued(c) == {r \in reqs : r.from = c}

BudgetInv ==
    /\ IsFiniteSet(reqs)
    /\ \A c \in Calls : served[c] + Cardinality(Queued(c)) <= Allowed(c)

LEMMA CountInit == Init => AnsweredInv /\ BudgetInv
<1> SUFFICES ASSUME Init PROVE AnsweredInv /\ BudgetInv
  OBVIOUS
<1>1. AnsweredInv
  BY DEF Init, AnsweredInv
<1>2. \A c \in Calls : Queued(c) = {} /\ Allowed(c) = 0 /\ served[c] = 0
  BY DEF Init, Queued, Allowed
<1>3. IsFiniteSet(reqs) /\ Cardinality({}) = 0
  BY FS_EmptySet DEF Init
<1> QED
  BY <1>1, <1>2, <1>3 DEF BudgetInv

(* Every step keeps it. *)
LEMMA AnsweredStep ==
  ASSUME TypeOK, AnsweredInv, [Next]_vars
  PROVE  AnsweredInv'
<1> SUFFICES ASSUME pc \in [Calls -> Places], pending \subseteq Calls,
               fut \in [Calls -> {"none", "waiting", "answered", "failed"}],
               served \in [Calls -> Nat], resps \subseteq Responses
    PROVE AnsweredInv'
  BY DEF TypeOK, Places
<1>1. ASSUME NEW c \in Calls, NEW t \in Tables, Use(c, t)
      PROVE  AnsweredInv'
    BY <1>1
       DEF Use, Goto, BuildRequest, AnsweredInv, Response, Ready, sessionVars,
           workerVars, shutVars, ghostVars
<1>2. ASSUME NEW c \in Calls, NEW t \in Tables, Release(c, t)
      PROVE  AnsweredInv'
    BY <1>2
       DEF Release, Goto, BuildRequest, AnsweredInv, Response, Ready, workerVars,
           shutVars, ghostVars
<1>3. ASSUME NEW c \in Calls, Check(c)
      PROVE  AnsweredInv'
    BY <1>3
       DEF Check, TransportError, EndCall, Goto, Moved, AnsweredInv, Response, Ready,
           sessionVars, workerVars, shutVars, ghostVars
<1>4. ASSUME NEW c \in Calls, CloseGone(c)
      PROVE  AnsweredInv'
    BY <1>4
       DEF CloseGone, TransportError, EndCall, Goto, AnsweredInv, Response, Ready,
           workerVars, shutVars, ghostVars
<1>5. ASSUME NEW c \in Calls, RegisterPending(c)
      PROVE  AnsweredInv'
    BY <1>5
       DEF RegisterPending, TransportError, EndCall, Goto, AnsweredInv, Response, Ready,
           workerVars, shutVars, ghostVars
<1>6. ASSUME NEW c \in Calls, Put(c)
      PROVE  AnsweredInv'
    BY <1>6
       DEF Put, Goto, Request, AnsweredInv, Response, Ready, sessionVars, shutVars,
           ghostVars
<1>7. ASSUME NEW c \in Calls, Return(c)
      PROVE  AnsweredInv'
    BY <1>7
       DEF Return, EndCall, Goto, AnsweredInv, Response, Ready, workerVars, shutVars,
           ghostVars
<1>8. ASSUME NEW c \in Calls, Fail(c)
      PROVE  AnsweredInv'
    BY <1>8
       DEF Fail, TransportError, EndCall, Goto, AnsweredInv, Response, Ready,
           workerVars, shutVars, ghostVars
<1>9. ASSUME NEW c \in Calls, Expire(c)
      PROVE  AnsweredInv'
    BY <1>9
       DEF Expire, EndCall, Goto, AnsweredInv, Response, Ready, workerVars, shutVars
<1>10. ASSUME NEW c \in Calls, ForceRespawn(c)
       PROVE  AnsweredInv'
    BY <1>10
       DEF ForceRespawn, Goto, AnsweredInv, Response, Ready, workerVars, shutVars,
           ghostVars
<1>11. ASSUME NEW c \in Calls, EnterRespawn(c)
       PROVE  AnsweredInv'
    BY <1>11
       DEF EnterRespawn, Goto, AnsweredInv, Response, Ready, workerVars, shutVars,
           ghostVars
<1>12. ASSUME NEW c \in Calls, ReplaceWorker(c)
       PROVE  AnsweredInv'
    BY <1>12
       DEF ReplaceWorker, Goto, AnsweredInv, Response, Ready, sessionVars, shutVars,
           ghostVars
<1>13. ASSUME NEW c \in Calls, AwaitReady(c)
       PROVE  AnsweredInv'
    BY <1>13
       DEF AwaitReady, Goto, AnsweredInv, Response, Ready, sessionVars, shutVars,
           ghostVars
<1>14. ASSUME NEW c \in Calls, NeverReady(c)
       PROVE  AnsweredInv'
    BY <1>14
       DEF NeverReady, WorkerGone, Abort, EndCall, Goto, AnsweredInv, Response, Ready,
           shutVars, ghostVars
<1>15. ASSUME NEW c \in Calls, ReplayStep(c)
       PROVE  AnsweredInv'
    BY <1>15
       DEF ReplayStep, Goto, First, OpenRequest, AnsweredInv, Response, Ready,
           sessionVars, shutVars, ghostVars
<1>16. ASSUME NEW c \in Calls, NEW t \in Tables, NEW m \in resps, ReplayAnswer(c, t, m)
       PROVE  AnsweredInv'
    BY <1>16 DEF ReplayAnswer, Goto, AnsweredInv, Response, Ready, shutVars, ghostVars
<1>17. ASSUME NEW c \in Calls, ReplayBreaks(c)
       PROVE  AnsweredInv'
    BY <1>17
       DEF ReplayBreaks, Abort, EndCall, Goto, AnsweredInv, Response, Ready, shutVars,
           ghostVars
<1>18. ASSUME NEW c \in Calls, Reopen(c)
       PROVE  AnsweredInv'
    BY <1>18
       DEF Reopen, Goto, Composed, Moved, AnsweredInv, Response, Ready, workerVars,
           shutVars, ghostVars
<1>19. ASSUME NEW c \in Calls, StartReader(c)
       PROVE  AnsweredInv'
    BY <1>19
       DEF StartReader, Goto, AnsweredInv, Response, Ready, workerVars, shutVars,
           ghostVars
<1>20. ASSUME NEW m \in resps, ReaderTakes(m)
       PROVE  AnsweredInv'
    BY <1>20 DEF ReaderTakes, Awaited, AnsweredInv, Response, Ready, shutVars, ghostVars
<1>21. ASSUME ReaderLeaves
       PROVE  AnsweredInv'
    BY <1>21
       DEF ReaderLeaves, AnsweredInv, Response, Ready, workerVars, callVars, shutVars,
           ghostVars
<1>22. ASSUME ReaderEnds
       PROVE  AnsweredInv'
    BY <1>22
       DEF ReaderEnds, FailAllPending, AnsweredInv, Response, Ready, workerVars,
           shutVars, ghostVars
<1>23. ASSUME WorkerReady
       PROVE  AnsweredInv'
    BY <1>23, SessionAssumption
       DEF WorkerReady, AnsweredInv, Response, Ready, sessionVars, callVars, shutVars,
           ghostVars
<1>24. ASSUME NEW r \in reqs, Serve(r)
       PROVE  AnsweredInv'
    BY <1>24
       DEF Serve, Awaited, AnsweredInv, Response, Ready, sessionVars, callVars, shutVars
<1>25. ASSUME NEW r \in reqs, ServeOpen(r)
       PROVE  AnsweredInv'
    BY <1>25, SessionAssumption
       DEF ServeOpen, AnsweredInv, Response, Ready, sessionVars, callVars, shutVars,
           ghostVars
<1>26. ASSUME Crash
       PROVE  AnsweredInv'
    BY <1>26
       DEF Crash, WorkerGone, AnsweredInv, Response, Ready, sessionVars, callVars,
           shutVars
<1>27. ASSUME BeginShutdown
       PROVE  AnsweredInv'
    BY <1>27 DEF BeginShutdown, AnsweredInv, Response, Ready, workerVars, callVars
<1>28. ASSUME ShutdownJoins
       PROVE  AnsweredInv'
    BY <1>28
       DEF ShutdownJoins, AnsweredInv, Response, Ready, sessionVars, workerVars,
           callVars, ghostVars
<1>29. ASSUME ShutdownKills
       PROVE  AnsweredInv'
    BY <1>29
       DEF ShutdownKills, WorkerGone, AnsweredInv, Response, Ready, sessionVars,
           callVars, ghostVars
<1>30. ASSUME ShutdownFinishes
       PROVE  AnsweredInv'
    BY <1>30
       DEF ShutdownFinishes, FailAllPending, AnsweredInv, Response, Ready, workerVars,
           ghostVars
<1>31. CASE UNCHANGED vars
  BY <1>31
     DEF AnsweredInv, Response, Ready, vars, sessionVars, workerVars, callVars,
         shutVars, ghostVars
<1> QED
  BY <1>1, <1>2, <1>3, <1>4, <1>5, <1>6, <1>7, <1>8, <1>9, <1>10, <1>11, <1>12,
     <1>13, <1>14, <1>15, <1>16, <1>17, <1>18, <1>19, <1>20, <1>21, <1>22, <1>23,
     <1>24, <1>25, <1>26, <1>27, <1>28, <1>29, <1>30, <1>31
    DEF Next, CallStep, ReaderStep, WorkerStep, ShutdownStep

(* The budget is kept where nothing is put or served. *)
LEMMA BudgetKept ==
  ASSUME TypeOK, TypeOK', BudgetInv, UNCHANGED served, reqs' \subseteq reqs,
         \A c \in Calls : Allowed(c) <= Allowed(c)'
  PROVE  BudgetInv'
<1>1. IsFiniteSet(reqs')
  BY FS_Subset DEF BudgetInv
<1>2. ASSUME NEW c \in Calls PROVE served'[c] + Cardinality(Queued(c)') <= Allowed(c)'
  <2>1. Queued(c)' \subseteq Queued(c) /\ IsFiniteSet(Queued(c))
    BY FS_Subset DEF BudgetInv, Queued
  <2>2. Cardinality(Queued(c)') <= Cardinality(Queued(c))
        /\ Cardinality(Queued(c)') \in Nat /\ Cardinality(Queued(c)) \in Nat
    BY <2>1, FS_Subset, FS_CardinalityType
  <2>3. Allowed(c) \in Nat /\ Allowed(c)' \in Nat /\ served[c] \in Nat
    BY SessionAssumption DEF TypeOK, Allowed, Tries
  <2> QED
    BY <2>2, <2>3 DEF BudgetInv
<1> QED
  BY <1>1, <1>2 DEF BudgetInv

(* Every step keeps the budget. *)
LEMMA BudgetStep ==
  ASSUME TypeOK, TypeOK', BudgetInv, [Next]_vars
  PROVE  BudgetInv'
<1>1. ASSUME NEW c \in Calls, NEW t \in Tables, Use(c, t)
      PROVE  BudgetInv'
  <2>1. reqs' \subseteq reqs /\ UNCHANGED served
    BY <1>1 DEF Use, Goto, BuildRequest, sessionVars, workerVars, shutVars, ghostVars
  <2>2. \A x \in Calls : Allowed(x) <= Allowed(x)'
    BY <1>1, SessionAssumption
       DEF Use, Goto, BuildRequest, Allowed, Outcomes, Respawning, Replaying, Tries,
           TypeOK, sessionVars, workerVars, shutVars, ghostVars
  <2> QED
    BY <2>1, <2>2, BudgetKept
<1>2. ASSUME NEW c \in Calls, NEW t \in Tables, Release(c, t)
      PROVE  BudgetInv'
  <2>1. reqs' \subseteq reqs /\ UNCHANGED served
    BY <1>2 DEF Release, Goto, BuildRequest, workerVars, shutVars, ghostVars
  <2>2. \A x \in Calls : Allowed(x) <= Allowed(x)'
    BY <1>2, SessionAssumption
       DEF Release, Goto, BuildRequest, Allowed, Outcomes, Respawning, Replaying, Tries,
           TypeOK, workerVars, shutVars, ghostVars
  <2> QED
    BY <2>1, <2>2, BudgetKept
<1>3. ASSUME NEW c \in Calls, Check(c)
      PROVE  BudgetInv'
  <2>1. reqs' \subseteq reqs /\ UNCHANGED served
    BY <1>3
       DEF Check, TransportError, EndCall, Goto, Moved, sessionVars, workerVars,
           shutVars, ghostVars
  <2>2. \A x \in Calls : Allowed(x) <= Allowed(x)'
    BY <1>3, SessionAssumption
       DEF Check, TransportError, EndCall, Goto, Moved, Allowed, Outcomes, Respawning,
           Replaying, Tries, TypeOK, sessionVars, workerVars, shutVars, ghostVars
  <2> QED
    BY <2>1, <2>2, BudgetKept
<1>4. ASSUME NEW c \in Calls, CloseGone(c)
      PROVE  BudgetInv'
  <2>1. reqs' \subseteq reqs /\ UNCHANGED served
    BY <1>4
       DEF CloseGone, TransportError, EndCall, Goto, workerVars, shutVars, ghostVars
  <2>2. \A x \in Calls : Allowed(x) <= Allowed(x)'
    BY <1>4, SessionAssumption
       DEF CloseGone, TransportError, EndCall, Goto, Allowed, Outcomes, Respawning,
           Replaying, Tries, TypeOK, workerVars, shutVars, ghostVars
  <2> QED
    BY <2>1, <2>2, BudgetKept
<1>5. ASSUME NEW c \in Calls, RegisterPending(c)
      PROVE  BudgetInv'
  <2>1. reqs' \subseteq reqs /\ UNCHANGED served
    BY <1>5
       DEF RegisterPending, TransportError, EndCall, Goto, workerVars, shutVars,
           ghostVars
  <2>2. \A x \in Calls : Allowed(x) <= Allowed(x)'
    BY <1>5, SessionAssumption
       DEF RegisterPending, TransportError, EndCall, Goto, Allowed, Outcomes,
           Respawning, Replaying, Tries, TypeOK, workerVars, shutVars, ghostVars
  <2> QED
    BY <2>1, <2>2, BudgetKept
<1>6. ASSUME NEW c \in Calls, Put(c)
      PROVE  BudgetInv'
  <2>1. /\ served' = served /\ Allowed(c) = try[c] /\ Allowed(c)' = try[c] + 1
        /\ \A x \in Calls \ {c} : Allowed(x)' = Allowed(x)
    BY <1>6 DEF Put, Goto, Allowed, Outcomes, TypeOK, sessionVars, shutVars, ghostVars
  <2>2. IsFiniteSet(reqs') /\ reqs' \subseteq reqs \cup {Request(c)} /\ Request(c).from = c
    BY <1>6, FS_AddElement DEF Put, BudgetInv, Request
  <2>3. ASSUME NEW x \in Calls PROVE served'[x] + Cardinality(Queued(x)') <= Allowed(x)'
    <3>1. IsFiniteSet(Queued(x)) /\ Cardinality(Queued(x)) \in Nat /\ served[x] \in Nat
      BY FS_Subset, FS_CardinalityType DEF BudgetInv, Queued, TypeOK
    <3>2. CASE x = c
      <4>1. Queued(c)' \subseteq Queued(c) \cup {Request(c)}
        BY <2>2 DEF Queued
      <4>2. /\ IsFiniteSet(Queued(c) \cup {Request(c)})
            /\ Cardinality(Queued(c) \cup {Request(c)}) <= Cardinality(Queued(c)) + 1
        BY <3>1, <3>2, FS_AddElement
      <4>3. Cardinality(Queued(c)') <= Cardinality(Queued(c)) + 1
            /\ Cardinality(Queued(c)') \in Nat
        BY <3>1, <3>2, <4>1, <4>2, FS_Subset, FS_CardinalityType
      <4>4. try[c] \in Nat
        BY SessionAssumption DEF TypeOK, Tries
      <4> QED
        BY <2>1, <3>1, <3>2, <4>3, <4>4 DEF BudgetInv
    <3>3. CASE x # c
      <4>1. Queued(x)' = Queued(x)
        BY <1>6, <2>2, <3>3 DEF Queued, Put
      <4> QED
        BY <2>1, <3>3, <4>1 DEF BudgetInv
    <3> QED
      BY <3>2, <3>3
  <2> QED
    BY <2>2, <2>3 DEF BudgetInv
<1>7. ASSUME NEW c \in Calls, Return(c)
      PROVE  BudgetInv'
  <2>1. reqs' \subseteq reqs /\ UNCHANGED served
    BY <1>7 DEF Return, EndCall, Goto, workerVars, shutVars, ghostVars
  <2>2. \A x \in Calls : Allowed(x) <= Allowed(x)'
    BY <1>7, SessionAssumption
       DEF Return, EndCall, Goto, Allowed, Outcomes, Respawning, Replaying, Tries,
           TypeOK, workerVars, shutVars, ghostVars
  <2> QED
    BY <2>1, <2>2, BudgetKept
<1>8. ASSUME NEW c \in Calls, Fail(c)
      PROVE  BudgetInv'
  <2>1. reqs' \subseteq reqs /\ UNCHANGED served
    BY <1>8 DEF Fail, TransportError, EndCall, Goto, workerVars, shutVars, ghostVars
  <2>2. \A x \in Calls : Allowed(x) <= Allowed(x)'
    BY <1>8, SessionAssumption
       DEF Fail, TransportError, EndCall, Goto, Allowed, Outcomes, Respawning,
           Replaying, Tries, TypeOK, workerVars, shutVars, ghostVars
  <2> QED
    BY <2>1, <2>2, BudgetKept
<1>9. ASSUME NEW c \in Calls, Expire(c)
      PROVE  BudgetInv'
  <2>1. reqs' \subseteq reqs /\ UNCHANGED served
    BY <1>9 DEF Expire, EndCall, Goto, workerVars, shutVars
  <2>2. \A x \in Calls : Allowed(x) <= Allowed(x)'
    BY <1>9, SessionAssumption
       DEF Expire, EndCall, Goto, Allowed, Outcomes, Respawning, Replaying, Tries,
           TypeOK, workerVars, shutVars
  <2> QED
    BY <2>1, <2>2, BudgetKept
<1>10. ASSUME NEW c \in Calls, ForceRespawn(c)
       PROVE  BudgetInv'
  <2>1. reqs' \subseteq reqs /\ UNCHANGED served
    BY <1>10 DEF ForceRespawn, Goto, workerVars, shutVars, ghostVars
  <2>2. \A x \in Calls : Allowed(x) <= Allowed(x)'
    BY <1>10, SessionAssumption
       DEF ForceRespawn, Goto, Allowed, Outcomes, Respawning, Replaying, Tries, TypeOK,
           workerVars, shutVars, ghostVars
  <2> QED
    BY <2>1, <2>2, BudgetKept
<1>11. ASSUME NEW c \in Calls, EnterRespawn(c)
       PROVE  BudgetInv'
  <2>1. reqs' \subseteq reqs /\ UNCHANGED served
    BY <1>11 DEF EnterRespawn, Goto, workerVars, shutVars, ghostVars
  <2>2. \A x \in Calls : Allowed(x) <= Allowed(x)'
    BY <1>11, SessionAssumption
       DEF EnterRespawn, Goto, Allowed, Outcomes, Respawning, Replaying, Tries, TypeOK,
           workerVars, shutVars, ghostVars
  <2> QED
    BY <2>1, <2>2, BudgetKept
<1>12. ASSUME NEW c \in Calls, ReplaceWorker(c)
       PROVE  BudgetInv'
  <2>1. reqs' \subseteq reqs /\ UNCHANGED served
    BY <1>12 DEF ReplaceWorker, Goto, sessionVars, shutVars, ghostVars
  <2>2. \A x \in Calls : Allowed(x) <= Allowed(x)'
    BY <1>12, SessionAssumption
       DEF ReplaceWorker, Goto, Allowed, Outcomes, Respawning, Replaying, Tries, TypeOK,
           sessionVars, shutVars, ghostVars
  <2> QED
    BY <2>1, <2>2, BudgetKept
<1>13. ASSUME NEW c \in Calls, AwaitReady(c)
       PROVE  BudgetInv'
  <2>1. reqs' \subseteq reqs /\ UNCHANGED served
    BY <1>13 DEF AwaitReady, Goto, sessionVars, shutVars, ghostVars
  <2>2. \A x \in Calls : Allowed(x) <= Allowed(x)'
    BY <1>13, SessionAssumption
       DEF AwaitReady, Goto, Allowed, Outcomes, Respawning, Replaying, Tries, TypeOK,
           sessionVars, shutVars, ghostVars
  <2> QED
    BY <2>1, <2>2, BudgetKept
<1>14. ASSUME NEW c \in Calls, NeverReady(c)
       PROVE  BudgetInv'
  <2>1. reqs' \subseteq reqs /\ UNCHANGED served
    BY <1>14 DEF NeverReady, WorkerGone, Abort, EndCall, Goto, shutVars, ghostVars
  <2>2. \A x \in Calls : Allowed(x) <= Allowed(x)'
    BY <1>14, SessionAssumption
       DEF NeverReady, WorkerGone, Abort, EndCall, Goto, Allowed, Outcomes, Respawning,
           Replaying, Tries, TypeOK, shutVars, ghostVars
  <2> QED
    BY <2>1, <2>2, BudgetKept
<1>15. ASSUME NEW c \in Calls, ReplayStep(c)
       PROVE  BudgetInv'
  <2>1. served' = served /\ \A x \in Calls : Allowed(x) = Allowed(x)'
    BY <1>15
       DEF ReplayStep, Goto, Allowed, Outcomes, TypeOK, sessionVars, shutVars, ghostVars
  <2>2. PICK t \in Tables : reqs' = reqs \cup {OpenRequest(t)}
    BY <1>15 DEF ReplayStep
  <2>3. IsFiniteSet(reqs')
    BY <2>2, FS_AddElement DEF BudgetInv
  <2>4. \A x \in Calls : Queued(x)' = Queued(x)
    BY <2>2, SessionAssumption DEF Queued, OpenRequest
  <2> QED
    BY <2>1, <2>3, <2>4 DEF BudgetInv
<1>16. ASSUME NEW c \in Calls, NEW t \in Tables, NEW m \in resps, ReplayAnswer(c, t, m)
       PROVE  BudgetInv'
  <2>1. reqs' \subseteq reqs /\ UNCHANGED served
    BY <1>16 DEF ReplayAnswer, Goto, shutVars, ghostVars
  <2>2. \A x \in Calls : Allowed(x) <= Allowed(x)'
    BY <1>16, SessionAssumption
       DEF ReplayAnswer, Goto, Allowed, Outcomes, Respawning, Replaying, Tries, TypeOK,
           shutVars, ghostVars
  <2> QED
    BY <2>1, <2>2, BudgetKept
<1>17. ASSUME NEW c \in Calls, ReplayBreaks(c)
       PROVE  BudgetInv'
  <2>1. reqs' \subseteq reqs /\ UNCHANGED served
    BY <1>17 DEF ReplayBreaks, Abort, EndCall, Goto, shutVars, ghostVars
  <2>2. \A x \in Calls : Allowed(x) <= Allowed(x)'
    BY <1>17, SessionAssumption
       DEF ReplayBreaks, Abort, EndCall, Goto, Allowed, Outcomes, Respawning, Replaying,
           Tries, TypeOK, shutVars, ghostVars
  <2> QED
    BY <2>1, <2>2, BudgetKept
<1>18. ASSUME NEW c \in Calls, Reopen(c)
       PROVE  BudgetInv'
  <2>1. reqs' \subseteq reqs /\ UNCHANGED served
    BY <1>18 DEF Reopen, Goto, Composed, Moved, workerVars, shutVars, ghostVars
  <2>2. \A x \in Calls : Allowed(x) <= Allowed(x)'
    BY <1>18, SessionAssumption
       DEF Reopen, Goto, Composed, Moved, Allowed, Outcomes, Respawning, Replaying,
           Tries, TypeOK, workerVars, shutVars, ghostVars
  <2> QED
    BY <2>1, <2>2, BudgetKept
<1>19. ASSUME NEW c \in Calls, StartReader(c)
       PROVE  BudgetInv'
  <2>1. reqs' \subseteq reqs /\ UNCHANGED served
    BY <1>19 DEF StartReader, Goto, workerVars, shutVars, ghostVars
  <2>2. \A x \in Calls : Allowed(x) <= Allowed(x)'
    BY <1>19, SessionAssumption
       DEF StartReader, Goto, Allowed, Outcomes, Respawning, Replaying, Tries, TypeOK,
           workerVars, shutVars, ghostVars
  <2> QED
    BY <2>1, <2>2, BudgetKept
<1>20. ASSUME NEW m \in resps, ReaderTakes(m)
       PROVE  BudgetInv'
  <2>1. reqs' \subseteq reqs /\ UNCHANGED served
    BY <1>20 DEF ReaderTakes, Awaited, shutVars, ghostVars
  <2>2. \A x \in Calls : Allowed(x) <= Allowed(x)'
    BY <1>20, SessionAssumption
       DEF ReaderTakes, Awaited, Allowed, Outcomes, Respawning, Replaying, Tries,
           TypeOK, shutVars, ghostVars
  <2> QED
    BY <2>1, <2>2, BudgetKept
<1>21. ASSUME ReaderLeaves
       PROVE  BudgetInv'
  <2>1. reqs' \subseteq reqs /\ UNCHANGED served
    BY <1>21 DEF ReaderLeaves, workerVars, callVars, shutVars, ghostVars
  <2>2. \A x \in Calls : Allowed(x) <= Allowed(x)'
    BY <1>21, SessionAssumption
       DEF ReaderLeaves, Allowed, Outcomes, Respawning, Replaying, Tries, TypeOK,
           workerVars, callVars, shutVars, ghostVars
  <2> QED
    BY <2>1, <2>2, BudgetKept
<1>22. ASSUME ReaderEnds
       PROVE  BudgetInv'
  <2>1. reqs' \subseteq reqs /\ UNCHANGED served
    BY <1>22 DEF ReaderEnds, FailAllPending, workerVars, shutVars, ghostVars
  <2>2. \A x \in Calls : Allowed(x) <= Allowed(x)'
    BY <1>22, SessionAssumption
       DEF ReaderEnds, FailAllPending, Allowed, Outcomes, Respawning, Replaying, Tries,
           TypeOK, workerVars, shutVars, ghostVars
  <2> QED
    BY <2>1, <2>2, BudgetKept
<1>23. ASSUME WorkerReady
       PROVE  BudgetInv'
  <2>1. reqs' \subseteq reqs /\ UNCHANGED served
    BY <1>23 DEF WorkerReady, sessionVars, callVars, shutVars, ghostVars
  <2>2. \A x \in Calls : Allowed(x) <= Allowed(x)'
    BY <1>23, SessionAssumption
       DEF WorkerReady, Allowed, Outcomes, Respawning, Replaying, Tries, TypeOK,
           sessionVars, callVars, shutVars, ghostVars
  <2> QED
    BY <2>1, <2>2, BudgetKept
<1>24. ASSUME NEW r \in reqs, Serve(r)
       PROVE  BudgetInv'
  <2>1. \A x \in Calls : Allowed(x)' = Allowed(x)
    BY <1>24 DEF Serve, Allowed, sessionVars, callVars, shutVars
  <2>2. reqs' = reqs \ {r} /\ r.from \in Calls /\ served' = [served EXCEPT ![r.from] = @ + 1]
    BY <1>24 DEF Serve
  <2>3. IsFiniteSet(reqs')
    BY <2>2, FS_Subset DEF BudgetInv
  <2>4. ASSUME NEW x \in Calls PROVE served'[x] + Cardinality(Queued(x)') <= Allowed(x)'
    <3>1. IsFiniteSet(Queued(x)) /\ Cardinality(Queued(x)) \in Nat /\ served[x] \in Nat
      BY FS_Subset, FS_CardinalityType DEF BudgetInv, Queued, TypeOK
    <3>2. CASE x = r.from
      <4>1. Queued(x)' = Queued(x) \ {r} /\ r \in Queued(x)
        BY <2>2, <3>2 DEF Queued
      <4>2. Cardinality(Queued(x)') = Cardinality(Queued(x)) - 1
        BY <3>1, <4>1, FS_RemoveElement
      <4>3. served'[x] = served[x] + 1
        BY <2>2, <3>2 DEF TypeOK
      <4> QED
        BY <2>1, <3>1, <4>2, <4>3 DEF BudgetInv
    <3>3. CASE x # r.from
      <4>1. Queued(x)' = Queued(x) /\ served'[x] = served[x]
        BY <2>2, <3>3 DEF Queued, TypeOK
      <4> QED
        BY <2>1, <4>1 DEF BudgetInv
    <3> QED
      BY <3>2, <3>3
  <2> QED
    BY <2>3, <2>4 DEF BudgetInv
<1>25. ASSUME NEW r \in reqs, ServeOpen(r)
       PROVE  BudgetInv'
  <2>1. reqs' \subseteq reqs /\ UNCHANGED served
    BY <1>25 DEF ServeOpen, sessionVars, callVars, shutVars, ghostVars
  <2>2. \A x \in Calls : Allowed(x) <= Allowed(x)'
    BY <1>25, SessionAssumption
       DEF ServeOpen, Allowed, Outcomes, Respawning, Replaying, Tries, TypeOK,
           sessionVars, callVars, shutVars, ghostVars
  <2> QED
    BY <2>1, <2>2, BudgetKept
<1>26. ASSUME Crash
       PROVE  BudgetInv'
  <2>1. reqs' \subseteq reqs /\ UNCHANGED served
    BY <1>26 DEF Crash, WorkerGone, sessionVars, callVars, shutVars
  <2>2. \A x \in Calls : Allowed(x) <= Allowed(x)'
    BY <1>26, SessionAssumption
       DEF Crash, WorkerGone, Allowed, Outcomes, Respawning, Replaying, Tries, TypeOK,
           sessionVars, callVars, shutVars
  <2> QED
    BY <2>1, <2>2, BudgetKept
<1>27. ASSUME BeginShutdown
       PROVE  BudgetInv'
  <2>1. reqs' \subseteq reqs /\ UNCHANGED served
    BY <1>27 DEF BeginShutdown, workerVars, callVars
  <2>2. \A x \in Calls : Allowed(x) <= Allowed(x)'
    BY <1>27, SessionAssumption
       DEF BeginShutdown, Allowed, Outcomes, Respawning, Replaying, Tries, TypeOK,
           workerVars, callVars
  <2> QED
    BY <2>1, <2>2, BudgetKept
<1>28. ASSUME ShutdownJoins
       PROVE  BudgetInv'
  <2>1. reqs' \subseteq reqs /\ UNCHANGED served
    BY <1>28 DEF ShutdownJoins, sessionVars, workerVars, callVars, ghostVars
  <2>2. \A x \in Calls : Allowed(x) <= Allowed(x)'
    BY <1>28, SessionAssumption
       DEF ShutdownJoins, Allowed, Outcomes, Respawning, Replaying, Tries, TypeOK,
           sessionVars, workerVars, callVars, ghostVars
  <2> QED
    BY <2>1, <2>2, BudgetKept
<1>29. ASSUME ShutdownKills
       PROVE  BudgetInv'
  <2>1. reqs' \subseteq reqs /\ UNCHANGED served
    BY <1>29 DEF ShutdownKills, WorkerGone, sessionVars, callVars, ghostVars
  <2>2. \A x \in Calls : Allowed(x) <= Allowed(x)'
    BY <1>29, SessionAssumption
       DEF ShutdownKills, WorkerGone, Allowed, Outcomes, Respawning, Replaying, Tries,
           TypeOK, sessionVars, callVars, ghostVars
  <2> QED
    BY <2>1, <2>2, BudgetKept
<1>30. ASSUME ShutdownFinishes
       PROVE  BudgetInv'
  <2>1. reqs' \subseteq reqs /\ UNCHANGED served
    BY <1>30 DEF ShutdownFinishes, FailAllPending, workerVars, ghostVars
  <2>2. \A x \in Calls : Allowed(x) <= Allowed(x)'
    BY <1>30, SessionAssumption
       DEF ShutdownFinishes, FailAllPending, Allowed, Outcomes, Respawning, Replaying,
           Tries, TypeOK, workerVars, ghostVars
  <2> QED
    BY <2>1, <2>2, BudgetKept
<1>31. CASE UNCHANGED vars
  BY <1>31
     DEF Queued, Allowed, BudgetInv, vars, sessionVars, workerVars, callVars, shutVars,
         ghostVars
<1> QED
  BY <1>1, <1>2, <1>3, <1>4, <1>5, <1>6, <1>7, <1>8, <1>9, <1>10, <1>11, <1>12,
     <1>13, <1>14, <1>15, <1>16, <1>17, <1>18, <1>19, <1>20, <1>21, <1>22, <1>23,
     <1>24, <1>25, <1>26, <1>27, <1>28, <1>29, <1>30, <1>31
    DEF Next, CallStep, ReaderStep, WorkerStep, ShutdownStep

-----------------------------------------------------------------------------
(* What the session promises: RemoteCalls.                                  *)

LEMMA StatusKept ==
  ASSUME pc \in [Calls -> Places], NEW c \in Calls, Begun(c),
         NEW l \in Places, l \notin {"idle"} \cup Outcomes, pc' = [pc EXCEPT ![c] = l]
  PROVE  Status' = Status
  BY DEF Status, Begun

LEMMA StatusMoves ==
  ASSUME pc \in [Calls -> Places], NEW c \in Calls, NEW l \in Outcomes,
         pc' = [pc EXCEPT ![c] = l]
  PROVE  Status' = [Status EXCEPT ![c] = l]
  BY DEF Status, Begun

LEMMA RaiseMaps ==
  ASSUME TypeOK, NEW c \in Calls, Begun(c), EndCall(c, "raised"), UNCHANGED served
  PROVE  Remote!Raise(c)
<1>1. Status[c] = "open" /\ "raised" \in Outcomes
  BY DEF Status, Outcomes
<1>2. Status' = [Status EXCEPT ![c] = "raised"]
  BY <1>1, StatusMoves DEF TypeOK, Places, EndCall, Goto
<1> QED
  BY <1>1, <1>2 DEF Remote!Raise

LEMMA TransportMaps ==
  ASSUME TypeOK, NEW c \in Calls, Begun(c), TransportError(c), UNCHANGED served
  PROVE  Remote!Raise(c) \/ UNCHANGED Status
<1>1. CASE EndCall(c, "raised")
  BY <1>1, RaiseMaps
<1>2. CASE Goto(c, "respawn")
  BY <1>2, StatusKept DEF TypeOK, Places, Goto, Outcomes
<1> QED
  BY <1>1, <1>2 DEF TransportError

(* Every step of the session is a step of a remote call, or none. *)
LEMMA RemoteStep ==
  ASSUME TypeOK, AnsweredInv, BudgetInv, [Next]_vars
  PROVE  Remote!Next \/ UNCHANGED Remote!vars
<1>1. ASSUME NEW c \in Calls, NEW t \in Tables, Use(c, t)
      PROVE  Remote!Next \/ UNCHANGED Remote!vars
  <2>1. Status[c] = "idle" /\ Status' = [Status EXCEPT ![c] = "open"]
    BY <1>1 DEF Use, Goto, Status, Begun, Outcomes, TypeOK
  <2> QED
    BY <1>1, <2>1
       DEF Use, Remote!Next, Remote!Begin, sessionVars, workerVars, shutVars, ghostVars
<1>2. ASSUME NEW c \in Calls, NEW t \in Tables, Release(c, t)
      PROVE  Remote!Next \/ UNCHANGED Remote!vars
  <2>1. Status[c] = "idle" /\ Status' = [Status EXCEPT ![c] = "open"]
    BY <1>2 DEF Release, Goto, Status, Begun, Outcomes, TypeOK
  <2> QED
    BY <1>2, <2>1
       DEF Release, Remote!Next, Remote!Begin, workerVars, shutVars, ghostVars
<1>3. ASSUME NEW c \in Calls, Check(c)
      PROVE  Remote!Next \/ UNCHANGED Remote!vars
  <2>1. Begun(c) /\ UNCHANGED served
    BY <1>3 DEF Check, Begun, Outcomes, sessionVars, workerVars, shutVars, ghostVars
  <2>2. CASE TransportError(c)
    BY <2>1, <2>2, TransportMaps DEF Remote!Next, Remote!vars
  <2>3. CASE Goto(c, "gone") \/ Goto(c, "register")
    BY <2>1, <2>3, StatusKept DEF Goto, Places, Outcomes, TypeOK, Remote!vars
  <2> QED
    BY <1>3, <2>2, <2>3 DEF Check
<1>4. ASSUME NEW c \in Calls, CloseGone(c)
      PROVE  Remote!Next \/ UNCHANGED Remote!vars
  <2>1. Begun(c) /\ UNCHANGED served
    BY <1>4 DEF CloseGone, Begun, Outcomes, workerVars, shutVars, ghostVars
  <2>2. CASE TransportError(c)
    BY <2>1, <2>2, TransportMaps DEF Remote!Next, Remote!vars
  <2> QED
    BY <1>4, <2>2 DEF CloseGone
<1>5. ASSUME NEW c \in Calls, RegisterPending(c)
      PROVE  Remote!Next \/ UNCHANGED Remote!vars
  <2>1. Begun(c) /\ UNCHANGED served
    BY <1>5 DEF RegisterPending, Begun, Outcomes, workerVars, shutVars, ghostVars
  <2>2. CASE TransportError(c)
    BY <2>1, <2>2, TransportMaps DEF Remote!Next, Remote!vars
  <2>3. CASE Goto(c, "put")
    BY <2>1, <2>3, StatusKept DEF Goto, Places, Outcomes, TypeOK, Remote!vars
  <2> QED
    BY <1>5, <2>2, <2>3 DEF RegisterPending
<1>6. ASSUME NEW c \in Calls, Put(c)
      PROVE  Remote!Next \/ UNCHANGED Remote!vars
  <2>1. UNCHANGED <<Status, served>>
    BY <1>6, StatusKept
       DEF Put, Goto, Request, Places, Begun, Outcomes, Respawning, Replaying, TypeOK,
           sessionVars, shutVars, ghostVars
  <2> QED
    BY <2>1 DEF Remote!vars
<1>7. ASSUME NEW c \in Calls, Return(c)
      PROVE  Remote!Next \/ UNCHANGED Remote!vars
  <2>1. /\ Status[c] = "open" /\ served[c] > 0 /\ UNCHANGED served
        /\ "returned" \in Outcomes
    BY <1>7
       DEF Return, AnsweredInv, Status, Begun, Outcomes, workerVars, shutVars, ghostVars
  <2>2. Status' = [Status EXCEPT ![c] = "returned"]
    BY <1>7, <2>1, StatusMoves DEF Return, EndCall, Goto, TypeOK, Places
  <2> QED
    BY <2>1, <2>2 DEF Remote!Next, Remote!Return
<1>8. ASSUME NEW c \in Calls, Fail(c)
      PROVE  Remote!Next \/ UNCHANGED Remote!vars
  <2>1. Begun(c) /\ UNCHANGED served
    BY <1>8 DEF Fail, Begun, Outcomes, workerVars, shutVars, ghostVars
  <2>2. CASE TransportError(c)
    BY <2>1, <2>2, TransportMaps DEF Remote!Next, Remote!vars
  <2> QED
    BY <1>8, <2>2 DEF Fail
<1>9. ASSUME NEW c \in Calls, Expire(c)
      PROVE  Remote!Next \/ UNCHANGED Remote!vars
  <2>1. Begun(c) /\ UNCHANGED served
    BY <1>9 DEF Expire, Begun, Outcomes, workerVars, shutVars
  <2>2. CASE EndCall(c, "raised")
    BY <2>1, <2>2, RaiseMaps DEF Remote!Next
  <2>3. CASE \E l \in {"force", "respawn"} : pc' = [pc EXCEPT ![c] = l]
    BY <2>1, <2>3, StatusKept DEF Places, Outcomes, TypeOK, Remote!vars
  <2>4. EndCall(c, "raised") \/ \E l \in {"force", "respawn"} : pc' = [pc EXCEPT ![c] = l]
    BY <1>9 DEF Expire, Goto
  <2> QED
    BY <2>2, <2>3, <2>4
<1>10. ASSUME NEW c \in Calls, ForceRespawn(c)
       PROVE  Remote!Next \/ UNCHANGED Remote!vars
  <2>1. UNCHANGED <<Status, served>>
    BY <1>10, StatusKept
       DEF ForceRespawn, Goto, Places, Begun, Outcomes, Respawning, Replaying, TypeOK,
           workerVars, shutVars, ghostVars
  <2> QED
    BY <2>1 DEF Remote!vars
<1>11. ASSUME NEW c \in Calls, EnterRespawn(c)
       PROVE  Remote!Next \/ UNCHANGED Remote!vars
  <2>1. UNCHANGED <<Status, served>>
    BY <1>11, StatusKept
       DEF EnterRespawn, Goto, Places, Begun, Outcomes, Respawning, Replaying, TypeOK,
           workerVars, shutVars, ghostVars
  <2> QED
    BY <2>1 DEF Remote!vars
<1>12. ASSUME NEW c \in Calls, ReplaceWorker(c)
       PROVE  Remote!Next \/ UNCHANGED Remote!vars
  <2>1. UNCHANGED <<Status, served>>
    BY <1>12, StatusKept
       DEF ReplaceWorker, Goto, Places, Begun, Outcomes, Respawning, Replaying, TypeOK,
           sessionVars, shutVars, ghostVars
  <2> QED
    BY <2>1 DEF Remote!vars
<1>13. ASSUME NEW c \in Calls, AwaitReady(c)
       PROVE  Remote!Next \/ UNCHANGED Remote!vars
  <2>1. UNCHANGED <<Status, served>>
    BY <1>13, StatusKept
       DEF AwaitReady, Goto, Places, Begun, Outcomes, Respawning, Replaying, TypeOK,
           sessionVars, shutVars, ghostVars
  <2> QED
    BY <2>1 DEF Remote!vars
<1>14. ASSUME NEW c \in Calls, NeverReady(c)
       PROVE  Remote!Next \/ UNCHANGED Remote!vars
  <2>1. Begun(c) /\ UNCHANGED served /\ EndCall(c, "raised")
    BY <1>14 DEF NeverReady, Abort, Begun, Outcomes, shutVars, ghostVars
  <2> QED
    BY <2>1, RaiseMaps DEF Remote!Next
<1>15. ASSUME NEW c \in Calls, ReplayStep(c)
       PROVE  Remote!Next \/ UNCHANGED Remote!vars
  <2>1. UNCHANGED <<Status, served>>
    BY <1>15, StatusKept
       DEF ReplayStep, Goto, First, OpenRequest, Places, Begun, Outcomes, Respawning,
           Replaying, TypeOK, sessionVars, shutVars, ghostVars
  <2> QED
    BY <2>1 DEF Remote!vars
<1>16. ASSUME NEW c \in Calls, NEW t \in Tables, NEW m \in resps, ReplayAnswer(c, t, m)
       PROVE  Remote!Next \/ UNCHANGED Remote!vars
  <2>1. UNCHANGED <<Status, served>>
    BY <1>16, StatusKept
       DEF ReplayAnswer, Goto, Places, Begun, Outcomes, Respawning, Replaying, TypeOK,
           shutVars, ghostVars
  <2> QED
    BY <2>1 DEF Remote!vars
<1>17. ASSUME NEW c \in Calls, ReplayBreaks(c)
       PROVE  Remote!Next \/ UNCHANGED Remote!vars
  <2>1. Begun(c) /\ UNCHANGED served /\ EndCall(c, "raised")
    BY <1>17 DEF ReplayBreaks, Abort, Begun, Outcomes, shutVars, ghostVars
  <2> QED
    BY <2>1, RaiseMaps DEF Remote!Next
<1>18. ASSUME NEW c \in Calls, Reopen(c)
       PROVE  Remote!Next \/ UNCHANGED Remote!vars
  <2>1. UNCHANGED <<Status, served>>
    BY <1>18, StatusKept
       DEF Reopen, Goto, Composed, Moved, Places, Begun, Outcomes, Respawning,
           Replaying, TypeOK, workerVars, shutVars, ghostVars
  <2> QED
    BY <2>1 DEF Remote!vars
<1>19. ASSUME NEW c \in Calls, StartReader(c)
       PROVE  Remote!Next \/ UNCHANGED Remote!vars
  <2>1. UNCHANGED <<Status, served>>
    BY <1>19, StatusKept
       DEF StartReader, Goto, Places, Begun, Outcomes, Respawning, Replaying, TypeOK,
           workerVars, shutVars, ghostVars
  <2> QED
    BY <2>1 DEF Remote!vars
<1>20. ASSUME NEW m \in resps, ReaderTakes(m)
       PROVE  Remote!Next \/ UNCHANGED Remote!vars
  BY <1>20 DEF ReaderTakes, Awaited, Status, Begun, Remote!vars, shutVars, ghostVars
<1>21. ASSUME ReaderLeaves
       PROVE  Remote!Next \/ UNCHANGED Remote!vars
  BY <1>21
     DEF ReaderLeaves, Status, Begun, Remote!vars, workerVars, callVars, shutVars,
         ghostVars
<1>22. ASSUME ReaderEnds
       PROVE  Remote!Next \/ UNCHANGED Remote!vars
  BY <1>22
     DEF ReaderEnds, FailAllPending, Status, Begun, Remote!vars, workerVars, shutVars,
         ghostVars
<1>23. ASSUME WorkerReady
       PROVE  Remote!Next \/ UNCHANGED Remote!vars
  BY <1>23
     DEF WorkerReady, Status, Begun, Remote!vars, sessionVars, callVars, shutVars,
         ghostVars
<1>24. ASSUME NEW r \in reqs, Serve(r)
       PROVE  Remote!Next \/ UNCHANGED Remote!vars
  <2> DEFINE c == r.from
  <2>1. c \in Calls /\ served' = [served EXCEPT ![c] = @ + 1] /\ UNCHANGED Status
    BY <1>24 DEF Serve, Status, Begun, sessionVars, callVars, shutVars
  <2>2. served[c] < MaxRetries + 1 /\ Status[c] # "idle"
    <3>1. r \in Queued(c) /\ IsFiniteSet(Queued(c))
      BY FS_Subset DEF Queued, BudgetInv
    <3>2. Cardinality(Queued(c)) \in Nat /\ Cardinality(Queued(c)) # 0
      BY <3>1, FS_CardinalityType, FS_EmptySet
    <3>3. Allowed(c) \in 0..MaxRetries + 1 /\ (pc[c] = "idle" => Allowed(c) = 0)
      BY <2>1, SessionAssumption DEF Allowed, TypeOK, Tries
    <3>4. served[c] \in Nat /\ served[c] + Cardinality(Queued(c)) <= Allowed(c)
      BY <2>1 DEF BudgetInv, TypeOK
    <3>5. pc[c] # "idle"
      BY <3>2, <3>3, <3>4
    <3> QED
      BY <2>1, <3>2, <3>3, <3>4, <3>5, SessionAssumption DEF Status, Begun
  <2> QED
    BY <2>1, <2>2 DEF Remote!Next, Remote!TakeEffect
<1>25. ASSUME NEW r \in reqs, ServeOpen(r)
       PROVE  Remote!Next \/ UNCHANGED Remote!vars
  BY <1>25
     DEF ServeOpen, Status, Begun, Remote!vars, sessionVars, callVars, shutVars,
         ghostVars
<1>26. ASSUME Crash
       PROVE  Remote!Next \/ UNCHANGED Remote!vars
  BY <1>26
     DEF Crash, WorkerGone, Status, Begun, Remote!vars, sessionVars, callVars, shutVars
<1>27. ASSUME BeginShutdown
       PROVE  Remote!Next \/ UNCHANGED Remote!vars
  BY <1>27 DEF BeginShutdown, Status, Begun, Remote!vars, workerVars, callVars
<1>28. ASSUME ShutdownJoins
       PROVE  Remote!Next \/ UNCHANGED Remote!vars
  BY <1>28
     DEF ShutdownJoins, Status, Begun, Remote!vars, sessionVars, workerVars, callVars,
         ghostVars
<1>29. ASSUME ShutdownKills
       PROVE  Remote!Next \/ UNCHANGED Remote!vars
  BY <1>29
     DEF ShutdownKills, WorkerGone, Status, Begun, Remote!vars, sessionVars, callVars,
         ghostVars
<1>30. ASSUME ShutdownFinishes
       PROVE  Remote!Next \/ UNCHANGED Remote!vars
  BY <1>30
     DEF ShutdownFinishes, FailAllPending, Status, Begun, Remote!vars, workerVars,
         ghostVars
<1>31. CASE UNCHANGED vars
  BY <1>31
     DEF Status, Begun, Remote!vars, vars, sessionVars, workerVars, callVars, shutVars,
         ghostVars
<1> QED
  BY <1>1, <1>2, <1>3, <1>4, <1>5, <1>6, <1>7, <1>8, <1>9, <1>10, <1>11, <1>12,
     <1>13, <1>14, <1>15, <1>16, <1>17, <1>18, <1>19, <1>20, <1>21, <1>22, <1>23,
     <1>24, <1>25, <1>26, <1>27, <1>28, <1>29, <1>30, <1>31
    DEF Next, CallStep, ReaderStep, WorkerStep, ShutdownStep

(* The session implements remote calls that take effect at most once per    *)
(* attempt, and at least once before they return.                           *)
THEOREM CallsImplemented == Spec => ImplementsRemoteCalls
<1>1. Init => Remote!Init
  BY DEF Init, Remote!Init, Status, Begun
<1>2. /\ TypeOK /\ AnsweredInv /\ BudgetInv /\ [Next]_vars
      => TypeOK' /\ AnsweredInv' /\ BudgetInv' /\ [Remote!Next]_Remote!vars
  BY TypeStep, AnsweredStep, BudgetStep, RemoteStep
<1> QED
  BY TypeInit, CountInit, <1>1, <1>2, PTL DEF Spec, ImplementsRemoteCalls, Remote!Spec

-----------------------------------------------------------------------------
(* Nothing has happened to the session: where its calls can be, and what of *)
(* each has been served.                                                    *)
Quiet == faults = 0 /\ stage = "no"
QuietInv == Quiet =>
    /\ ~closed /\ reader = "reading" /\ worker = "serving"
    /\ \A c \in Calls :
          /\ pc[c] \in {"idle", "check", "register", "put", "wait", "returned"}
          /\ fut[c] # "failed"
          /\ pc[c] \in {"idle", "check", "register", "put"} => served[c] = 0
          /\ pc[c] = "returned" \/ fut[c] = "answered" => served[c] = 1
    /\ \A r \in reqs : r.from \in Calls /\ pc[r.from] = "wait" /\ served[r.from] = 0
    /\ \A r, s \in reqs : r.from = s.from => r = s
    /\ \A m \in resps : m.to \in Calls => served[m.to] = 1


LEMMA QuietInit == Init => QuietInv
  BY DEF Init, QuietInv

(* Every step keeps it. *)
LEMMA QuietStep ==
  ASSUME TypeOK, QuietInv, [Next]_vars
  PROVE  QuietInv'
<1> SUFFICES ASSUME pc \in [Calls -> Places], pending \subseteq Calls,
               fut \in [Calls -> {"none", "waiting", "answered", "failed"}],
               served \in [Calls -> Nat], resps \subseteq Responses, faults \in Nat,
               Quiet'
    PROVE QuietInv'
  BY DEF TypeOK, Places, QuietInv
<1>1. ASSUME NEW c \in Calls, NEW t \in Tables, Use(c, t)
      PROVE  QuietInv'
    BY <1>1
       DEF Use, Goto, BuildRequest, QuietInv, Quiet, Response, Ready, Alive,
           sessionVars, workerVars, shutVars, ghostVars
<1>2. ASSUME NEW c \in Calls, NEW t \in Tables, Release(c, t)
      PROVE  QuietInv'
    BY <1>2
       DEF Release, Goto, BuildRequest, QuietInv, Quiet, Response, Ready, Alive,
           workerVars, shutVars, ghostVars
<1>3. ASSUME NEW c \in Calls, Check(c)
      PROVE  QuietInv'
    BY <1>3
       DEF Check, TransportError, EndCall, Goto, Moved, QuietInv, Quiet, Response,
           Ready, Alive, sessionVars, workerVars, shutVars, ghostVars
<1>4. ASSUME NEW c \in Calls, CloseGone(c)
      PROVE  QuietInv'
    BY <1>4
       DEF CloseGone, TransportError, EndCall, Goto, QuietInv, Quiet, Response, Ready,
           Alive, workerVars, shutVars, ghostVars
<1>5. ASSUME NEW c \in Calls, RegisterPending(c)
      PROVE  QuietInv'
    BY <1>5
       DEF RegisterPending, TransportError, EndCall, Goto, QuietInv, Quiet, Response,
           Ready, Alive, workerVars, shutVars, ghostVars
<1>6. ASSUME NEW c \in Calls, Put(c)
      PROVE  QuietInv'
    BY <1>6
       DEF Put, Goto, Request, QuietInv, Quiet, Response, Ready, Alive, sessionVars,
           shutVars, ghostVars
<1>7. ASSUME NEW c \in Calls, Return(c)
      PROVE  QuietInv'
    BY <1>7
       DEF Return, EndCall, Goto, QuietInv, Quiet, Response, Ready, Alive, workerVars,
           shutVars, ghostVars
<1>8. ASSUME NEW c \in Calls, Fail(c)
      PROVE  QuietInv'
    BY <1>8
       DEF Fail, TransportError, EndCall, Goto, QuietInv, Quiet, Response, Ready, Alive,
           workerVars, shutVars, ghostVars
<1>9. ASSUME NEW c \in Calls, Expire(c)
      PROVE  QuietInv'
    BY <1>9
       DEF Expire, EndCall, Goto, QuietInv, Quiet, Response, Ready, Alive, workerVars,
           shutVars
<1>10. ASSUME NEW c \in Calls, ForceRespawn(c)
       PROVE  QuietInv'
    BY <1>10
       DEF ForceRespawn, Goto, QuietInv, Quiet, Response, Ready, Alive, workerVars,
           shutVars, ghostVars
<1>11. ASSUME NEW c \in Calls, EnterRespawn(c)
       PROVE  QuietInv'
    BY <1>11
       DEF EnterRespawn, Goto, QuietInv, Quiet, Response, Ready, Alive, workerVars,
           shutVars, ghostVars
<1>12. ASSUME NEW c \in Calls, ReplaceWorker(c)
       PROVE  QuietInv'
    BY <1>12
       DEF ReplaceWorker, Goto, QuietInv, Quiet, Response, Ready, Alive, sessionVars,
           shutVars, ghostVars
<1>13. ASSUME NEW c \in Calls, AwaitReady(c)
       PROVE  QuietInv'
    BY <1>13
       DEF AwaitReady, Goto, QuietInv, Quiet, Response, Ready, Alive, sessionVars,
           shutVars, ghostVars
<1>14. ASSUME NEW c \in Calls, NeverReady(c)
       PROVE  QuietInv'
    BY <1>14
       DEF NeverReady, WorkerGone, Abort, EndCall, Goto, QuietInv, Quiet, Response,
           Ready, Alive, shutVars, ghostVars
<1>15. ASSUME NEW c \in Calls, ReplayStep(c)
       PROVE  QuietInv'
    BY <1>15
       DEF ReplayStep, Goto, First, OpenRequest, QuietInv, Quiet, Response, Ready,
           Alive, sessionVars, shutVars, ghostVars
<1>16. ASSUME NEW c \in Calls, NEW t \in Tables, NEW m \in resps, ReplayAnswer(c, t, m)
       PROVE  QuietInv'
    BY <1>16
       DEF ReplayAnswer, Goto, QuietInv, Quiet, Response, Ready, Alive, shutVars,
           ghostVars
<1>17. ASSUME NEW c \in Calls, ReplayBreaks(c)
       PROVE  QuietInv'
    BY <1>17
       DEF ReplayBreaks, Abort, EndCall, Goto, QuietInv, Quiet, Response, Ready, Alive,
           shutVars, ghostVars
<1>18. ASSUME NEW c \in Calls, Reopen(c)
       PROVE  QuietInv'
    BY <1>18
       DEF Reopen, Goto, Composed, Moved, QuietInv, Quiet, Response, Ready, Alive,
           workerVars, shutVars, ghostVars
<1>19. ASSUME NEW c \in Calls, StartReader(c)
       PROVE  QuietInv'
    BY <1>19
       DEF StartReader, Goto, QuietInv, Quiet, Response, Ready, Alive, workerVars,
           shutVars, ghostVars
<1>20. ASSUME NEW m \in resps, ReaderTakes(m)
       PROVE  QuietInv'
    BY <1>20
       DEF ReaderTakes, Awaited, QuietInv, Quiet, Response, Ready, Alive, shutVars,
           ghostVars
<1>21. ASSUME ReaderLeaves
       PROVE  QuietInv'
    BY <1>21
       DEF ReaderLeaves, QuietInv, Quiet, Response, Ready, Alive, workerVars, callVars,
           shutVars, ghostVars
<1>22. ASSUME ReaderEnds
       PROVE  QuietInv'
    BY <1>22
       DEF ReaderEnds, FailAllPending, QuietInv, Quiet, Response, Ready, Alive,
           workerVars, shutVars, ghostVars
<1>23. ASSUME WorkerReady
       PROVE  QuietInv'
    BY <1>23
       DEF WorkerReady, QuietInv, Quiet, Response, Ready, Alive, sessionVars, callVars,
           shutVars, ghostVars
<1>24. ASSUME NEW r \in reqs, Serve(r)
       PROVE  QuietInv'
    BY <1>24
       DEF Serve, Awaited, QuietInv, Quiet, Response, Ready, Alive, sessionVars,
           callVars, shutVars
<1>25. ASSUME NEW r \in reqs, ServeOpen(r)
       PROVE  QuietInv'
    BY <1>25, SessionAssumption
       DEF ServeOpen, QuietInv, Quiet, Response, Ready, Alive, sessionVars, callVars,
           shutVars, ghostVars
<1>26. ASSUME Crash
       PROVE  QuietInv'
    BY <1>26
       DEF Crash, WorkerGone, QuietInv, Quiet, Response, Ready, Alive, sessionVars,
           callVars, shutVars
<1>27. ASSUME BeginShutdown
       PROVE  QuietInv'
    BY <1>27
       DEF BeginShutdown, QuietInv, Quiet, Response, Ready, Alive, workerVars, callVars
<1>28. ASSUME ShutdownJoins
       PROVE  QuietInv'
    BY <1>28
       DEF ShutdownJoins, QuietInv, Quiet, Response, Ready, Alive, sessionVars,
           workerVars, callVars, ghostVars
<1>29. ASSUME ShutdownKills
       PROVE  QuietInv'
    BY <1>29
       DEF ShutdownKills, WorkerGone, QuietInv, Quiet, Response, Ready, Alive,
           sessionVars, callVars, ghostVars
<1>30. ASSUME ShutdownFinishes
       PROVE  QuietInv'
    BY <1>30
       DEF ShutdownFinishes, FailAllPending, QuietInv, Quiet, Response, Ready, Alive,
           workerVars, ghostVars
<1>31. CASE UNCHANGED vars
  BY <1>31
     DEF QuietInv, Quiet, Response, Ready, Alive, vars, sessionVars, workerVars,
         callVars, shutVars, ghostVars
<1> QED
  BY <1>1, <1>2, <1>3, <1>4, <1>5, <1>6, <1>7, <1>8, <1>9, <1>10, <1>11, <1>12,
     <1>13, <1>14, <1>15, <1>16, <1>17, <1>18, <1>19, <1>20, <1>21, <1>22, <1>23,
     <1>24, <1>25, <1>26, <1>27, <1>28, <1>29, <1>30, <1>31
    DEF Next, CallStep, ReaderStep, WorkerStep, ShutdownStep

(* Without crashes, deadlines and a shutdown each call is executed exactly  *)
(* once before it returns, and none raises.                                 *)
THEOREM QuietOnce == Spec => []QuietIsExactlyOnce
<1>1. TypeOK /\ QuietInv /\ [Next]_vars => TypeOK' /\ QuietInv'
  BY TypeStep, QuietStep
<1>2. QuietInv => QuietIsExactlyOnce
  BY DEF QuietInv, Quiet, QuietIsExactlyOnce
<1> QED
  BY TypeInit, QuietInit, <1>1, <1>2, PTL DEF Spec

-----------------------------------------------------------------------------
(* As long as no table is released each handle is the number of its table,  *)
(* in every worker, every proxy, every request and both maps of handles ... *)
Unreleased == \A t \in Tables : handle[t] # NoHandle
NamesInv == Unreleased =>
    /\ \A t \in Tables : handle[t] = t
    /\ steps \in {Tables, {}}
    /\ \A h \in Handles : /\ registry[h] \in {NoHandle, h}
                          /\ remap[h] \in {NoHandle, h}
                          /\ moved[h] \in {NoHandle, h}
    /\ \A c \in Calls : req[c].hid = req[c].table /\ req[c].sent = req[c].table
    /\ \A r \in reqs : r.from \in Calls => r.hid = r.table
    /\ misled = {}

(* ... since a replay opens the tables in their order.                      *)
Opens == {r \in reqs : r.from = Replay}
Opened == {m \in resps : m.to = Replay}
OpensInv == Unreleased =>
    /\ \A t \in todo, u \in Tables : t <= u => u \in todo
    /\ \A r \in Opens : r = OpenRequest(r.table) /\ (Alive => r.table = nextHandle)
    /\ \A c \in Calls :
          /\ pc[c] \in {"ready", "replay"} => Opened = {} /\ (Alive => Opens = {})
          /\ pc[c] = "ready" /\ Alive => nextHandle = 1
          /\ pc[c] = "replay" /\ Alive => todo = {} \/ First(todo, nextHandle)
          /\ pc[c] = "replayed" => \E t \in Tables :
                /\ First(todo, t)
                /\ Opened \subseteq {Response(Replay, 0, t)}
                /\ Alive => \/ nextHandle = t /\ Opened = {}
                            \/ nextHandle = t + 1 /\ Opens = {}

OrderInv == NamesInv /\ OpensInv

LEMMA OrderInit == Init => OrderInv
  BY SessionAssumption
     DEF Init, OrderInv, NamesInv, OpensInv, Handles, Empty, NoHandle, Tables,
         NoRequest, Opens, Opened


(* No proxy that was released is bound again. *)
LEMMA UnreleasedBefore ==
  ASSUME TypeOK, [Next]_vars
  PROVE  Unreleased' => Unreleased
<1> SUFFICES ASSUME Unreleased' PROVE Unreleased
  OBVIOUS
<1> SUFFICES ASSUME handle \in [Tables -> Handles \cup {NoHandle}] PROVE Unreleased
  BY DEF TypeOK
<1>1. ASSUME NEW c \in Calls, NEW t \in Tables, Use(c, t)
      PROVE  Unreleased' => Unreleased
    BY <1>1
       DEF Use, Goto, BuildRequest, Unreleased, sessionVars, workerVars, shutVars,
           ghostVars
<1>2. ASSUME NEW c \in Calls, NEW t \in Tables, Release(c, t)
      PROVE  Unreleased' => Unreleased
    BY <1>2 DEF Release, Goto, BuildRequest, Unreleased, workerVars, shutVars, ghostVars
<1>3. ASSUME NEW c \in Calls, Check(c)
      PROVE  Unreleased' => Unreleased
    BY <1>3
       DEF Check, TransportError, EndCall, Goto, Moved, Unreleased, sessionVars,
           workerVars, shutVars, ghostVars
<1>4. ASSUME NEW c \in Calls, CloseGone(c)
      PROVE  Unreleased' => Unreleased
    BY <1>4
       DEF CloseGone, TransportError, EndCall, Goto, Unreleased, workerVars, shutVars,
           ghostVars
<1>5. ASSUME NEW c \in Calls, RegisterPending(c)
      PROVE  Unreleased' => Unreleased
    BY <1>5
       DEF RegisterPending, TransportError, EndCall, Goto, Unreleased, workerVars,
           shutVars, ghostVars
<1>6. ASSUME NEW c \in Calls, Put(c)
      PROVE  Unreleased' => Unreleased
    BY <1>6 DEF Put, Goto, Request, Unreleased, sessionVars, shutVars, ghostVars
<1>7. ASSUME NEW c \in Calls, Return(c)
      PROVE  Unreleased' => Unreleased
    BY <1>7 DEF Return, EndCall, Goto, Unreleased, workerVars, shutVars, ghostVars
<1>8. ASSUME NEW c \in Calls, Fail(c)
      PROVE  Unreleased' => Unreleased
    BY <1>8
       DEF Fail, TransportError, EndCall, Goto, Unreleased, workerVars, shutVars,
           ghostVars
<1>9. ASSUME NEW c \in Calls, Expire(c)
      PROVE  Unreleased' => Unreleased
    BY <1>9 DEF Expire, EndCall, Goto, Unreleased, workerVars, shutVars
<1>10. ASSUME NEW c \in Calls, ForceRespawn(c)
       PROVE  Unreleased' => Unreleased
    BY <1>10 DEF ForceRespawn, Goto, Unreleased, workerVars, shutVars, ghostVars
<1>11. ASSUME NEW c \in Calls, EnterRespawn(c)
       PROVE  Unreleased' => Unreleased
    BY <1>11 DEF EnterRespawn, Goto, Unreleased, workerVars, shutVars, ghostVars
<1>12. ASSUME NEW c \in Calls, ReplaceWorker(c)
       PROVE  Unreleased' => Unreleased
    BY <1>12 DEF ReplaceWorker, Goto, Unreleased, sessionVars, shutVars, ghostVars
<1>13. ASSUME NEW c \in Calls, AwaitReady(c)
       PROVE  Unreleased' => Unreleased
    BY <1>13 DEF AwaitReady, Goto, Unreleased, sessionVars, shutVars, ghostVars
<1>14. ASSUME NEW c \in Calls, NeverReady(c)
       PROVE  Unreleased' => Unreleased
    BY <1>14
       DEF NeverReady, WorkerGone, Abort, EndCall, Goto, Unreleased, shutVars, ghostVars
<1>15. ASSUME NEW c \in Calls, ReplayStep(c)
       PROVE  Unreleased' => Unreleased
    BY <1>15
       DEF ReplayStep, Goto, First, OpenRequest, Unreleased, sessionVars, shutVars,
           ghostVars
<1>16. ASSUME NEW c \in Calls, NEW t \in Tables, NEW m \in resps, ReplayAnswer(c, t, m)
       PROVE  Unreleased' => Unreleased
    BY <1>16 DEF ReplayAnswer, Goto, Unreleased, shutVars, ghostVars
<1>17. ASSUME NEW c \in Calls, ReplayBreaks(c)
       PROVE  Unreleased' => Unreleased
    BY <1>17 DEF ReplayBreaks, Abort, EndCall, Goto, Unreleased, shutVars, ghostVars
<1>18. ASSUME NEW c \in Calls, Reopen(c)
       PROVE  Unreleased' => Unreleased
    BY <1>18
       DEF Reopen, Goto, Composed, Moved, Unreleased, workerVars, shutVars, ghostVars
<1>19. ASSUME NEW c \in Calls, StartReader(c)
       PROVE  Unreleased' => Unreleased
    BY <1>19 DEF StartReader, Goto, Unreleased, workerVars, shutVars, ghostVars
<1>20. ASSUME NEW m \in resps, ReaderTakes(m)
       PROVE  Unreleased' => Unreleased
    BY <1>20 DEF ReaderTakes, Awaited, Unreleased, shutVars, ghostVars
<1>21. ASSUME ReaderLeaves
       PROVE  Unreleased' => Unreleased
    BY <1>21 DEF ReaderLeaves, Unreleased, workerVars, callVars, shutVars, ghostVars
<1>22. ASSUME ReaderEnds
       PROVE  Unreleased' => Unreleased
    BY <1>22 DEF ReaderEnds, FailAllPending, Unreleased, workerVars, shutVars, ghostVars
<1>23. ASSUME WorkerReady
       PROVE  Unreleased' => Unreleased
    BY <1>23 DEF WorkerReady, Unreleased, sessionVars, callVars, shutVars, ghostVars
<1>24. ASSUME NEW r \in reqs, Serve(r)
       PROVE  Unreleased' => Unreleased
    BY <1>24 DEF Serve, Awaited, Unreleased, sessionVars, callVars, shutVars
<1>25. ASSUME NEW r \in reqs, ServeOpen(r)
       PROVE  Unreleased' => Unreleased
    BY <1>25 DEF ServeOpen, Unreleased, sessionVars, callVars, shutVars, ghostVars
<1>26. ASSUME Crash
       PROVE  Unreleased' => Unreleased
    BY <1>26 DEF Crash, WorkerGone, Unreleased, sessionVars, callVars, shutVars
<1>27. ASSUME BeginShutdown
       PROVE  Unreleased' => Unreleased
    BY <1>27 DEF BeginShutdown, Unreleased, workerVars, callVars
<1>28. ASSUME ShutdownJoins
       PROVE  Unreleased' => Unreleased
    BY <1>28 DEF ShutdownJoins, Unreleased, sessionVars, workerVars, callVars, ghostVars
<1>29. ASSUME ShutdownKills
       PROVE  Unreleased' => Unreleased
    BY <1>29 DEF ShutdownKills, WorkerGone, Unreleased, sessionVars, callVars, ghostVars
<1>30. ASSUME ShutdownFinishes
       PROVE  Unreleased' => Unreleased
    BY <1>30 DEF ShutdownFinishes, FailAllPending, Unreleased, workerVars, ghostVars
<1>31. CASE UNCHANGED vars
  BY <1>31 DEF Unreleased, vars, sessionVars, workerVars, callVars, shutVars, ghostVars
<1> QED
  BY <1>1, <1>2, <1>3, <1>4, <1>5, <1>6, <1>7, <1>8, <1>9, <1>10, <1>11, <1>12,
     <1>13, <1>14, <1>15, <1>16, <1>17, <1>18, <1>19, <1>20, <1>21, <1>22, <1>23,
     <1>24, <1>25, <1>26, <1>27, <1>28, <1>29, <1>30, <1>31
    DEF Next, CallStep, ReaderStep, WorkerStep, ShutdownStep

LEMMA FirstUnique ==
  ASSUME NEW S \in SUBSET Tables, NEW t \in Tables, NEW u \in Tables, First(S, t), First(S, u)
  PROVE  t = u /\ t \in Nat
  BY SessionAssumption DEF First, Tables

(* Every step keeps the names of the tables. *)
LEMMA NamesStep ==
  ASSUME TypeOK, TypeOK', LockInv, OrderInv, [Next]_vars
  PROVE  NamesInv'
<1> SUFFICES ASSUME Unreleased' PROVE NamesInv'
  BY DEF NamesInv
<1>u. Unreleased
  BY UnreleasedBefore
<1>t. /\ pc \in [Calls -> Places] /\ req \in [Calls -> ProxyRequests]
      /\ handle \in [Tables -> Handles \cup {NoHandle}] /\ remap \in [Handles -> Handles \cup {NoHandle}]
      /\ moved \in [Handles -> Handles \cup {NoHandle}] /\ registry \in [Handles -> Tables \cup {NoHandle}]
      /\ reqs \subseteq Requests /\ resps \subseteq Responses /\ todo \subseteq Tables
      /\ nextHandle \in Nat /\ steps \subseteq Tables
  BY DEF TypeOK, Places
<1>1. ASSUME NEW c \in Calls, NEW t \in Tables, Use(c, t)
      PROVE  NamesInv'
    BY <1>1, <1>u, <1>t
       DEF Use, Goto, BuildRequest, OrderInv, NamesInv, NoHandle, NoRequest, Empty,
           Alive, sessionVars, workerVars, shutVars, ghostVars
<1>2. ASSUME NEW c \in Calls, NEW t \in Tables, Release(c, t)
      PROVE  NamesInv'
  <2>1. handle'[t] = NoHandle
    BY <1>2, <1>t DEF Release
  <2> QED
    BY <2>1 DEF Unreleased
<1>3. ASSUME NEW c \in Calls, Check(c)
      PROVE  NamesInv'
  <2>1. CASE req' = [req EXCEPT ![c] = NoRequest] \/ UNCHANGED req
    BY <1>3, <1>u, <1>t, <2>1, SessionAssumption
       DEF Check, NamesInv, OrderInv, NoRequest, sessionVars, workerVars, shutVars,
           ghostVars
  <2>2. CASE req' = [req EXCEPT ![c].sent = Moved(remap, req[c].hid)]
    <3>1. req[c].hid \in Handles /\ req[c].hid = req[c].table
      BY <1>u, <1>t DEF NamesInv, OrderInv, ProxyRequests
    <3>2. Moved(remap, req[c].hid) = req[c].table
      BY <1>u, <3>1 DEF NamesInv, OrderInv, Moved
    <3>3. /\ req'[c].hid = req[c].hid /\ req'[c].table = req[c].table
          /\ req'[c].sent = req[c].table
          /\ \A d \in Calls \ {c} : req'[d] = req[d]
      BY <1>t, <2>2, <3>2 DEF ProxyRequests
    <3> QED
      BY <1>3, <1>u, <3>1, <3>3
         DEF Check, NamesInv, OrderInv, sessionVars, workerVars, shutVars, ghostVars
  <2> QED
    BY <1>3, <2>1, <2>2 DEF Check, TransportError, EndCall
<1>4. ASSUME NEW c \in Calls, CloseGone(c)
      PROVE  NamesInv'
    BY <1>4, <1>u, <1>t
       DEF CloseGone, TransportError, EndCall, Goto, OrderInv, NamesInv, NoHandle,
           NoRequest, Empty, Alive, workerVars, shutVars, ghostVars
<1>5. ASSUME NEW c \in Calls, RegisterPending(c)
      PROVE  NamesInv'
    BY <1>5, <1>u, <1>t
       DEF RegisterPending, TransportError, EndCall, Goto, OrderInv, NamesInv, NoHandle,
           NoRequest, Empty, Alive, workerVars, shutVars, ghostVars
<1>6. ASSUME NEW c \in Calls, Put(c)
      PROVE  NamesInv'
    BY <1>6, <1>u, <1>t
       DEF Put, Goto, Request, OrderInv, NamesInv, NoHandle, NoRequest, Empty, Alive,
           sessionVars, shutVars, ghostVars
<1>7. ASSUME NEW c \in Calls, Return(c)
      PROVE  NamesInv'
    BY <1>7, <1>u, <1>t
       DEF Return, EndCall, Goto, OrderInv, NamesInv, NoHandle, NoRequest, Empty, Alive,
           workerVars, shutVars, ghostVars
<1>8. ASSUME NEW c \in Calls, Fail(c)
      PROVE  NamesInv'
    BY <1>8, <1>u, <1>t
       DEF Fail, TransportError, EndCall, Goto, OrderInv, NamesInv, NoHandle, NoRequest,
           Empty, Alive, workerVars, shutVars, ghostVars
<1>9. ASSUME NEW c \in Calls, Expire(c)
      PROVE  NamesInv'
    BY <1>9, <1>u, <1>t
       DEF Expire, EndCall, Goto, OrderInv, NamesInv, NoHandle, NoRequest, Empty, Alive,
           workerVars, shutVars
<1>10. ASSUME NEW c \in Calls, ForceRespawn(c)
       PROVE  NamesInv'
    BY <1>10, <1>u, <1>t
       DEF ForceRespawn, Goto, OrderInv, NamesInv, NoHandle, NoRequest, Empty, Alive,
           workerVars, shutVars, ghostVars
<1>11. ASSUME NEW c \in Calls, EnterRespawn(c)
       PROVE  NamesInv'
    BY <1>11, <1>u, <1>t
       DEF EnterRespawn, Goto, OrderInv, NamesInv, NoHandle, NoRequest, Empty, Alive,
           workerVars, shutVars, ghostVars
<1>12. ASSUME NEW c \in Calls, ReplaceWorker(c)
       PROVE  NamesInv'
    BY <1>12, <1>u, <1>t
       DEF ReplaceWorker, Goto, OrderInv, NamesInv, NoHandle, NoRequest, Empty, Alive,
           sessionVars, shutVars, ghostVars
<1>13. ASSUME NEW c \in Calls, AwaitReady(c)
       PROVE  NamesInv'
    BY <1>13, <1>u, <1>t
       DEF AwaitReady, Goto, OrderInv, NamesInv, NoHandle, NoRequest, Empty, Alive,
           sessionVars, shutVars, ghostVars
<1>14. ASSUME NEW c \in Calls, NeverReady(c)
       PROVE  NamesInv'
    BY <1>14, <1>u, <1>t
       DEF NeverReady, WorkerGone, Abort, EndCall, Goto, OrderInv, NamesInv, NoHandle,
           NoRequest, Empty, Alive, shutVars, ghostVars
<1>15. ASSUME NEW c \in Calls, ReplayStep(c)
       PROVE  NamesInv'
    BY <1>15, <1>u, <1>t, SessionAssumption
       DEF ReplayStep, Goto, First, OpenRequest, OrderInv, NamesInv, NoHandle,
           NoRequest, Empty, Alive, sessionVars, shutVars, ghostVars
<1>16. ASSUME NEW c \in Calls, NEW t \in Tables, NEW m \in resps, ReplayAnswer(c, t, m)
       PROVE  NamesInv'
  <2>1. m.hid = t
    <3>1. PICK u \in Tables : First(todo, u) /\ Opened \subseteq {Response(Replay, 0, u)}
      BY <1>16, <1>u DEF ReplayAnswer, OrderInv, OpensInv
    <3>2. m \in Opened
      BY <1>16 DEF ReplayAnswer, Opened
    <3>3. m.hid = u
      BY <3>1, <3>2 DEF Response
    <3> QED
      BY <1>16, <3>1, <3>3 DEF ReplayAnswer, First, Tables
  <2>2. handle[t] = t
    BY <1>u DEF OrderInv, NamesInv
  <2>3. handle' = [handle EXCEPT ![t] = t] /\ moved' = [moved EXCEPT ![t] = t]
    BY <1>16, <1>u, <2>1, <2>2 DEF ReplayAnswer, Unreleased
  <2> QED
    BY <1>16, <1>u, <1>t, <2>3 DEF ReplayAnswer, OrderInv, NamesInv, shutVars, ghostVars
<1>17. ASSUME NEW c \in Calls, ReplayBreaks(c)
       PROVE  NamesInv'
    BY <1>17, <1>u, <1>t
       DEF ReplayBreaks, Abort, EndCall, Goto, OrderInv, NamesInv, NoHandle, NoRequest,
           Empty, Alive, shutVars, ghostVars
<1>18. ASSUME NEW c \in Calls, Reopen(c)
       PROVE  NamesInv'
    BY <1>18, <1>u, <1>t
       DEF Reopen, Goto, Composed, Moved, OrderInv, NamesInv, NoHandle, NoRequest,
           Empty, Alive, workerVars, shutVars, ghostVars
<1>19. ASSUME NEW c \in Calls, StartReader(c)
       PROVE  NamesInv'
    BY <1>19, <1>u, <1>t
       DEF StartReader, Goto, OrderInv, NamesInv, NoHandle, NoRequest, Empty, Alive,
           workerVars, shutVars, ghostVars
<1>20. ASSUME NEW m \in resps, ReaderTakes(m)
       PROVE  NamesInv'
    BY <1>20, <1>u, <1>t
       DEF ReaderTakes, Awaited, OrderInv, NamesInv, NoHandle, NoRequest, Empty, Alive,
           shutVars, ghostVars
<1>21. ASSUME ReaderLeaves
       PROVE  NamesInv'
    BY <1>21, <1>u, <1>t
       DEF ReaderLeaves, OrderInv, NamesInv, NoHandle, NoRequest, Empty, Alive,
           workerVars, callVars, shutVars, ghostVars
<1>22. ASSUME ReaderEnds
       PROVE  NamesInv'
    BY <1>22, <1>u, <1>t
       DEF ReaderEnds, FailAllPending, OrderInv, NamesInv, NoHandle, NoRequest, Empty,
           Alive, workerVars, shutVars, ghostVars
<1>23. ASSUME WorkerReady
       PROVE  NamesInv'
    BY <1>23, <1>u, <1>t
       DEF WorkerReady, OrderInv, NamesInv, NoHandle, NoRequest, Empty, Alive,
           sessionVars, callVars, shutVars, ghostVars
<1>24. ASSUME NEW r \in reqs, Serve(r)
       PROVE  NamesInv'
  <2>1. r.hid = r.table /\ r.table \in Handles
    BY <1>24, <1>u, <1>t DEF Serve, OrderInv, NamesInv, Requests, Handles
  <2>2. registry[r.hid] \in {NoHandle, r.table}
    BY <1>u, <2>1 DEF OrderInv, NamesInv
  <2>3. misled' = misled
    BY <1>24, <2>2 DEF Serve
  <2>4. \A h \in Handles : registry'[h] \in {registry[h], NoHandle}
    BY <1>24, <1>t DEF Serve
  <2> QED
    BY <1>24, <1>u, <2>3, <2>4
       DEF Serve, OrderInv, NamesInv, sessionVars, callVars, shutVars
<1>25. ASSUME NEW r \in reqs, ServeOpen(r)
       PROVE  NamesInv'
  <2>1. r.table = nextHandle
    BY <1>25, <1>u DEF ServeOpen, OrderInv, OpensInv, Opens, Alive
  <2>2. registry' = [registry EXCEPT ![nextHandle] = nextHandle]
    BY <1>25, <2>1 DEF ServeOpen
  <2> QED
    BY <1>25, <1>u, <1>t, <2>2
       DEF ServeOpen, OrderInv, NamesInv, sessionVars, callVars, shutVars, ghostVars
<1>26. ASSUME Crash
       PROVE  NamesInv'
    BY <1>26, <1>u, <1>t
       DEF Crash, WorkerGone, OrderInv, NamesInv, NoHandle, NoRequest, Empty, Alive,
           sessionVars, callVars, shutVars
<1>27. ASSUME BeginShutdown
       PROVE  NamesInv'
    BY <1>27, <1>u, <1>t
       DEF BeginShutdown, OrderInv, NamesInv, NoHandle, NoRequest, Empty, Alive,
           workerVars, callVars
<1>28. ASSUME ShutdownJoins
       PROVE  NamesInv'
    BY <1>28, <1>u, <1>t
       DEF ShutdownJoins, OrderInv, NamesInv, NoHandle, NoRequest, Empty, Alive,
           sessionVars, workerVars, callVars, ghostVars
<1>29. ASSUME ShutdownKills
       PROVE  NamesInv'
    BY <1>29, <1>u, <1>t
       DEF ShutdownKills, WorkerGone, OrderInv, NamesInv, NoHandle, NoRequest, Empty,
           Alive, sessionVars, callVars, ghostVars
<1>30. ASSUME ShutdownFinishes
       PROVE  NamesInv'
    BY <1>30, <1>u, <1>t
       DEF ShutdownFinishes, FailAllPending, OrderInv, NamesInv, NoHandle, NoRequest,
           Empty, Alive, workerVars, ghostVars
<1>31. CASE UNCHANGED vars
  BY <1>31, <1>u, <1>t
     DEF OrderInv, NamesInv, NoHandle, NoRequest, Empty, Alive, vars, sessionVars,
         workerVars, callVars, shutVars, ghostVars
<1> QED
  BY <1>1, <1>2, <1>3, <1>4, <1>5, <1>6, <1>7, <1>8, <1>9, <1>10, <1>11, <1>12,
     <1>13, <1>14, <1>15, <1>16, <1>17, <1>18, <1>19, <1>20, <1>21, <1>22, <1>23,
     <1>24, <1>25, <1>26, <1>27, <1>28, <1>29, <1>30, <1>31
    DEF Next, CallStep, ReaderStep, WorkerStep, ShutdownStep
(* Every step keeps the order of the replay. *)
LEMMA OpensStep ==
  ASSUME TypeOK, TypeOK', LockInv, OrderInv, [Next]_vars
  PROVE  OpensInv'
<1> SUFFICES ASSUME Unreleased' PROVE OpensInv'
  BY DEF OpensInv
<1>u. Unreleased
  BY UnreleasedBefore
<1>t. /\ pc \in [Calls -> Places] /\ req \in [Calls -> ProxyRequests]
      /\ handle \in [Tables -> Handles \cup {NoHandle}] /\ remap \in [Handles -> Handles \cup {NoHandle}]
      /\ moved \in [Handles -> Handles \cup {NoHandle}] /\ registry \in [Handles -> Tables \cup {NoHandle}]
      /\ reqs \subseteq Requests /\ resps \subseteq Responses /\ todo \subseteq Tables
      /\ nextHandle \in Nat /\ steps \subseteq Tables
  BY DEF TypeOK, Places
<1>1. ASSUME NEW c \in Calls, NEW t \in Tables, Use(c, t)
      PROVE  OpensInv'
    BY <1>1, <1>u, <1>t
       DEF Use, Goto, BuildRequest, OrderInv, OpensInv, Opens, Opened, Alive,
           Respawning, Replaying, Outcomes, sessionVars, workerVars, shutVars, ghostVars
<1>2. ASSUME NEW c \in Calls, NEW t \in Tables, Release(c, t)
      PROVE  OpensInv'
  <2>1. handle'[t] = NoHandle
    BY <1>2, <1>t DEF Release
  <2> QED
    BY <2>1 DEF Unreleased
<1>3. ASSUME NEW c \in Calls, Check(c)
      PROVE  OpensInv'
    BY <1>3, <1>u, <1>t
       DEF Check, TransportError, EndCall, Goto, Moved, OrderInv, OpensInv, Opens,
           Opened, Alive, Respawning, Replaying, Outcomes, sessionVars, workerVars,
           shutVars, ghostVars
<1>4. ASSUME NEW c \in Calls, CloseGone(c)
      PROVE  OpensInv'
    BY <1>4, <1>u, <1>t
       DEF CloseGone, TransportError, EndCall, Goto, OrderInv, OpensInv, Opens, Opened,
           Alive, Respawning, Replaying, Outcomes, workerVars, shutVars, ghostVars
<1>5. ASSUME NEW c \in Calls, RegisterPending(c)
      PROVE  OpensInv'
    BY <1>5, <1>u, <1>t
       DEF RegisterPending, TransportError, EndCall, Goto, OrderInv, OpensInv, Opens,
           Opened, Alive, Respawning, Replaying, Outcomes, workerVars, shutVars,
           ghostVars
<1>6. ASSUME NEW c \in Calls, Put(c)
      PROVE  OpensInv'
    BY <1>6, <1>u, <1>t, SessionAssumption
       DEF Put, Goto, Request, OrderInv, OpensInv, Opens, Opened, Alive, Respawning,
           Replaying, Outcomes, sessionVars, shutVars, ghostVars
<1>7. ASSUME NEW c \in Calls, Return(c)
      PROVE  OpensInv'
    BY <1>7, <1>u, <1>t
       DEF Return, EndCall, Goto, OrderInv, OpensInv, Opens, Opened, Alive, Respawning,
           Replaying, Outcomes, workerVars, shutVars, ghostVars
<1>8. ASSUME NEW c \in Calls, Fail(c)
      PROVE  OpensInv'
    BY <1>8, <1>u, <1>t
       DEF Fail, TransportError, EndCall, Goto, OrderInv, OpensInv, Opens, Opened,
           Alive, Respawning, Replaying, Outcomes, workerVars, shutVars, ghostVars
<1>9. ASSUME NEW c \in Calls, Expire(c)
      PROVE  OpensInv'
    BY <1>9, <1>u, <1>t
       DEF Expire, EndCall, Goto, OrderInv, OpensInv, Opens, Opened, Alive, Respawning,
           Replaying, Outcomes, workerVars, shutVars
<1>10. ASSUME NEW c \in Calls, ForceRespawn(c)
       PROVE  OpensInv'
    BY <1>10, <1>u, <1>t
       DEF ForceRespawn, Goto, OrderInv, OpensInv, Opens, Opened, Alive, Respawning,
           Replaying, Outcomes, workerVars, shutVars, ghostVars
<1>11. ASSUME NEW c \in Calls, EnterRespawn(c)
       PROVE  OpensInv'
    BY <1>11, <1>u, <1>t
       DEF EnterRespawn, Goto, OrderInv, OpensInv, Opens, Opened, Alive, Respawning,
           Replaying, Outcomes, workerVars, shutVars, ghostVars
<1>12. ASSUME NEW c \in Calls, ReplaceWorker(c)
       PROVE  OpensInv'
  <2>1. \A d \in Calls \ {c} : pc[d] \notin Replaying
    BY <1>12 DEF ReplaceWorker, LockInv, Respawning, Replaying
  <2>2. Opens' = {} /\ Opened' = {} /\ nextHandle' = 1 /\ todo' = todo
        /\ pc' = [pc EXCEPT ![c] = "ready"]
    BY <1>12 DEF ReplaceWorker, Goto, Opens, Opened, sessionVars, shutVars, ghostVars
  <2> QED
    BY <1>u, <1>t, <2>1, <2>2 DEF OrderInv, OpensInv, Replaying
<1>13. ASSUME NEW c \in Calls, AwaitReady(c)
       PROVE  OpensInv'
  <2>1. \A d \in Calls \ {c} : pc[d] \notin Replaying
    BY <1>13 DEF AwaitReady, LockInv, Respawning, Replaying
  <2>2. /\ Opened = {} /\ (Alive => Opens = {} /\ nextHandle = 1)
        /\ pc' = [pc EXCEPT ![c] = "replay"] /\ todo' = steps
        /\ UNCHANGED <<worker, reqs, nextHandle>> /\ resps' \subseteq resps
    BY <1>13, <1>u DEF AwaitReady, Goto, OrderInv, OpensInv
  <2>3. Opened' = {} /\ Opens' = Opens /\ Alive' = Alive
    BY <2>2 DEF Opened, Opens, Alive
  <2>4. todo' = {} \/ (todo' = Tables /\ First(todo', 1))
    BY <1>u, <2>2, SessionAssumption DEF OrderInv, NamesInv, First, Tables
  <2>5. \A t \in todo', u \in Tables : t <= u => u \in todo'
    BY <2>4
  <2> QED
    BY <1>u, <1>t, <2>1, <2>2, <2>3, <2>4, <2>5 DEF OrderInv, OpensInv, Replaying
<1>14. ASSUME NEW c \in Calls, NeverReady(c)
       PROVE  OpensInv'
  <2>1. \A d \in Calls \ {c} : pc[d] \notin Replaying
    BY <1>14 DEF NeverReady, LockInv, Respawning, Replaying
  <2>2. Opens' = {} /\ ~Alive' /\ todo' = {} /\ pc' = [pc EXCEPT ![c] = "raised"]
    BY <1>14 DEF NeverReady, WorkerGone, Abort, EndCall, Goto, Opens, Alive
  <2> QED
    BY <1>u, <1>t, <2>1, <2>2 DEF OrderInv, OpensInv, Replaying
<1>15. ASSUME NEW c \in Calls, ReplayStep(c)
       PROVE  OpensInv'
  <2>1. \A d \in Calls \ {c} : pc[d] \notin Replaying
    BY <1>15 DEF ReplayStep, LockInv, Respawning, Replaying
  <2>2. PICK t \in Tables : First(todo, t) /\ reqs' = reqs \cup {OpenRequest(t)}
    BY <1>15 DEF ReplayStep
  <2>3. /\ Opened = {} /\ (Alive => Opens = {} /\ nextHandle = t)
    BY <1>15, <1>u, <1>t, <2>2, SessionAssumption
       DEF ReplayStep, OrderInv, OpensInv, First, Tables
  <2>4. /\ pc' = [pc EXCEPT ![c] = "replayed"] /\ Opened' = Opened /\ Alive' = Alive
        /\ UNCHANGED <<todo, nextHandle>>
    BY <1>15 DEF ReplayStep, Goto, Opened, Alive
  <2>5. Opens' \subseteq Opens \cup {OpenRequest(t)} /\ OpenRequest(t).table = t
    BY <2>2 DEF Opens, OpenRequest
  <2>6. \A r \in Opens' : r = OpenRequest(r.table) /\ (Alive' => r.table = nextHandle')
    BY <1>u, <2>3, <2>4, <2>5 DEF OrderInv, OpensInv
  <2>7. First(todo', t) /\ (Alive' => nextHandle' = t)
    BY <2>2, <2>3, <2>4 DEF First
  <2> QED
    BY <1>u, <1>t, <2>1, <2>3, <2>4, <2>6, <2>7 DEF OrderInv, OpensInv, Replaying
<1>16. ASSUME NEW c \in Calls, NEW t \in Tables, NEW m \in resps, ReplayAnswer(c, t, m)
       PROVE  OpensInv'
  <2>1. \A d \in Calls \ {c} : pc[d] \notin Replaying
    BY <1>16 DEF ReplayAnswer, LockInv, Respawning, Replaying
  <2>2. PICK u \in Tables :
          /\ First(todo, u)
          /\ Opened \subseteq {Response(Replay, 0, u)}
          /\ Alive => \/ nextHandle = u /\ Opened = {}
                      \/ nextHandle = u + 1 /\ Opens = {}
    BY <1>16, <1>u DEF ReplayAnswer, OrderInv, OpensInv
  <2>3. /\ u = t /\ t \in Nat
        /\ m \in Opened
    <3>1. First(todo, t) /\ m \in Opened
      BY <1>16 DEF ReplayAnswer, Opened
    <3>2. First(todo, u)
      BY <2>2
    <3> QED
      BY <1>t, <3>1, <3>2, FirstUnique
  <2>4. /\ pc' = [pc EXCEPT ![c] = "replay"] /\ todo' = todo \ {t}
        /\ UNCHANGED <<worker, reqs, nextHandle>> /\ resps' = resps \ {m}
    BY <1>16 DEF ReplayAnswer, Goto
  <2>5. Opened' = {} /\ Opens' = Opens /\ Alive' = Alive
    <3>1. \A x \in Opened : x = m
      BY <2>2, <2>3
    <3> QED
      BY <2>4, <3>1 DEF Opened, Opens, Alive
  <2>6. Alive => nextHandle = t + 1 /\ Opens = {}
    <3>1. Opened # {}
      BY <2>3
    <3> QED
      BY <2>2, <2>3, <3>1
  <2>7. \A v \in todo', w \in Tables : v <= w => w \in todo'
    BY <1>u, <1>t, <2>2, <2>3, <2>4, SessionAssumption
       DEF OrderInv, OpensInv, First, Tables
  <2>8. todo' = {} \/ First(todo', t + 1)
    <3>1. \A v \in todo' : v \in Nat /\ t + 1 <= v /\ v <= NumTables
      BY <1>t, <2>2, <2>3, <2>4, SessionAssumption DEF First, Tables
    <3>2. ASSUME todo' # {} PROVE t + 1 \in todo'
      <4>1. PICK v \in todo' : TRUE
        BY <3>2
      <4>2. t + 1 \in Tables /\ t + 1 # t /\ t <= t + 1
        BY <3>1, <4>1, SessionAssumption DEF Tables
      <4>3. t + 1 \in todo
        BY <1>u, <2>2, <2>3, <4>2 DEF OrderInv, OpensInv, First
      <4> QED
        BY <2>4, <4>2, <4>3
    <3> QED
      BY <3>1, <3>2 DEF First
  <2> QED
    BY <1>u, <1>t, <2>1, <2>4, <2>5, <2>6, <2>7, <2>8 DEF OrderInv, OpensInv, Replaying
<1>17. ASSUME NEW c \in Calls, ReplayBreaks(c)
       PROVE  OpensInv'
  <2>1. \A d \in Calls \ {c} : pc[d] \notin Replaying
    BY <1>17 DEF ReplayBreaks, LockInv, Respawning, Replaying
  <2>2. /\ Opens' = Opens /\ Alive' = Alive /\ todo' = {}
        /\ pc' = [pc EXCEPT ![c] = "raised"] /\ nextHandle' = nextHandle
    BY <1>17 DEF ReplayBreaks, Abort, EndCall, Goto, Opens, Alive
  <2> QED
    BY <1>u, <1>t, <2>1, <2>2 DEF OrderInv, OpensInv, Replaying
<1>18. ASSUME NEW c \in Calls, Reopen(c)
       PROVE  OpensInv'
    BY <1>18, <1>u, <1>t
       DEF Reopen, Goto, Composed, Moved, OrderInv, OpensInv, Opens, Opened, Alive,
           Respawning, Replaying, Outcomes, workerVars, shutVars, ghostVars
<1>19. ASSUME NEW c \in Calls, StartReader(c)
       PROVE  OpensInv'
    BY <1>19, <1>u, <1>t
       DEF StartReader, Goto, OrderInv, OpensInv, Opens, Opened, Alive, Respawning,
           Replaying, Outcomes, workerVars, shutVars, ghostVars
<1>20. ASSUME NEW m \in resps, ReaderTakes(m)
       PROVE  OpensInv'
    BY <1>20, <1>u, <1>t
       DEF ReaderTakes, Awaited, OrderInv, OpensInv, Opens, Opened, Alive, Respawning,
           Replaying, Outcomes, shutVars, ghostVars
<1>21. ASSUME ReaderLeaves
       PROVE  OpensInv'
    BY <1>21, <1>u, <1>t
       DEF ReaderLeaves, OrderInv, OpensInv, Opens, Opened, Alive, Respawning,
           Replaying, Outcomes, workerVars, callVars, shutVars, ghostVars
<1>22. ASSUME ReaderEnds
       PROVE  OpensInv'
    BY <1>22, <1>u, <1>t
       DEF ReaderEnds, FailAllPending, OrderInv, OpensInv, Opens, Opened, Alive,
           Respawning, Replaying, Outcomes, workerVars, shutVars, ghostVars
<1>23. ASSUME WorkerReady
       PROVE  OpensInv'
  <2>1. Ready.to = NoCall
    BY DEF Ready, Response
  <2>2. Opened' = Opened /\ Alive
    BY <1>23, <2>1, SessionAssumption DEF WorkerReady, Opened, Alive
  <2>3. Opens' = Opens /\ UNCHANGED <<todo, nextHandle, pc>>
    BY <1>23 DEF WorkerReady, Opens, sessionVars, callVars, shutVars, ghostVars
  <2> QED
    BY <1>u, <2>2, <2>3 DEF OrderInv, OpensInv, First
<1>24. ASSUME NEW r \in reqs, Serve(r)
       PROVE  OpensInv'
  <2>1. Response(r.from, r.try, NoHandle).to = r.from
    BY DEF Response
  <2>2. Opened' = Opened /\ Opens' = Opens /\ Alive' = Alive
    BY <1>24, <2>1, SessionAssumption
       DEF Serve, Opened, Opens, Alive, sessionVars, callVars, shutVars
  <2>3. UNCHANGED <<todo, nextHandle, pc>>
    BY <1>24 DEF Serve, sessionVars, callVars, shutVars
  <2> QED
    BY <1>u, <2>2, <2>3 DEF OrderInv, OpensInv, First
<1>25. ASSUME NEW r \in reqs, ServeOpen(r)
       PROVE  OpensInv'
    BY <1>25, <1>u, <1>t
       DEF ServeOpen, OrderInv, OpensInv, Opens, Opened, Alive, Respawning, Replaying,
           Outcomes, sessionVars, callVars, shutVars, ghostVars
<1>26. ASSUME Crash
       PROVE  OpensInv'
    BY <1>26, <1>u, <1>t
       DEF Crash, WorkerGone, OrderInv, OpensInv, Opens, Opened, Alive, Respawning,
           Replaying, Outcomes, sessionVars, callVars, shutVars
<1>27. ASSUME BeginShutdown
       PROVE  OpensInv'
    BY <1>27, <1>u, <1>t
       DEF BeginShutdown, OrderInv, OpensInv, Opens, Opened, Alive, Respawning,
           Replaying, Outcomes, workerVars, callVars
<1>28. ASSUME ShutdownJoins
       PROVE  OpensInv'
    BY <1>28, <1>u, <1>t
       DEF ShutdownJoins, OrderInv, OpensInv, Opens, Opened, Alive, Respawning,
           Replaying, Outcomes, sessionVars, workerVars, callVars, ghostVars
<1>29. ASSUME ShutdownKills
       PROVE  OpensInv'
    BY <1>29, <1>u, <1>t
       DEF ShutdownKills, WorkerGone, OrderInv, OpensInv, Opens, Opened, Alive,
           Respawning, Replaying, Outcomes, sessionVars, callVars, ghostVars
<1>30. ASSUME ShutdownFinishes
       PROVE  OpensInv'
    BY <1>30, <1>u, <1>t
       DEF ShutdownFinishes, FailAllPending, OrderInv, OpensInv, Opens, Opened, Alive,
           Respawning, Replaying, Outcomes, workerVars, ghostVars
<1>31. CASE UNCHANGED vars
  BY <1>31, <1>u, <1>t
     DEF OrderInv, OpensInv, Opens, Opened, Alive, Respawning, Replaying, Outcomes,
         vars, sessionVars, workerVars, callVars, shutVars, ghostVars
<1> QED
  BY <1>1, <1>2, <1>3, <1>4, <1>5, <1>6, <1>7, <1>8, <1>9, <1>10, <1>11, <1>12,
     <1>13, <1>14, <1>15, <1>16, <1>17, <1>18, <1>19, <1>20, <1>21, <1>22, <1>23,
     <1>24, <1>25, <1>26, <1>27, <1>28, <1>29, <1>30, <1>31
    DEF Next, CallStep, ReaderStep, WorkerStep, ShutdownStep

(* As long as no table is released, a request works on the table of its     *)
(* proxy, whatever workers came and went since the proxy built it.          *)
THEOREM NotMisled == Spec => []UnreleasedIsNotMisled
<1>1. TypeOK /\ LockInv /\ OrderInv /\ [Next]_vars => TypeOK' /\ LockInv' /\ OrderInv'
  BY TypeStep, LockStep, NamesStep, OpensStep DEF OrderInv
<1>2. OrderInv => UnreleasedIsNotMisled
  BY DEF OrderInv, NamesInv, UnreleasedIsNotMisled, Unreleased
<1> QED
  BY TypeInit, LockInit, OrderInit, <1>1, <1>2, PTL DEF Spec

=============================================================================
