--------------------------- MODULE EngineLifecycle --------------------------
(***************************************************************************)
(* What the engine cache promises its users, without locks, proxies,       *)
(* finalizers or registries: an engine that a key serves is open; it is    *)
(* served under one key, once; and it is closed only when it is out of the *)
(* cache and nobody uses it, or when its users were told to do without it. *)
(***************************************************************************)
CONSTANTS Keys, Vals, Callers, KeyOf, NoVal

VARIABLES
  slot,    \* slot[k]: the engine that lookups of k are given, or NoVal
  life,    \* life[v]: how far the life of the engine has come
  users,   \* users[v]: the callers that hold v
  doomed   \* engines to be closed under their users

vars == <<slot, life, users, doomed>>

Init ==
  /\ slot = [k \in Keys |-> NoVal]
  /\ life = [v \in Vals |-> "unborn"]
  /\ users = [v \in Vals |-> {}]
  /\ doomed = {}

Served(v) == slot[KeyOf[v]] = v

Grow(v, from, to) ==
  /\ life[v] = from
  /\ life' = [life EXCEPT ![v] = to]

(* A factory builds an engine that nobody has seen yet.                    *)
Open(v) == Grow(v, "unborn", "fresh") /\ UNCHANGED <<slot, users, doomed>>

(* The fresh engine takes the free slot of its key; others may make room.  *)
Publish(c, v) ==
  /\ slot[KeyOf[v]] = NoVal
  /\ Grow(v, "fresh", "shared")
  /\ \E E \in SUBSET Keys :
       slot' = [k \in Keys |-> IF k = KeyOf[v] THEN v
                               ELSE IF k \in E THEN NoVal ELSE slot[k]]
  /\ users' = [users EXCEPT ![v] = @ \cup {c}]
  /\ UNCHANGED doomed

Borrow(c, v) ==
  /\ Served(v) /\ life[v] = "shared"
  /\ users' = [users EXCEPT ![v] = @ \cup {c}]
  /\ UNCHANGED <<slot, life, doomed>>

Return(c, v) ==
  /\ users' = [users EXCEPT ![v] = @ \ {c}]
  /\ UNCHANGED <<slot, life, doomed>>

(* Engines leave the cache; their users keep them.                         *)
Retire ==
  /\ \E E \in SUBSET Keys :
       slot' = [k \in Keys |-> IF k \in E THEN NoVal ELSE slot[k]]
  /\ UNCHANGED <<life, users, doomed>>

(* A deliberate teardown takes back an engine that has left the cache.     *)
Doom(v) ==
  /\ ~Served(v) /\ life[v] = "shared"
  /\ doomed' = doomed \cup {v}
  /\ UNCHANGED <<slot, life, users>>

(* A fresh engine is surplus; a shared one is done with.                   *)
BeginClose(v) ==
  /\ \/ Grow(v, "fresh", "closing")
     \/ Grow(v, "shared", "closing") /\ ~Served(v) /\ (users[v] = {} \/ v \in doomed)
  /\ UNCHANGED <<slot, users, doomed>>

EndClose(v) == Grow(v, "closing", "closed") /\ UNCHANGED <<slot, users, doomed>>

Next ==
  \/ \E v \in Vals : Open(v) \/ Doom(v) \/ BeginClose(v) \/ EndClose(v)
  \/ \E c \in Callers, v \in Vals : Publish(c, v) \/ Borrow(c, v) \/ Return(c, v)
  \/ Retire

Spec == Init /\ [][Next]_vars
=============================================================================
