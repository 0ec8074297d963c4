---------------------------- MODULE RemoteCalls ----------------------------
(***************************************************************************)
(* What a session with retries promises of a call: it takes effect at most *)
(* once per attempt, at least once before it returns, and maybe after it   *)
(* has raised; a call that ended has ended.                                *)
(***************************************************************************)
EXTENDS Naturals

CONSTANTS Calls, Attempts

VARIABLES
    status,     \* "idle", "open", "returned", "raised"
    served      \* how often the call has taken effect

vars == <<status, served>>

Init ==
    /\ status = [c \in Calls |-> "idle"]
    /\ served = [c \in Calls |-> 0]

Begin(c) ==
    /\ status[c] = "idle"
    /\ status' = [status EXCEPT ![c] = "open"]
    /\ UNCHANGED served

TakeEffect(c) ==
    /\ status[c] # "idle"
    /\ served[c] < Attempts
    /\ served' = [served EXCEPT ![c] = @ + 1]
    /\ UNCHANGED status

Return(c) ==
    /\ status[c] = "open"
    /\ served[c] > 0
    /\ status' = [status EXCEPT ![c] = "returned"]
    /\ UNCHANGED served

Raise(c) ==
    /\ status[c] = "open"
    /\ status' = [status EXCEPT ![c] = "raised"]
    /\ UNCHANGED served

Next == \E c \in Calls : Begin(c) \/ TakeEffect(c) \/ Return(c) \/ Raise(c)

Spec == Init /\ [][Next]_vars
=============================================================================
