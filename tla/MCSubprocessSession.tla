------------------------ MODULE MCSubprocessSession ------------------------
(***************************************************************************)
(* Small instances of SubprocessSession.                                   *)
(***************************************************************************)
EXTENDS SubprocessSession, TLC

CONSTANTS c1, c2

(* Each call has a table of its own. *)
OwnTable == [c \in Calls |-> IF c = c1 THEN {1} ELSE {2}]
=============================================================================
