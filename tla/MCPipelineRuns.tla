--------------------------- MODULE MCPipelineRuns ---------------------------
(***************************************************************************)
(* Small instances of PipelineRuns.                                        *)
(***************************************************************************)
EXTENDS PipelineRuns, TLC

CONSTANTS c1, c2, d1, d2, i1, i2

Blocking(p, sets) == [pipeline |-> p, background |-> FALSE, sets |-> sets]
Background(p, sets) == [pipeline |-> p, background |-> TRUE, sets |-> sets]

(* d1 has the items; d2 is there for the order of the locks. *)
MCItemsOf == (d1 :> {i1, i2}) @@ (d2 :> {})

(* Two cognify runs of one dataset; background calls that cross, and calls   *)
(* that do not; custom runs, which answer from the status of each other.     *)
CognifyTwice == (c1 :> Blocking("cognify", <<d1>>)) @@ (c2 :> Blocking("cognify", <<d1>>))

MCPlans == {
    CognifyTwice,
    (c1 :> Background("cognify", <<d2, d1>>)) @@ (c2 :> Blocking("custom", <<d2>>)),
    (c1 :> Background("custom", <<d2, d1>>)) @@ (c2 :> Background("custom", <<d1, d2>>)),
    (c1 :> Blocking("custom", <<d2, d1>>)) @@ (c2 :> Background("custom", <<d2, d1>>))}

OnePlan == {CognifyTwice}
=============================================================================
