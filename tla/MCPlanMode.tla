----------------------------- MODULE MCPlanMode -----------------------------
(* A small instance of PlanMode for TLC. *)
EXTENDS PlanMode

CONSTANTS w1, w2, watcher

AllEvents == {"created", "started", "completed", "failed"}

\* A chain, a chain against the order, a join, and a circle.
FourOrders == {
    [s \in Steps |-> Steps \cap {s - 1}],
    [s \in Steps |-> Steps \cap {s + 1}],
    [s \in Steps |-> IF s = 2 THEN Steps \ {2} ELSE {}],
    [s \in Steps |-> Steps \ {s}]}
=============================================================================
