---------------------------- MODULE GoalTables ----------------------------
(* The goals and goal_dependencies tables of core/goal_planner.py. *)

CONSTANT Goals  \* goal ids

VARIABLES
    status,   \* the goals table: "absent" for an id without a row
    deps      \* the rows <<goal_id, depends_on_id>> of goal_dependencies

Statuses == {"pending", "active", "completed", "failed", "blocked"}

DependenciesOf(g) == {d \in Goals : <<g, d>> \in deps}

CycleFree(E) ==
    \A S \in SUBSET Goals :
        S # {} => \E g \in S : \A d \in S : <<g, d>> \notin E
=============================================================================
