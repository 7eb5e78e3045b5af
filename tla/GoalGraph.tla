----------------------------- MODULE GoalGraph -----------------------------
(***************************************************************************)
(* Goals and their dependencies: GoalPlanner of core/goal_planner.py over  *)
(* the goals and goal_dependencies tables of a database file.              *)
(*                                                                         *)
(* The planner has no lock of its own.  Each of its methods opens one or   *)
(* more connections; a SELECT sees the last committed state, and the first *)
(* UPDATE, INSERT or DELETE of a connection takes SQLite's write lock until *)
(* its commit.  So a statement is one step, and threads interleave between *)
(* a read and the write that was decided on it.                            *)
(*                                                                         *)
(* The methods open connections with foreign keys off (only the connection *)
(* of initialize() sets the pragma): rows of goal_dependencies may name    *)
(* goals that were never created or are deleted.                           *)
(*                                                                         *)
(* A definition whose name starts with Slip is a mistake the code could    *)
(* have made in the definition after it.                                   *)
(***************************************************************************)
EXTENDS Naturals, GoalTables

CONSTANTS
    Callers,  \* threads that call the planner
    Adders,   \* the callers that also add dependencies
    None

ASSUME CallersAssumption == Adders \subseteq Callers
ASSUME NoneAssumption == None \notin Goals \cup Callers

VARIABLES
    writer,   \* the caller whose transaction holds the write lock
    draft,    \* the goals table as that transaction sees it
    pc,       \* where each caller is
    arg,      \* the goal_id a caller was called with
    target,   \* the other goal a caller is about to write
    visited,  \* _has_circular_dependency: goals visited
    stack,    \* ... and goals to visit; the order of pops is not fixed here
    todo,     \* dependents a propagate_* call has still to look at
    alone     \* history: callers during whose call no other caller has
              \* changed the tables

vars == <<status, deps, writer, draft, pc, arg, target, visited, stack, todo, alone>>

NoDraft == [g \in Goals |-> "absent"]

\* get_dependents() joins goals: a dependent that has no row is not returned.
DependentsOf(g) == {d \in Goals : <<d, g>> \in deps /\ status[d] # "absent"}

SlipMet(st, g) ==
    \A d \in DependenciesOf(g) : st[d] = "completed"

\* No dependency of g has a row with another status than "completed".  The
\* joins of propagate_completion() and of get_ready_goals() both ignore a
\* dependency without a row.
Met(st, g) ==
    \A d \in DependenciesOf(g) : st[d] \in {"completed", "absent"}

Ready == {g \in Goals : status[g] = "pending" /\ Met(status, g)}

\* What caller t reads in its own transaction.
View(t) == IF writer = t THEN draft ELSE status

Init ==
    /\ status = NoDraft
    /\ deps = {}
    /\ writer = None
    /\ draft = NoDraft
    /\ pc = [t \in Callers |-> "idle"]
    /\ arg = [t \in Callers |-> None]
    /\ target = [t \in Callers |-> None]
    /\ visited = [t \in Callers |-> {}]
    /\ stack = [t \in Callers |-> {}]
    /\ todo = [t \in Callers |-> {}]
    /\ alone = {}

\* Caller t returns.
Return(t) ==
    /\ pc' = [pc EXCEPT ![t] = "idle"]
    /\ arg' = [arg EXCEPT ![t] = None]
    /\ target' = [target EXCEPT ![t] = None]
    /\ visited' = [visited EXCEPT ![t] = {}]
    /\ stack' = [stack EXCEPT ![t] = {}]
    /\ todo' = [todo EXCEPT ![t] = {}]

-----------------------------------------------------------------------------
(* Methods that write with one statement. *)

CreateGoal(t) ==
    /\ pc[t] = "idle" /\ writer = None
    /\ \E g \in Goals :
        /\ status[g] = "absent"
        /\ status' = [status EXCEPT ![g] = "pending"]
    /\ UNCHANGED <<deps, writer, draft, pc, arg, target, visited, stack, todo>>

\* update_goal() with any status, from any status.  replan_goal() ends with
\* such an update to "active".
UpdateGoal(t) ==
    /\ pc[t] = "idle" /\ writer = None
    /\ \E g \in Goals, s \in Statuses :
        /\ status[g] # "absent"
        /\ status' = [status EXCEPT ![g] = s]
    /\ UNCHANGED <<deps, writer, draft, pc, arg, target, visited, stack, todo>>

\* delete_goal() leaves the dependency rows of the goal where they are.
DeleteGoal(t) ==
    /\ pc[t] = "idle" /\ writer = None
    /\ \E g \in Goals :
        /\ status[g] # "absent"
        /\ status' = [status EXCEPT ![g] = "absent"]
    /\ UNCHANGED <<deps, writer, draft, pc, arg, target, visited, stack, todo>>

RemoveDependency(t) ==
    /\ pc[t] = "idle" /\ writer = None
    /\ \E e \in deps : deps' = deps \ {e}
    /\ UNCHANGED <<status, writer, draft, pc, arg, target, visited, stack, todo>>

-----------------------------------------------------------------------------
(* add_dependency(): a depth-first search, then an insert. *)

AddDependency(t) ==
    /\ pc[t] = "idle"
    /\ \E g, d \in Goals :
        /\ arg' = [arg EXCEPT ![t] = g]
        /\ target' = [target EXCEPT ![t] = d]
        /\ stack' = [stack EXCEPT ![t] = {d}]
    /\ pc' = [pc EXCEPT ![t] = "search"]
    /\ UNCHANGED <<status, deps, writer, draft, visited, todo>>

SlipVisitOnce(t) ==
    /\ pc[t] = "search"
    /\ \E c \in stack[t] :
        /\ c # arg[t]
        /\ visited' = [visited EXCEPT ![t] = @ \cup {c}]
        /\ stack' = [stack EXCEPT ![t] = {}]
    /\ UNCHANGED <<status, deps, writer, draft, pc, arg, target, todo>>

\* One round of the search: pop a goal, mark it, push what it depends on.
Visit(t) ==
    /\ pc[t] = "search"
    /\ \E c \in stack[t] :
        /\ c # arg[t]
        /\ visited' = [visited EXCEPT ![t] = @ \cup {c}]
        /\ stack' = [stack EXCEPT ![t] =
                      (@ \cup DependenciesOf(c)) \ (visited[t] \cup {c})]
    /\ UNCHANGED <<status, deps, writer, draft, pc, arg, target, todo>>

\* The search pops the goal itself: add_dependency() returns False.
RefuseDependency(t) ==
    /\ pc[t] = "search"
    /\ arg[t] \in stack[t]
    /\ Return(t)
    /\ UNCHANGED <<status, deps, writer, draft>>

\* The search is over without meeting the goal: INSERT OR IGNORE.
InsertDependency(t) ==
    /\ pc[t] = "search" /\ stack[t] = {}
    /\ writer = None
    /\ deps' = deps \cup {<<arg[t], target[t]>>}
    /\ Return(t)
    /\ UNCHANGED <<status, writer, draft>>

-----------------------------------------------------------------------------
(* propagate_failure(): one read, then all updates in one transaction. *)

FailureSnapshot(t) ==
    /\ pc[t] = "idle"
    /\ \E g \in Goals :
        /\ arg' = [arg EXCEPT ![t] = g]
        /\ todo' = [todo EXCEPT ![t] =
                     {d \in DependentsOf(g) : status[d] \notin {"failed", "blocked"}}]
    /\ pc' = [pc EXCEPT ![t] = "block"]
    /\ UNCHANGED <<status, deps, writer, draft, target, visited, stack>>

BlockDependents(t) ==
    /\ pc[t] = "block" /\ writer = None
    /\ status' = [g \in Goals |->
                   IF g \in todo[t] /\ status[g] # "absent" THEN "blocked" ELSE status[g]]
    /\ Return(t)
    /\ UNCHANGED <<deps, writer, draft>>

-----------------------------------------------------------------------------
(* propagate_completion(): one read, then for each dependent a SELECT and,  *)
(* perhaps, an UPDATE in a second transaction.                              *)

SlipSnapshotPending(t) ==
    /\ pc[t] = "idle"
    /\ \E g \in Goals :
        /\ arg' = [arg EXCEPT ![t] = g]
        /\ todo' = [todo EXCEPT ![t] = {d \in DependentsOf(g) : status[d] = "pending"}]
    /\ pc' = [pc EXCEPT ![t] = "unblock"]
    /\ UNCHANGED <<status, deps, writer, draft, target, visited, stack>>

\* A dependent that was neither blocked nor pending when get_dependents() read
\* it is passed over whatever the SELECT says.
CompletionSnapshot(t) ==
    /\ pc[t] = "idle"
    /\ \E g \in Goals :
        /\ arg' = [arg EXCEPT ![t] = g]
        /\ todo' = [todo EXCEPT ![t] =
                     {d \in DependentsOf(g) : status[d] \in {"blocked", "pending"}}]
    /\ pc' = [pc EXCEPT ![t] = "unblock"]
    /\ UNCHANGED <<status, deps, writer, draft, target, visited, stack>>

SlipCheckOne(t) ==
    /\ pc[t] = "unblock"
    /\ \E d \in todo[t] :
        /\ todo' = [todo EXCEPT ![t] = @ \ {d}]
        /\ IF View(t)[arg[t]] = "completed"
           THEN /\ target' = [target EXCEPT ![t] = d]
                /\ pc' = [pc EXCEPT ![t] = "update"]
           ELSE UNCHANGED <<target, pc>>
    /\ UNCHANGED <<status, deps, writer, draft, arg, visited, stack>>

\* SELECT COUNT(*) as unmet.
CheckDependent(t) ==
    /\ pc[t] = "unblock"
    /\ \E d \in todo[t] :
        /\ todo' = [todo EXCEPT ![t] = @ \ {d}]
        /\ IF Met(View(t), d)
           THEN /\ target' = [target EXCEPT ![t] = d]
                /\ pc' = [pc EXCEPT ![t] = "update"]
           ELSE UNCHANGED <<target, pc>>
    /\ UNCHANGED <<status, deps, writer, draft, arg, visited, stack>>

\* UPDATE ... SET status = 'pending', which takes the write lock.
UpdateDependent(t) ==
    /\ pc[t] = "update"
    /\ writer \in {None, t}
    /\ writer' = t
    /\ draft' = [g \in Goals |->
                  IF g = target[t] /\ View(t)[g] # "absent" THEN "pending" ELSE View(t)[g]]
    /\ pc' = [pc EXCEPT ![t] = "unblock"]
    /\ target' = [target EXCEPT ![t] = None]
    /\ UNCHANGED <<status, deps, arg, visited, stack, todo>>

CommitCompletion(t) ==
    /\ pc[t] = "unblock" /\ todo[t] = {}
    /\ status' = View(t)
    /\ writer' = IF writer = t THEN None ELSE writer
    /\ draft' = IF writer = t THEN NoDraft ELSE draft
    /\ Return(t)
    /\ UNCHANGED deps

-----------------------------------------------------------------------------
(* execute_goal() and database errors. *)

\* get_goal(), then update_goal(ACTIVE).  Neither the status of the goal nor
\* its dependencies are looked at.
Execute(t) ==
    /\ pc[t] = "idle" /\ writer = None
    /\ \E g \in Goals :
        /\ status[g] # "absent"
        /\ status' = [status EXCEPT ![g] = "active"]
        /\ arg' = [arg EXCEPT ![t] = g]
    /\ pc' = [pc EXCEPT ![t] = "execute"]
    /\ UNCHANGED <<deps, writer, draft, target, visited, stack, todo>>

\* The executor returned or raised.
Executed(t) ==
    /\ pc[t] = "execute" /\ writer = None
    /\ \E s \in {"completed", "failed"} :
        status' = [g \in Goals |->
                    IF g = arg[t] /\ status[g] # "absent" THEN s ELSE status[g]]
    /\ Return(t)
    /\ UNCHANGED <<deps, writer, draft>>

\* A statement raises sqlite3.Error: the transaction is rolled back.  Every
\* method but update_goal() catches the error; the caller returns either way.
DatabaseError(t) ==
    /\ pc[t] # "idle"
    /\ writer' = IF writer = t THEN None ELSE writer
    /\ draft' = IF writer = t THEN NoDraft ELSE draft
    /\ Return(t)
    /\ UNCHANGED <<status, deps>>

Step(t) ==
    \/ CreateGoal(t) \/ UpdateGoal(t) \/ DeleteGoal(t)
    \/ RemoveDependency(t)
    \/ t \in Adders /\ AddDependency(t)
    \/ Visit(t) \/ RefuseDependency(t) \/ InsertDependency(t)
    \/ FailureSnapshot(t) \/ BlockDependents(t)
    \/ CompletionSnapshot(t) \/ CheckDependent(t)
    \/ UpdateDependent(t) \/ CommitCompletion(t)
    \/ Execute(t) \/ Executed(t)
    \/ DatabaseError(t)

\* A call starts alone, and is so until another caller changes a table.
StaysAlone(t, s) ==
    /\ pc'[s] # "idle"
    /\ IF s = t THEN pc[t] = "idle" \/ t \in alone
                ELSE s \in alone /\ UNCHANGED <<status, deps>>

Next ==
    \E t \in Callers :
        /\ Step(t)
        /\ alone' = {s \in Callers : StaysAlone(t, s)}

Spec == Init /\ [][Next]_vars

-----------------------------------------------------------------------------
(* Properties. *)

\* Type correctness of the two tables and of the callers' local variables.
TypeOK ==
    /\ status \in [Goals -> Statuses \cup {"absent"}]
    /\ deps \subseteq Goals \X Goals
    /\ writer \in Callers \cup {None}
    /\ draft \in [Goals -> Statuses \cup {"absent"}]
    /\ pc \in [Callers -> {"idle", "search", "block", "unblock", "update", "execute"}]
    /\ arg \in [Callers -> Goals \cup {None}]
    /\ target \in [Callers -> Goals \cup {None}]
    /\ visited \in [Callers -> SUBSET Goals]
    /\ stack \in [Callers -> SUBSET Goals]
    /\ todo \in [Callers -> SUBSET Goals]
    /\ alone \subseteq Callers

\* When one thread at a time adds dependencies, they never form a cycle,
\* whatever the other threads create, delete, remove, execute or propagate
\* while add_dependency() searches.
Acyclic == CycleFree(deps)

\* A plan in which nothing is running, failed or blocked has a goal that
\* get_ready_goals() returns, unless all its goals are completed.
SomeGoalIsReady ==
    /\ \A g \in Goals : status[g] \in {"absent", "pending", "completed"}
    /\ \E g \in Goals : status[g] = "pending"
    => Ready # {}

\* When propagate_completion() commits, no dependent of the completed goal is
\* left blocked although all its dependencies are completed, unless another
\* thread changed the tables during the call.
CompletionUnblocks ==
    [][\A t \in alone : CommitCompletion(t) =>
        \A d \in Goals : d \in DependentsOf(arg[t]) /\ status'[d] = "blocked"
                         => ~Met(status', d)]_vars

\* ... and the only goals it sets to pending were blocked and have no uncompleted
\* dependency: "unblock dependents with all deps completed".
UnblocksOnlyMet ==
    [][\A t \in alone : CommitCompletion(t) =>
        \A d \in Goals : status'[d] # status[d] =>
            status[d] = "blocked" /\ Met(status', d)]_vars

\* propagate_failure() never touches a goal that has failed itself, nor one that
\* does not depend on the failed goal, unless another thread interferes.
FailureSparesFailed ==
    [][\A t \in alone : BlockDependents(t) =>
        \A d \in Goals : status'[d] # status[d] =>
            d \in DependentsOf(arg[t]) /\ status[d] # "failed"]_vars
=============================================================================
