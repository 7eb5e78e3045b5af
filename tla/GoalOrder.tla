----------------------------- MODULE GoalOrder -----------------------------
(***************************************************************************)
(* execution_order() of core/goal_planner.py: Kahn's algorithm over the    *)
(* goals and goal_dependencies tables.                                     *)
(*                                                                         *)
(* The goals and the number of their dependencies are read first; the      *)
(* dependencies are read again, goal by goal, while the queue is worked    *)
(* off.  Each read is a SELECT of its own; other threads may change the    *)
(* tables in between (Edits times), and a read may raise sqlite3.Error     *)
(* (Faults times), which the code catches, logs and goes on from.          *)
(***************************************************************************)
EXTENDS GoalTables, Integers, Sequences, SequencesExt, FiniteSets

CONSTANTS
    Kinds,  \* statuses of goals, "absent" for a goal without a row
    Edits,  \* bound: changes of the tables by other threads during the call
    Faults  \* bound: reads of the call that fail

ASSUME GoalsAssumption == IsFiniteSet(Goals)
ASSUME KindsAssumption == Kinds \subseteq Statuses \cup {"absent"}
ASSUME EditsAssumption == Edits \in Nat
ASSUME FaultsAssumption == Faults \in Nat

VARIABLES
    goals,    \* the open goals, in the order the SELECT returned them
    degree,   \* in_degree
    queue,
    result,
    next,     \* index in goals of the next goal whose dependencies are read
    place,    \* where the call is
    left,     \* edits that may still happen
    faults,   \* reads that may still fail
    lost      \* history: goals of which a dependency was not counted off, its read failed

tables == <<status, deps>>
callVars == <<tables, goals, degree, queue, result, next, place, left,
             faults, lost>>
failing == <<faults, lost>>

Ended == place \in {"done", "failed"}

Open == {g \in Goals : status[g] \in {"pending", "active"}}

\* get_dependencies() joins the goals table.
Dependencies(g) == {d \in DependenciesOf(g) : status[d] # "absent"}

\* add_dependency() keeps the dependencies free of cycles; statuses and deleted
\* goals are arbitrary.
CallInit ==
    /\ status \in [Goals -> Kinds]
    /\ deps \in {E \in SUBSET (Goals \X Goals) : CycleFree(E)}
    /\ goals = <<>> /\ queue = <<>> /\ result = <<>>
    /\ degree = [g \in Goals |-> 0]
    /\ next = 1
    /\ place = "select"
    /\ left = Edits
    /\ faults = Faults /\ lost = {}

SelectGoals ==
    /\ place = "select"
    /\ goals' \in SetToSeqs(Open)
    /\ place' = IF Open = {} THEN "done" ELSE "count"
    /\ UNCHANGED <<tables, degree, queue, result, next, left, failing>>

\* The goals with degree 0, in the order of goals: the one sequence in the set.
Zeros(dg) ==
    LET Z == {k \in DOMAIN goals : dg[goals[k]] = 0}
        Increasing == {at \in SetToSeqs(Z) :
                         \A i, j \in DOMAIN at : i < j => at[i] < at[j]}
    IN  {[i \in DOMAIN at |-> goals[at[i]]] : at \in Increasing}

SlipCountDegrees ==
    /\ place = "count"
    /\ degree' = [g \in Goals |-> Cardinality(Dependencies(g) \cap Open)]
    /\ queue' \in Zeros(degree')
    /\ place' = "pop"
    /\ UNCHANGED <<tables, goals, result, next, left, failing>>

\* in_degree counts every row, also one whose dependency is completed or has no
\* row in goals.
CountDegrees ==
    /\ place = "count"
    /\ degree' = [g \in Goals |-> IF g \in Range(goals) THEN Cardinality(DependenciesOf(g)) ELSE 0]
    /\ queue' \in Zeros(degree')
    /\ place' = "pop"
    /\ UNCHANGED <<tables, goals, result, next, left, failing>>

\* One of the first two SELECTs fails: the call returns an empty list.
OrderFails ==
    /\ place \in {"select", "count"}
    /\ faults > 0
    /\ faults' = faults - 1
    /\ place' = "failed"
    /\ UNCHANGED <<tables, goals, degree, queue, result, next, left, lost>>

Pop ==
    /\ place = "pop" /\ queue # <<>>
    /\ result' = Append(result, Head(queue))
    /\ queue' = Tail(queue)
    /\ next' = 1
    /\ place' = "scan"
    /\ UNCHANGED <<tables, goals, degree, left, failing>>

ReturnOrder ==
    /\ place = "pop" /\ queue = <<>>
    /\ place' = "done"
    /\ UNCHANGED <<tables, goals, degree, queue, result, next, left, failing>>

SlipScan ==
    /\ place = "scan" /\ next <= Len(goals)
    /\ LET g == goals[next] IN
        IF Last(result) \in Dependencies(g)
        THEN /\ degree' = [degree EXCEPT ![g] = @ - 1]
             /\ queue' = IF degree[g] >= 1 THEN Append(queue, g) ELSE queue
        ELSE UNCHANGED <<degree, queue>>
    /\ next' = next + 1
    /\ UNCHANGED <<tables, goals, result, place, left, failing>>

SlipScanStays ==
    /\ place = "scan" /\ next <= Len(goals)
    /\ LET g == goals[next] IN
        IF Last(result) \in Dependencies(g)
        THEN /\ degree' = [degree EXCEPT ![g] = @ - 1]
             /\ queue' = IF degree[g] = 1 THEN Append(queue, g) ELSE queue
             /\ next' = next + 1
        ELSE UNCHANGED <<degree, queue, next>>
    /\ UNCHANGED <<tables, goals, result, place, left, failing>>

\* One round of the inner loop: get_dependencies() of the next goal.
Scan ==
    /\ place = "scan" /\ next <= Len(goals)
    /\ LET g == goals[next] IN
        IF Last(result) \in Dependencies(g)
        THEN /\ degree' = [degree EXCEPT ![g] = @ - 1]
             /\ queue' = IF degree[g] = 1 THEN Append(queue, g) ELSE queue
        ELSE UNCHANGED <<degree, queue>>
    /\ next' = next + 1
    /\ UNCHANGED <<tables, goals, result, place, left, failing>>

\* ... which fails: it returns no dependencies, so that the goal popped last is not
\* counted off the one that depends on it.
ScanFails ==
    /\ place = "scan" /\ next <= Len(goals)
    /\ faults > 0
    /\ faults' = faults - 1
    /\ lost' = lost \cup {g \in {goals[next]} : Last(result) \in Dependencies(g)}
    /\ next' = next + 1
    /\ UNCHANGED <<tables, goals, degree, queue, result, place, left>>

Scanned ==
    /\ place = "scan" /\ next > Len(goals)
    /\ place' = "pop"
    /\ UNCHANGED <<tables, goals, degree, queue, result, next, left, failing>>

\* Another thread creates, updates or deletes a goal, or adds or removes a
\* dependency.
Edit ==
    /\ ~Ended
    /\ left > 0
    /\ left' = left - 1
    /\ \/ /\ \E g \in Goals, s \in Kinds : status' = [status EXCEPT ![g] = s]
          /\ UNCHANGED deps
       \/ /\ \E g, d \in Goals :
            deps' = IF <<g, d>> \in deps THEN deps \ {<<g, d>>} ELSE deps \cup {<<g, d>>}
          /\ CycleFree(deps')
          /\ UNCHANGED status
    /\ UNCHANGED <<goals, degree, queue, result, next, place, failing>>

\* The steps of the call itself.
Call ==
    \/ SelectGoals \/ CountDegrees \/ OrderFails
    \/ Pop \/ ReturnOrder \/ Scan \/ ScanFails \/ Scanned

CallNext == Call \/ Edit

CallSpec == CallInit /\ [][CallNext]_callVars

\* The call runs to its end.
FairCall == CallSpec /\ WF_callVars(Call)

-----------------------------------------------------------------------------
(* Properties. *)

\* Of two goals in the result, the one the other depends on comes first, unless
\* the tables change during the call; reads that fail do not change that.
OrderRespectsDependencies ==
    left = Edits =>
        \A i, j \in 1..Len(result) : <<result[i], result[j]>> \in deps => j < i

\* No goal is listed twice, also when the tables change during the call.
NoRepeats == IsInjective(result)

\* When nothing changes during the call and its first two reads succeed, what it
\* returns is the goals whose dependencies are all in the result: a goal is left out
\* only for a dependency that is left out, closed or deleted, or because a read failed
\* that would have counted a dependency off.  The docstring, "Topological sort of
\* pending/active goals respecting dependencies", mentions neither.
OrderIsOpenPart ==
    place = "done" /\ left = Edits =>
        \A g \in Open :
            g \in Range(result) <=> DependenciesOf(g) \subseteq Range(result) /\ g \notin lost

\* The queue is worked off: the call returns.
Returns == <>Ended
=============================================================================
