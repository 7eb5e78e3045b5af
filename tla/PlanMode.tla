------------------------------ MODULE PlanMode ------------------------------
(***************************************************************************)
(* A plan of PlanMode (core/plan_mode.py) and the threads that work on it. *)
(* All of its methods hold one lock, also while they publish on the bus.   *)
(* get_next_step() does not claim the step it returns, and update_step()   *)
(* accepts any report of any thread, in whatever state plan and step are.  *)
(*                                                                         *)
(* The threads are callers, modelled after the tests: a thread asks for a  *)
(* step, may report that it has begun, and reports the outcome.            *)
(*                                                                         *)
(* A definition whose name starts with Slip is a mistake the code could    *)
(* have made in the definition after it.                                   *)
(***************************************************************************)
EXTENDS EventBus

CONSTANTS
    Steps,        \* the steps, numbered in their order
    Unknown,      \* a dependency on a name that no step has
    Orders,       \* the dependencies that a caller may give the steps of a plan
    NoThread, NoStep

ASSUME PlanAssumption ==
    /\ Steps \subseteq Nat \ {0} /\ NoStep \notin Steps
    /\ Unknown \notin Steps \cup {NoStep}
    /\ Orders \subseteq [Steps -> SUBSET Steps]
    /\ NoThread \notin Threads
    /\ {"created", "started", "completed", "failed"} \subseteq Events

VARIABLES
    lock,      \* owner of _lock
    status,    \* of the plan; "none" before it is created
    deps,      \* the dependencies of its steps
    step,      \* the status of each step
    work,      \* the step a thread has been given
    disorder   \* history: "twice", a step was given to two threads at once;
               \* "uninvited", a thread reported a step it had not been given

vars == <<bus, lock, status, deps, step, work, disorder>>

Init ==
    /\ BusInit
    /\ lock = NoThread /\ status = "none"
    /\ deps = [s \in Steps |-> {}] /\ step = [s \in Steps |-> "pending"]
    /\ work = [t \in Threads |-> NoStep] /\ disorder = {}

\* The thread is in no other call, and the lock is free.
Enter(t) == lock = NoThread /\ todo[t] = <<>>

SlipAnnounce(t, e) == Publish(t, e) /\ lock' = NoThread

\* Publishes with the lock in hand.
Announce(t, e) ==
    /\ Publish(t, e)
    /\ lock' = IF subs = <<>> THEN NoThread ELSE t

Deliver(t) ==
    /\ CallNext(t)
    /\ lock' = IF Len(todo[t]) = 1 THEN NoThread ELSE lock
    /\ UNCHANGED <<status, deps, step, work, disorder>>

-----------------------------------------------------------------------------
(* The life of a plan. *)

\* The ids of the steps are made here: a name that the caller gave as a dependency is
\* the id of none of them.
CreatePlan(t) ==
    /\ Enter(t) /\ status = "none"
    /\ \E named \in {{}} \cup {{s} : s \in Steps} :
            deps' = [s \in Steps |-> IF s \in named THEN {Unknown} ELSE {}]
    /\ status' = "pending"
    /\ Announce(t, "created")
    /\ UNCHANGED <<step, work, disorder>>

\* The caller fills the lists of dependencies with the ids of the plan it was returned,
\* without the lock, before it starts the plan.
NameSteps ==
    /\ status = "pending" /\ lock = NoThread
    /\ \A s \in Steps : deps[s] = {}
    /\ deps' \in Orders
    /\ UNCHANGED <<bus, lock, status, step, work, disorder>>

StartPlan(t) ==
    /\ Enter(t) /\ status = "pending"
    /\ status' = "in_progress"
    /\ Announce(t, "started")
    /\ UNCHANGED <<deps, step, work, disorder>>

PausePlan(t) ==
    /\ Enter(t) /\ status = "in_progress"
    /\ status' = "paused"
    /\ UNCHANGED <<bus, lock, deps, step, work, disorder>>

ResumePlan(t) ==
    /\ Enter(t) /\ status = "paused"
    /\ status' = "in_progress"
    /\ UNCHANGED <<bus, lock, deps, step, work, disorder>>

-----------------------------------------------------------------------------
(* Steps. *)

Done == {"completed", "skipped"}

SlipReady(s) == step[s] = "pending" /\ \A d \in deps[s] \cap Steps : step[d] # "pending"

Ready(s) ==
    /\ step[s] = "pending"
    /\ \A d \in deps[s] : d \in Steps /\ step[d] = "completed"

SlipOffered == {s \in Steps : Ready(s) /\ \A r \in Steps : r < s => step[r] # "pending"}

\* The step that get_next_step() returns, if there is one: the first that is ready.
Offered == {s \in Steps : Ready(s) /\ \A r \in Steps : r < s => ~Ready(r)}

GetNextStep(t) ==
    /\ Enter(t) /\ status = "in_progress" /\ work[t] = NoStep
    /\ \E s \in Offered :
        /\ work' = [work EXCEPT ![t] = s]
        /\ disorder' = disorder \cup (IF \E u \in Threads : work[u] = s THEN {"twice"} ELSE {})
    /\ UNCHANGED <<bus, lock, status, deps, step>>

SlipOutcome(new) ==
    IF \A s \in Steps : new[s] \notin {"pending", "in_progress"} THEN "completed"
    ELSE IF \E s \in Steps : new[s] = "failed" THEN "failed" ELSE status

SlipOutcome2(new) ==
    IF \A s \in Steps : new[s] # "pending" THEN "completed"
    ELSE IF \E s \in Steps : new[s] = "failed" THEN "failed" ELSE status

\* What the plan becomes when a report has changed its steps to new.
Outcome(new) ==
    IF \A s \in Steps : new[s] \in Done THEN "completed"
    ELSE IF \E s \in Steps : new[s] = "failed" THEN "failed" ELSE status

\* A report that leaves the plan completed or failed announces it, also when it was
\* so before; but one that leaves open steps in a completed plan does not.
UpdateStep(t, s, what) ==
    LET new == [step EXCEPT ![s] = what]
        ends == \/ \A r \in Steps : new[r] \in Done
                \/ \E r \in Steps : new[r] = "failed"
    IN  /\ Enter(t) /\ status # "none"
        /\ step' = new
        /\ status' = Outcome(new)
        /\ IF ends THEN Announce(t, status') ELSE UNCHANGED <<bus, lock>>
        /\ UNCHANGED deps

Begin(t) ==
    /\ work[t] # NoStep
    /\ UpdateStep(t, work[t], "in_progress")
    /\ UNCHANGED <<work, disorder>>

Report(t) ==
    /\ work[t] # NoStep
    /\ \E what \in {"completed", "failed", "skipped"} : UpdateStep(t, work[t], what)
    /\ work' = [work EXCEPT ![t] = NoStep]
    /\ UNCHANGED disorder

ReportUninvited(t) ==
    /\ work[t] = NoStep /\ "uninvited" \notin disorder
    /\ \E s \in Steps, what \in {"in_progress", "completed", "failed", "skipped"} :
            UpdateStep(t, s, what)
    /\ disorder' = disorder \cup {"uninvited"}
    /\ UNCHANGED work

-----------------------------------------------------------------------------

Watch(c) ==
    /\ Subscribe(c) \/ Unsubscribe(c)
    /\ UNCHANGED <<lock, status, deps, step, work, disorder>>

GoOn(t) == Deliver(t) \/ GetNextStep(t) \/ Report(t)

Next ==
    \/ \E t \in Threads :
        \/ CreatePlan(t) \/ StartPlan(t) \/ PausePlan(t) \/ ResumePlan(t)
        \/ GoOn(t) \/ Begin(t) \/ ReportUninvited(t)
    \/ NameSteps
    \/ \E c \in Callbacks : Watch(c)

Spec == Init /\ [][Next]_vars

\* A thread asks for a step when it has none, reports on the one it has, and calls the
\* callbacks.  Strong fairness, for others may take the lock in between.
FairSpec == Spec /\ \A t \in Threads : SF_vars(GetNextStep(t)) /\ SF_vars(Report(t)) /\ SF_vars(Deliver(t))

-----------------------------------------------------------------------------
(* Properties. *)

StepStatus == {"pending", "in_progress", "completed", "failed", "skipped"}

\* Every variable has a value of its kind; threads work on steps.
TypeOK ==
    /\ BusTypeOK
    /\ lock \in Threads \cup {NoThread}
    /\ status \in {"none", "pending", "in_progress", "paused", "completed", "failed"}
    /\ deps \in [Steps -> SUBSET (Steps \cup {Unknown})]
    /\ step \in [Steps -> StepStatus]
    /\ work \in [Threads -> Steps \cup {NoStep}]
    /\ disorder \subseteq {"twice", "uninvited"}

\* The event that tells of a status.
Told(what) ==
    CASE what = "none" -> "none"
      [] what = "pending" -> "created"
      [] what \in {"in_progress", "paused"} -> "started"
      [] OTHER -> what

\* The last event in the history of the bus tells the status of the plan, whatever
\* was reported by whom.
HistoryTells == status # "none" => history # <<>> /\ Last(history) = Told(status)

\* So does the last event that a subscriber was called with, once no method of the plan
\* is under way: events reach it in the order of the changes, although callbacks are
\* called after the lock of the bus is released.
WatcherKnows ==
    \A c \in Callbacks : (lock = NoThread /\ ~missed[c]) => seen[c] = Told(status)

\* In a completed plan each step is completed or skipped, and nobody works on one.
CompletedMeansDone ==
    (status = "completed" /\ disorder = {}) =>
        /\ \A s \in Steps : step[s] \in Done
        /\ \A t \in Threads : work[t] = NoStep

\* A step that was taken or has ended had, and still has, all its dependencies completed.
DependenciesFirst ==
    disorder = {} =>
        /\ \A s \in Steps : step[s] # "pending" => \A d \in deps[s] : d \in Steps /\ step[d] = "completed"
        /\ \A t \in Threads : work[t] # NoStep => \A d \in deps[work[t]] : d \in Steps /\ step[d] = "completed"

\* A plan that has completed or failed stays so, whatever is still reported by the
\* threads that were at work.
OutcomeIsFinal ==
    [][(status \in {"completed", "failed"} /\ disorder' = {}) => status' = status]_vars

\* A step that waits for one that can never complete.
Stuck == \E s \in Steps : step[s] = "pending" /\
            \E d \in deps[s] : d \notin Steps \/ step[d] = "skipped"
                                \/ (d \in Steps /\ step[d] = "pending" /\ s \in deps[d])

\* A plan in progress ends or is paused, unless a step waits for one that was skipped,
\* has another name, or waits for it in turn, or somebody reported uninvited.
PlanEnds ==
    (status = "in_progress") ~> (status # "in_progress" \/ Stuck \/ "uninvited" \in disorder)
=============================================================================
