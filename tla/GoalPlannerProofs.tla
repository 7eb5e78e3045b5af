------------------------- MODULE GoalPlannerProofs -------------------------
(***************************************************************************)
(* What holds of GoalGraph and of GoalOrder for every set of goals.        *)
(*                                                                         *)
(* Acyclic is not inductive: an insert is harmless only because of what    *)
(* the search before it saw.  SearchSound says what a search knows when    *)
(* no other thread inserts meanwhile: the visited goals, with the ones     *)
(* still on the stack, are closed under the dependencies, contain the      *)
(* target and do not contain the goal that is to depend on it.             *)
(***************************************************************************)
EXTENDS GoalGraph, GoalOrder, FiniteSetTheorems, TLAPS

\* One thread at a time adds dependencies.
OneAdder == \A t1, t2 \in Adders : t1 = t2

SearchTyped ==
    \A t \in Callers : pc[t] = "search" =>
        t \in Adders /\ arg[t] \in Goals /\ target[t] \in Goals

SearchSound ==
    \A t \in Callers :
        IF pc[t] = "search"
        THEN /\ target[t] \in visited[t] \cup stack[t]
             /\ arg[t] \notin visited[t]
             /\ \A v \in visited[t] :
                    DependenciesOf(v) \subseteq visited[t] \cup stack[t]
        ELSE visited[t] = {}

TypeInv == TypeOK /\ SearchTyped
PlanInv == TypeInv /\ SearchSound /\ Acyclic

\* An edge from g to d keeps a graph free of cycles if some set closed under the
\* edges contains d and not g.
LEMMA ClosedSetKeepsCycleFree ==
    ASSUME NEW E, CycleFree(E), NEW V \in SUBSET Goals,
           NEW g \in Goals, NEW d \in V, g \notin V,
           \A v \in V : \A x \in Goals : <<v, x>> \in E => x \in V
    PROVE  CycleFree(E \cup {<<g, d>>})
<1> SUFFICES ASSUME NEW S \in SUBSET Goals, S # {}
             PROVE  \E x \in S : \A y \in S : <<x, y>> \notin E \cup {<<g, d>>}
    BY DEF CycleFree
<1>1. CASE S \cap V # {}
    <2>1. PICK x \in S \cap V : \A y \in S \cap V : <<x, y>> \notin E
        BY <1>1 DEF CycleFree
    <2>2. \A y \in S : <<x, y>> \notin E
        BY <2>1
    <2> QED BY <2>1, <2>2
<1>2. CASE S \cap V = {}
    <2>1. PICK x \in S : \A y \in S : <<x, y>> \notin E
        BY DEF CycleFree
    <2> QED BY <1>2, <2>1
<1> QED BY <1>1, <1>2

-----------------------------------------------------------------------------
(* Types. *)

LEMMA TypeInit == Init => TypeInv
BY NoneAssumption DEF Init, TypeInv, TypeOK, SearchTyped, NoDraft

LEMMA TypeStep == TypeInv /\ [Next]_vars => TypeInv'
<1> SUFFICES ASSUME TypeInv, [Next]_vars PROVE TypeInv'
    OBVIOUS
<1>0. alone' \subseteq Callers
    BY DEF TypeInv, TypeOK, Next, vars
<1> USE <1>0 DEF TypeInv, TypeOK, SearchTyped, Statuses
<1>1. CASE UNCHANGED vars
    BY <1>1 DEF vars
<1>2. ASSUME NEW t \in Callers,
             CreateGoal(t) \/ UpdateGoal(t) \/ DeleteGoal(t) \/ RemoveDependency(t)
      PROVE  TypeInv'
    BY <1>2 DEF CreateGoal, UpdateGoal, DeleteGoal, RemoveDependency
<1>3. ASSUME NEW t \in Callers, t \in Adders /\ AddDependency(t) PROVE TypeInv'
    BY <1>3 DEF AddDependency
<1>4. ASSUME NEW t \in Callers, Visit(t) PROVE TypeInv'
    BY <1>4 DEF Visit, DependenciesOf
<1>5. ASSUME NEW t \in Callers,
             RefuseDependency(t) \/ InsertDependency(t) \/ DatabaseError(t)
      PROVE  TypeInv'
    BY <1>5 DEF RefuseDependency, InsertDependency, DatabaseError, Return, NoDraft
<1>6. ASSUME NEW t \in Callers, FailureSnapshot(t) PROVE TypeInv'
    BY <1>6 DEF FailureSnapshot, DependentsOf
<1>12. ASSUME NEW t \in Callers, CompletionSnapshot(t) PROVE TypeInv'
    BY <1>12 DEF CompletionSnapshot, DependentsOf
<1>7. ASSUME NEW t \in Callers, CheckDependent(t) PROVE TypeInv'
    BY <1>7 DEF CheckDependent
<1>8. ASSUME NEW t \in Callers, UpdateDependent(t) PROVE TypeInv'
    BY <1>8 DEF UpdateDependent, View
<1>9. ASSUME NEW t \in Callers, BlockDependents(t) \/ Executed(t) PROVE TypeInv'
    BY <1>9 DEF BlockDependents, Executed, Return
<1>10. ASSUME NEW t \in Callers, CommitCompletion(t) PROVE TypeInv'
    BY <1>10 DEF CommitCompletion, Return, View, NoDraft
<1>11. ASSUME NEW t \in Callers, Execute(t) PROVE TypeInv'
    BY <1>11 DEF Execute
<1> QED
    BY <1>1, <1>2, <1>3, <1>4, <1>5, <1>6, <1>7, <1>8, <1>9, <1>10, <1>11, <1>12
       DEF Next, Step

\* The tables and the local variables of every caller stay well typed.
THEOREM TypeCorrect == Spec => []TypeOK
<1>1. TypeInv => TypeOK
    BY DEF TypeInv
<1> QED BY <1>1, TypeInit, TypeStep, PTL DEF Spec

-----------------------------------------------------------------------------
(* Cycles. *)

LEMMA PlanInit == Init => PlanInv
<1> SUFFICES ASSUME Init PROVE PlanInv
    OBVIOUS
<1>1. TypeInv BY TypeInit
<1>2. SearchSound BY DEF Init, SearchSound
<1>3. Acyclic BY DEF Init, Acyclic, CycleFree
<1> QED BY <1>1, <1>2, <1>3 DEF PlanInv

\* A step that neither inserts a dependency nor advances or starts a search keeps
\* what the searches know: it may remove dependencies or end a search.
LEMMA QuietStep ==
    ASSUME PlanInv, deps' \subseteq deps,
           \A t \in Callers :
               \/ /\ pc[t] = "search" <=> pc'[t] = "search"
                  /\ visited'[t] = visited[t] /\ stack'[t] = stack[t]
                  /\ pc[t] = "search" => arg'[t] = arg[t] /\ target'[t] = target[t]
               \/ pc'[t] # "search" /\ visited'[t] = {}
    PROVE  SearchSound' /\ Acyclic'
<1>1. SearchSound'
    BY DEF PlanInv, SearchSound, DependenciesOf
<1>2. Acyclic'
    BY DEF PlanInv, Acyclic, CycleFree
<1> QED BY <1>1, <1>2

LEMMA PlanStep == OneAdder /\ PlanInv /\ [Next]_vars => PlanInv'
<1> SUFFICES ASSUME OneAdder, PlanInv, [Next]_vars PROVE PlanInv'
    OBVIOUS
<1>0. TypeInv'
    BY TypeStep DEF PlanInv
<1> SUFFICES SearchSound' /\ Acyclic'
    BY <1>0 DEF PlanInv
<1>t. /\ pc \in [Callers -> {"idle", "search", "block", "unblock", "update", "execute"}]
      /\ arg \in [Callers -> Goals \cup {None}]
      /\ target \in [Callers -> Goals \cup {None}]
      /\ visited \in [Callers -> SUBSET Goals]
      /\ stack \in [Callers -> SUBSET Goals]
    BY DEF PlanInv, TypeInv, TypeOK
<1>1. CASE UNCHANGED vars
    BY <1>1, QuietStep DEF vars
<1>2. ASSUME NEW t \in Callers,
             CreateGoal(t) \/ UpdateGoal(t) \/ DeleteGoal(t) \/ RemoveDependency(t)
      PROVE  SearchSound' /\ Acyclic'
    BY <1>2, QuietStep DEF CreateGoal, UpdateGoal, DeleteGoal, RemoveDependency
<1>3. ASSUME NEW t \in Callers, t \in Adders /\ AddDependency(t)
      PROVE  SearchSound' /\ Acyclic'
    <2>1. Acyclic'
        BY <1>3 DEF AddDependency, PlanInv, Acyclic, CycleFree
    <2>2. SearchSound'
        BY <1>3, <1>t DEF AddDependency, PlanInv, SearchSound, DependenciesOf
    <2> QED BY <2>1, <2>2
<1>4. ASSUME NEW t \in Callers, Visit(t) PROVE SearchSound' /\ Acyclic'
    <2>1. Acyclic'
        BY <1>4 DEF Visit, PlanInv, Acyclic, CycleFree
    <2>2. SearchSound'
        BY <1>4, <1>t DEF Visit, PlanInv, SearchSound, DependenciesOf
    <2> QED BY <2>1, <2>2
<1>5. ASSUME NEW t \in Callers, InsertDependency(t) PROVE SearchSound' /\ Acyclic'
    <2> DEFINE V == visited[t]
    <2>1. /\ arg[t] \in Goals /\ target[t] \in V /\ arg[t] \notin V
          /\ \A v \in V : DependenciesOf(v) \subseteq V
        BY <1>5 DEF InsertDependency, PlanInv, TypeInv, SearchTyped, SearchSound
    <2>2. V \in SUBSET Goals
        BY <1>t
    <2>3. \A v \in V : \A x \in Goals : <<v, x>> \in deps => x \in V
        BY <2>1 DEF DependenciesOf
    <2>4. CycleFree(deps \cup {<<arg[t], target[t]>>})
        <3>1. CycleFree(deps)
            BY DEF PlanInv, Acyclic, CycleFree
        <3> HIDE DEF V
        <3> QED BY <2>1, <2>2, <2>3, <3>1, ClosedSetKeepsCycleFree
    <2>5. Acyclic'
        BY <1>5, <2>4 DEF InsertDependency, Acyclic, CycleFree
    <2>6. SearchSound'
        <3>1. \A s \in Callers : s # t => pc[s] # "search" /\ visited[s] = {}
            BY <1>5 DEF InsertDependency, OneAdder, PlanInv, TypeInv, SearchTyped,
                        SearchSound
        <3> QED BY <1>5, <1>t, <3>1 DEF InsertDependency, Return, SearchSound
    <2> QED BY <2>5, <2>6
<1>6. ASSUME NEW t \in Callers,
             RefuseDependency(t) \/ DatabaseError(t) \/ BlockDependents(t)
             \/ CommitCompletion(t) \/ Executed(t)
      PROVE  SearchSound' /\ Acyclic'
    BY <1>6, <1>t, QuietStep
       DEF RefuseDependency, DatabaseError, BlockDependents, CommitCompletion,
           Executed, Return
<1>7. ASSUME NEW t \in Callers,
             FailureSnapshot(t) \/ CompletionSnapshot(t) \/ CheckDependent(t)
             \/ UpdateDependent(t) \/ Execute(t)
      PROVE  SearchSound' /\ Acyclic'
    BY <1>7, <1>t, QuietStep
       DEF FailureSnapshot, CompletionSnapshot, CheckDependent, UpdateDependent,
           Execute
<1> QED
    BY <1>1, <1>2, <1>3, <1>4, <1>5, <1>6, <1>7 DEF Next, Step

\* If one thread at a time adds dependencies, the goals never depend on each
\* other in a cycle, whatever all threads do while add_dependency() searches.
THEOREM DependenciesAreAcyclic ==
    ASSUME OneAdder
    PROVE  Spec => []Acyclic
<1>1. PlanInv => Acyclic
    BY DEF PlanInv
<1>2. PlanInv /\ [Next]_vars => PlanInv'
    BY PlanStep
<1> QED BY <1>1, <1>2, PlanInit, PTL DEF Spec

\* ... so that a plan never gets stuck for want of a ready goal.
THEOREM PlansAreNeverStuck ==
    ASSUME OneAdder
    PROVE  Spec => []SomeGoalIsReady
<1>1. Acyclic => SomeGoalIsReady
    <2> SUFFICES ASSUME Acyclic,
                        \A g \in Goals : status[g] \in {"absent", "pending", "completed"},
                        \E g \in Goals : status[g] = "pending"
                 PROVE  Ready # {}
        BY DEF SomeGoalIsReady
    <2> DEFINE S == {g \in Goals : status[g] = "pending"}
    <2>1. PICK g \in S : \A d \in S : <<g, d>> \notin deps
        BY DEF Acyclic, CycleFree
    <2>2. Met(status, g)
        BY <2>1 DEF Met, DependenciesOf
    <2> QED BY <2>1, <2>2 DEF Ready
<1> QED BY <1>1, DependenciesAreAcyclic, PTL
-----------------------------------------------------------------------------
(***************************************************************************)
(* What propagate_completion() does as long as no other thread changes the *)
(* tables: Unblocking relates its snapshot, its uncommitted updates and    *)
(* the tables.                                                             *)
(***************************************************************************)

Waiting(d) == status[d] \in {"blocked", "pending"}

\* What caller t knows in the middle of propagate_completion().
Knows(t) ==
    /\ \A d \in todo[t] : Waiting(d)
    /\ pc[t] = "update" =>
        target[t] \in Goals /\ Waiting(target[t]) /\ Met(View(t), target[t])
    /\ \A d \in Goals : View(t)[d] # status[d] =>
        status[d] = "blocked" /\ View(t)[d] = "pending" /\ Met(View(t), d)
    /\ \A d \in Goals :
        <<d, arg[t]>> \in deps /\ View(t)[d] = "blocked" =>
            \/ d \in todo[t]
            \/ pc[t] = "update" /\ d = target[t]
            \/ ~Met(View(t), d)

Unblocking ==
    \A t \in Callers :
        IF pc[t] \in {"unblock", "update"} THEN t \in alone => Knows(t)
                                         ELSE writer # t

LEMMA UnblockingInit == Init => Unblocking
BY NoneAssumption DEF Init, Unblocking

\* A step of one caller leaves the local variables of the others, and what they
\* read in their own transaction unless it changes the tables.
LEMMA OthersUndisturbed ==
    ASSUME TypeInv, NEW t \in Callers, Step(t), NEW s \in Callers, s # t
    PROVE  /\ pc'[s] = pc[s] /\ arg'[s] = arg[s] /\ target'[s] = target[s]
           /\ todo'[s] = todo[s]
           /\ writer' = s <=> writer = s
           /\ status' = status => View(s)' = View(s)
<1>t. /\ writer \in Callers \cup {None} /\ s # None /\ t # None
      /\ pc \in [Callers -> {"idle", "search", "block", "unblock", "update", "execute"}]
      /\ arg \in [Callers -> Goals \cup {None}]
      /\ target \in [Callers -> Goals \cup {None}]
      /\ todo \in [Callers -> SUBSET Goals]
    BY NoneAssumption DEF TypeInv, TypeOK
<1>1. CASE CreateGoal(t) \/ UpdateGoal(t) \/ DeleteGoal(t) \/ RemoveDependency(t)
           \/ AddDependency(t) \/ Visit(t) \/ FailureSnapshot(t) \/ CompletionSnapshot(t)
           \/ CheckDependent(t) \/ Execute(t)
    BY <1>1, <1>t DEF CreateGoal, UpdateGoal, DeleteGoal, RemoveDependency, AddDependency,
       Visit, FailureSnapshot, CompletionSnapshot, CheckDependent, Execute, View
<1>2. CASE RefuseDependency(t) \/ InsertDependency(t) \/ BlockDependents(t) \/ Executed(t)
           \/ DatabaseError(t) \/ CommitCompletion(t)
    BY <1>2, <1>t DEF RefuseDependency, InsertDependency, BlockDependents, Executed,
       DatabaseError, CommitCompletion, Return, View
<1>3. CASE UpdateDependent(t)
    BY <1>3, <1>t DEF UpdateDependent, View
<1> QED BY <1>1, <1>2, <1>3 DEF Step

\* What a step of caller t does to its own knowledge.
LEMMA OwnStep ==
    ASSUME TypeInv, Unblocking, NEW t \in Callers, Step(t),
           alone' = {s \in Callers : StaysAlone(t, s)}
    PROVE  IF pc'[t] \in {"unblock", "update"} THEN t \in alone' => Knows(t)'
                                              ELSE writer' # t
<1>t. /\ status \in [Goals -> Statuses \cup {"absent"}]
      /\ writer \in Callers \cup {None} /\ t # None
      /\ draft \in [Goals -> Statuses \cup {"absent"}]
      /\ pc \in [Callers -> {"idle", "search", "block", "unblock", "update", "execute"}]
      /\ arg \in [Callers -> Goals \cup {None}]
      /\ target \in [Callers -> Goals \cup {None}]
      /\ todo \in [Callers -> SUBSET Goals]
    BY NoneAssumption DEF TypeInv, TypeOK
<1>u. t \in alone' /\ pc[t] # "idle" => t \in alone
    BY DEF StaysAlone
<1>1. CASE CreateGoal(t) \/ UpdateGoal(t) \/ DeleteGoal(t) \/ RemoveDependency(t)
           \/ AddDependency(t) \/ Visit(t) \/ FailureSnapshot(t) \/ Execute(t)
    BY <1>1, <1>t DEF CreateGoal, UpdateGoal, DeleteGoal, RemoveDependency,
       AddDependency, Visit, FailureSnapshot, Execute, Unblocking
<1>2. CASE RefuseDependency(t) \/ InsertDependency(t) \/ BlockDependents(t) \/ Executed(t)
    BY <1>2, <1>t DEF RefuseDependency, InsertDependency, BlockDependents, Executed,
       Return, Unblocking
<1>3. CASE CommitCompletion(t) \/ DatabaseError(t)
    BY <1>3, <1>t DEF CommitCompletion, DatabaseError, Return
<1>4. CASE CompletionSnapshot(t)
    BY <1>4, <1>t DEF CompletionSnapshot, DependentsOf, Waiting, View, Unblocking, Knows
<1>5. CASE CheckDependent(t)
    <2>1. PICK d \in todo[t] :
            /\ todo' = [todo EXCEPT ![t] = @ \ {d}]
            /\ IF Met(View(t), d)
               THEN /\ target' = [target EXCEPT ![t] = d]
                    /\ pc' = [pc EXCEPT ![t] = "update"]
               ELSE UNCHANGED <<target, pc>>
        BY <1>5 DEF CheckDependent
    <2>2. /\ pc[t] = "unblock"
          /\ UNCHANGED <<status, deps, writer, draft, arg>>
        BY <1>5 DEF CheckDependent
    <2>3. View(t)' = View(t) /\ \A g : Met(View(t), g)' <=> Met(View(t), g)
        BY <2>2 DEF View, Met, DependenciesOf
    <2>4. t \in alone' => Knows(t)
        BY <1>u, <2>2 DEF Unblocking
    <2> QED
        BY <1>t, <2>1, <2>2, <2>3, <2>4 DEF Knows, Waiting
<1>6. CASE UpdateDependent(t)
    <2>1. /\ pc[t] = "update" /\ pc'[t] = "unblock"
          /\ writer' = t
          /\ draft' = [g \in Goals |->
                 IF g = target[t] /\ View(t)[g] # "absent" THEN "pending" ELSE View(t)[g]]
          /\ UNCHANGED <<status, deps, arg, todo>>
        BY <1>6, <1>t DEF UpdateDependent
    <2> SUFFICES ASSUME t \in alone' PROVE Knows(t)'
        BY <2>1
    <2>2. View(t)' = draft'
        BY <2>1 DEF View
    <2>3. Knows(t)
        BY <1>u, <2>1 DEF Unblocking
    <2> DEFINE V == View(t)
               W == View(t)'
    <2>4. V \in [Goals -> Statuses \cup {"absent"}]
        BY <1>t DEF View
    <2>5. /\ V[target[t]] \in {"blocked", "pending"}
          /\ W[target[t]] = "pending"
          /\ \A d \in Goals : d # target[t] => W[d] = V[d]
        BY <2>1, <2>2, <2>3, <2>4 DEF Knows, Waiting
    <2>6. \A g : Met(View(t), g)' <=> Met(View(t), g)
        BY <2>1, <2>3, <2>4, <2>5 DEF Met, DependenciesOf, Knows
    <2> QED
        BY <1>t, <2>1, <2>3, <2>4, <2>5, <2>6 DEF Knows, Waiting
<1> QED BY <1>1, <1>2, <1>3, <1>4, <1>5, <1>6 DEF Step

LEMMA UnblockingStep == TypeInv /\ Unblocking /\ [Next]_vars => Unblocking'
<1> SUFFICES ASSUME TypeInv, Unblocking, [Next]_vars PROVE Unblocking'
    OBVIOUS
<1>1. CASE UNCHANGED vars
    BY <1>1 DEF vars, Unblocking, Knows, Waiting, Met, DependenciesOf, View
<1>2. ASSUME NEW t \in Callers, Step(t), alone' = {s \in Callers : StaysAlone(t, s)},
             NEW s \in Callers
      PROVE  IF pc'[s] \in {"unblock", "update"} THEN s \in alone' => Knows(s)'
                                                ELSE writer' # s
    <2>1. CASE s = t
        BY <1>2, <2>1, OwnStep
    <2>2. CASE s # t
        <3>1. /\ pc'[s] = pc[s] /\ arg'[s] = arg[s] /\ target'[s] = target[s]
              /\ todo'[s] = todo[s]
              /\ writer' = s <=> writer = s
              /\ status' = status => View(s)' = View(s)
            BY <1>2, <2>2, OthersUndisturbed
        <3>2. s \in alone' => s \in alone /\ status' = status /\ deps' = deps
            BY <1>2, <2>2 DEF StaysAlone
        <3> QED
            BY <3>1, <3>2 DEF Unblocking, Knows, Waiting, Met, DependenciesOf
    <2> QED BY <2>1, <2>2
<1> QED BY <1>1, <1>2 DEF Next, Unblocking

LEMMA UnblockingAlways == Spec => [](TypeInv /\ Unblocking)
<1>1. TypeInv /\ Unblocking /\ [Next]_vars => TypeInv' /\ Unblocking'
    BY TypeStep, UnblockingStep
<1> QED BY <1>1, TypeInit, UnblockingInit, PTL DEF Spec

\* What a caller knows when it commits.
LEMMA CommitStep ==
    ASSUME TypeInv, Unblocking, NEW t \in alone, CommitCompletion(t)
    PROVE  /\ \A d \in Goals : status'[d] # status[d] =>
                status[d] = "blocked" /\ Met(status', d)
           /\ \A d \in Goals : d \in DependentsOf(arg[t]) /\ status'[d] = "blocked"
                               => ~Met(status', d)
<1>1. Knows(t)
    BY DEF CommitCompletion, Unblocking, TypeInv, TypeOK
<1>2. status' = View(t) /\ todo[t] = {} /\ pc[t] = "unblock"
    BY DEF CommitCompletion
<1> QED BY <1>1, <1>2 DEF Knows, Met, DependenciesOf, DependentsOf

\* Unless another thread changes the tables during the call, propagate_completion()
\* changes the status of blocked goals only whose dependencies are all completed, ...
THEOREM OnlyMetAreUnblocked == Spec => UnblocksOnlyMet
<1>1. TypeInv /\ Unblocking /\ [Next]_vars =>
        [\A t \in alone : CommitCompletion(t) =>
            \A d \in Goals : status'[d] # status[d] =>
                status[d] = "blocked" /\ Met(status', d)]_vars
    BY CommitStep
<1> QED BY <1>1, UnblockingAlways, PTL DEF Spec, UnblocksOnlyMet

\* ... and leaves no dependent blocked whose dependencies are all completed.
THEOREM CompletionUnblocksAll == Spec => CompletionUnblocks
<1>1. TypeInv /\ Unblocking /\ [Next]_vars =>
        [\A t \in alone : CommitCompletion(t) =>
            \A d \in Goals : d \in DependentsOf(arg[t]) /\ status'[d] = "blocked"
                             => ~Met(status', d)]_vars
    BY CommitStep
<1> QED BY <1>1, UnblockingAlways, PTL DEF Spec, CompletionUnblocks
-----------------------------------------------------------------------------
(***************************************************************************)
(* propagate_failure() likewise: what its one read said still holds when   *)
(* its updates are made.                                                   *)
(***************************************************************************)

Blocking ==
    \A t \in Callers :
        pc[t] = "block" /\ t \in alone =>
            \A d \in todo[t] : d \in DependentsOf(arg[t]) /\ status[d] # "failed"

LEMMA BlockingStep == TypeInv /\ Blocking /\ [Next]_vars => Blocking'
<1> SUFFICES ASSUME TypeInv, Blocking, [Next]_vars PROVE Blocking'
    OBVIOUS
<1>1. CASE UNCHANGED vars
    BY <1>1 DEF vars, Blocking, DependentsOf
<1>2. ASSUME NEW t \in Callers, Step(t), alone' = {s \in Callers : StaysAlone(t, s)},
             NEW s \in Callers, pc'[s] = "block", s \in alone'
      PROVE  \A d \in todo'[s] : d \in DependentsOf(arg[s])' /\ status'[d] # "failed"
    <2>t. /\ pc \in [Callers -> {"idle", "search", "block", "unblock", "update", "execute"}]
          /\ arg \in [Callers -> Goals \cup {None}]
          /\ todo \in [Callers -> SUBSET Goals]
        BY DEF TypeInv, TypeOK
    <2>1. CASE s # t
        <3>1. pc'[s] = pc[s] /\ arg'[s] = arg[s] /\ todo'[s] = todo[s]
            BY <1>2, <2>1, OthersUndisturbed
        <3>2. s \in alone /\ status' = status /\ deps' = deps
            BY <1>2, <2>1 DEF StaysAlone
        <3> QED
            BY <1>2, <3>1, <3>2 DEF Blocking, DependentsOf
    <2>2. CASE s = t /\ pc[t] = "idle"
        <3>1. FailureSnapshot(t)
            BY <1>2, <2>2, <2>t DEF Step, CreateGoal, UpdateGoal, DeleteGoal,
               RemoveDependency, AddDependency, Visit, RefuseDependency,
               InsertDependency, BlockDependents, CompletionSnapshot, CheckDependent,
               UpdateDependent, CommitCompletion, Execute, Executed, DatabaseError
        <3>2. UNCHANGED <<status, deps>>
            BY <3>1 DEF FailureSnapshot
        <3> QED
            BY <2>2, <2>t, <3>1, <3>2 DEF FailureSnapshot, DependentsOf
    <2>3. CASE s = t /\ pc[t] # "idle"
        BY <1>2, <2>3, <2>t DEF Step, CreateGoal, UpdateGoal, DeleteGoal,
           RemoveDependency, AddDependency, Visit, RefuseDependency, InsertDependency,
           FailureSnapshot, BlockDependents, CompletionSnapshot, CheckDependent,
           UpdateDependent, CommitCompletion, Execute, Executed, DatabaseError, Return
    <2> QED BY <2>1, <2>2, <2>3
<1> QED BY <1>1, <1>2 DEF Next, Blocking

\* Unless another thread changes the tables during the call, propagate_failure()
\* touches only dependents of the failed goal, and none that has failed itself.
THEOREM OnlyUnfailedAreBlocked == Spec => FailureSparesFailed
<1>1. Init => Blocking
    BY DEF Init, Blocking
<1>2. TypeInv /\ Blocking /\ [Next]_vars =>
        [\A t \in alone : BlockDependents(t) =>
            \A d \in Goals : status'[d] # status[d] =>
                d \in DependentsOf(arg[t]) /\ status[d] # "failed"]_vars
    BY DEF TypeInv, TypeOK, Blocking, BlockDependents
<1> QED
    BY <1>1, <1>2, TypeInit, TypeStep, BlockingStep, PTL DEF Spec, FailureSparesFailed

-----------------------------------------------------------------------------
(***************************************************************************)
(* execution_order(), on the same two tables.                              *)
(*                                                                         *)
(* NoRepeats needs that a goal enters a list only when its degree falls    *)
(* from 1 to 0, and that no degree rises: Free.  The order and what is     *)
(* left out rest on Counted: while nothing is edited, the degree of a goal *)
(* is the number of its dependency rows whose goal has not been scanned    *)
(* for it yet, deleted and closed dependencies included, and more if a     *)
(* read failed that would have taken one off.                              *)
(***************************************************************************)

\* A list of goals without a repetition.
Sound(s) == s \in Seq(Goals) /\ IsInjective(s)

\* The goals of the two lists, q and r, are all different and have degree 0 or less.
Free(q, r, dg) ==
    /\ Sound(q) /\ Sound(r)
    /\ Range(q) \cap Range(r) = {}
    /\ \A g \in Range(q) \cup Range(r) : dg[g] <= 0

CallTyped ==
    /\ degree \in [Goals -> Int]
    /\ next \in Nat \ {0}
    /\ left \in 0..Edits
    /\ faults \in 0..Faults /\ lost \subseteq Goals
    /\ place \in {"select", "count", "pop", "scan", "done", "failed"}

Stages ==
    /\ Sound(goals)
    /\ left = Edits /\ place \notin {"select", "failed"} => Range(goals) = Open
    /\ place \in {"select", "count", "failed"} => queue = <<>> /\ result = <<>>
    /\ place = "scan" => result # <<>>
    /\ place = "done" => queue = <<>>
    /\ place \in {"select", "count"} => lost = {}

ListsInv == CallTyped /\ Stages /\ Free(queue, result, degree)

-----------------------------------------------------------------------------
(* Lists. *)

LEMMA HeadAndTail ==
    ASSUME NEW s, Sound(s), s # <<>>
    PROVE  /\ Head(s) \in Goals
           /\ Sound(Tail(s))
           /\ Range(s) = Range(Tail(s)) \cup {Head(s)}
           /\ Head(s) \notin Range(Tail(s))
<1> DEFINE t == Tail(s)
<1>1. t \in Seq(Goals) /\ Len(t) = Len(s) - 1 /\ Len(s) >= 1 /\ Head(s) = s[1] /\ Head(s) \in Goals
    BY DEF Sound
<1>2. \A i \in 1..Len(t) : t[i] = s[i + 1]
    BY DEF Sound
<1>3. DOMAIN s = 1..Len(s) /\ DOMAIN t = 1..Len(t) /\ Len(s) \in Nat /\ Len(t) \in Nat
    BY <1>1 DEF Sound
<1> HIDE DEF t
<1>4. IsInjective(t) /\ s[1] \notin Range(t)
  <2>1. \A i, j \in 1..Len(s) : s[i] = s[j] => i = j
    BY <1>3 DEF Sound, IsInjective
  <2>2. \A i \in 1..Len(t) : i + 1 \in 1..Len(s) /\ i + 1 # 1
    BY <1>1, <1>3
  <2>3. 1 \in 1..Len(s)
    BY <1>1, <1>3
  <2>4. IsInjective(t)
    BY <1>2, <1>3, <2>1, <2>2 DEF IsInjective
  <2>5. s[1] \notin Range(t)
    BY <1>2, <1>3, <2>1, <2>2, <2>3 DEF Range
  <2> QED BY <2>4, <2>5
<1>5. \A i \in 2..Len(s) : s[i] = t[i - 1] /\ i - 1 \in 1..Len(t)
    BY <1>1, <1>2, <1>3
<1>6. Range(s) \subseteq Range(t) \cup {s[1]}
    BY <1>1, <1>3, <1>5 DEF Range
<1>7. Range(t) \cup {s[1]} \subseteq Range(s)
    BY <1>1, <1>2, <1>3 DEF Range
<1> QED BY <1>1, <1>4, <1>6, <1>7 DEF Sound, t

LEMMA Appended ==
    ASSUME NEW s, Sound(s), NEW g \in Goals
    PROVE  /\ Range(Append(s, g)) = Range(s) \cup {g}
           /\ Last(Append(s, g)) = g
           /\ Append(s, g) # <<>>
           /\ g \notin Range(s) => Sound(Append(s, g))
<1> DEFINE t == Append(s, g)
<1>1. t \in Seq(Goals) /\ Len(t) = Len(s) + 1 /\ t[Len(t)] = g /\ t # <<>>
    BY DEF Sound
<1>2. \A i \in 1..Len(s) : t[i] = s[i]
    BY DEF Sound
<1>3. DOMAIN s = 1..Len(s) /\ DOMAIN t = 1..Len(t) /\ Len(s) \in Nat
    BY <1>1 DEF Sound
<1> HIDE DEF t
<1>4. Range(t) = Range(s) \cup {g}
    BY <1>1, <1>2, <1>3 DEF Range
<1>5. g \notin Range(s) => IsInjective(t)
    BY <1>1, <1>2, <1>3 DEF Sound, IsInjective, Range
<1> QED BY <1>1, <1>4, <1>5 DEF Sound, t, Last

LEMMA LastOf ==
    ASSUME NEW s, Sound(s), s # <<>>
    PROVE  Last(s) \in Range(s) /\ Range(s) \subseteq Goals
BY DEF Sound, Last, Range

\* A listing of a finite set has every element of it, once.
LEMMA Listings ==
    ASSUME NEW S, IsFiniteSet(S), NEW f \in SetToSeqs(S)
    PROVE  f \in Seq(S) /\ IsInjective(f) /\ Range(f) = S
<1> DEFINE D == 1..Cardinality(S)
<1>1. Cardinality(S) \in Nat
    BY FS_CardinalityType
<1>2. f \in [D -> S] /\ \A i, j \in D : i # j => f[i] # f[j]
    BY DEF SetToSeqs
<1>3. f \in Injection(D, S)
    BY <1>2 DEF Injection, IsInjective
<1>4. Cardinality(D) = Cardinality(S)
    BY <1>1, FS_Interval
<1>5. f \in Surjection(D, S)
    BY <1>3, <1>4, FS_Injection
<1>6. \A x \in S : \E i \in D : f[i] = x
    BY <1>5 DEF Surjection
<1> QED BY <1>1, <1>2, <1>6 DEF IsInjective, Range

\* The first queue: the listed goals with degree 0.
LEMMA ZeroGoals ==
    ASSUME Sound(goals), NEW dg, NEW q \in Zeros(dg)
    PROVE  Sound(q) /\ Range(q) = {g \in Range(goals) : dg[g] = 0}
<1> DEFINE Z == {k \in DOMAIN goals : dg[goals[k]] = 0}
<1>1. PICK at \in SetToSeqs(Z) : q = [i \in DOMAIN at |-> goals[at[i]]]
    BY DEF Zeros
<1>2. IsFiniteSet(Z)
  <2>1. DOMAIN goals = 1..Len(goals) /\ Len(goals) \in Nat
    BY DEF Sound
  <2>2. IsFiniteSet(DOMAIN goals)
    BY <2>1, FS_Interval
  <2> QED BY <2>2, FS_Subset
<1> HIDE DEF Z
<1>3. at \in Seq(Z) /\ IsInjective(at) /\ Range(at) = Z
    BY <1>1, <1>2, Listings
<1>4. \A k \in Z : k \in DOMAIN goals /\ goals[k] \in Goals /\ dg[goals[k]] = 0
    BY DEF Z, Sound
<1>5. \A i \in DOMAIN at : at[i] \in Z
    BY <1>3
<1>6. q \in Seq(Goals)
  <2>1. DOMAIN at = 1..Len(at) /\ Len(at) \in Nat
    BY <1>3
  <2> QED BY <1>1, <1>4, <1>5, <2>1
<1>7. IsInjective(q)
    BY <1>1, <1>3, <1>4, <1>5 DEF IsInjective, Sound
<1>8. \A x : x \in Range(q) <=> \E k \in Z : x = goals[k]
    BY <1>1, <1>3, <1>5 DEF Range
<1>9. Range(q) = {g \in Range(goals) : dg[g] = 0}
    BY <1>8, <1>4 DEF Z, Range
<1> QED BY <1>6, <1>7, <1>9 DEF Sound

-----------------------------------------------------------------------------
(* No goal is listed twice. *)

LEMMA ListsInit == CallInit => ListsInv
<1> SUFFICES ASSUME CallInit PROVE ListsInv
    OBVIOUS
<1> USE DEF CallInit
<1>1. Sound(<<>>) /\ Range(<<>>) = {}
    BY DEF Sound, IsInjective, Range
<1>2. CallTyped
    BY EditsAssumption, FaultsAssumption DEF CallTyped
<1>3. Stages
    BY <1>1 DEF Stages
<1>4. Free(queue, result, degree)
    BY <1>1 DEF Free
<1> QED BY <1>2, <1>3, <1>4 DEF ListsInv

LEMMA RowsFinite ==
    ASSUME NEW S \in SUBSET Goals
    PROVE  IsFiniteSet(S) /\ Cardinality(S) \in Nat
BY GoalsAssumption, FS_Subset, FS_CardinalityType

LEMMA ListsStep ==
    ASSUME ListsInv, [CallNext]_callVars
    PROVE  ListsInv'
<1> CallTyped /\ Stages /\ Free(queue, result, degree)
    BY DEF ListsInv
<1>1. CASE UNCHANGED callVars
    BY <1>1 DEF callVars, tables, failing, CallTyped, Stages, ListsInv, Open
<1>2. CASE SelectGoals
  <2> USE <1>2 DEF SelectGoals, failing
  <2>1. Open \subseteq Goals /\ IsFiniteSet(Open)
      BY GoalsAssumption, FS_Subset DEF Open
  <2>2. goals' \in Seq(Open) /\ IsInjective(goals') /\ Range(goals') = Open
      BY <2>1, Listings
  <2>3. Sound(goals')
      BY <2>1, <2>2 DEF Sound
  <2>4. Open' = Open
      BY DEF Open, tables
  <2>5. Open = {} => Range(<<>>) = Open
      BY DEF Range
  <2>6. Stages'
      BY <2>2, <2>3, <2>4, <2>5 DEF Stages
  <2>7. CallTyped'
      BY DEF CallTyped
  <2> QED BY <2>6, <2>7 DEF ListsInv
<1>3. CASE CountDegrees
  <2> USE <1>3 DEF CountDegrees, failing
  <2>1. degree' \in [Goals -> Int]
    <3>1. \A g \in Goals : DependenciesOf(g) \subseteq Goals
        BY DEF DependenciesOf
    <3>2. \A g \in Goals : Cardinality(DependenciesOf(g)) \in Nat
        BY <3>1, RowsFinite
    <3> QED BY <3>2
  <2>2. Sound(queue') /\ Range(queue') = {g \in Range(goals) : degree'[g] = 0}
      BY ZeroGoals DEF Stages
  <2>3. Range(result') = {} /\ Sound(result')
    <3>1. result' = <<>>
        BY DEF Stages
    <3> QED BY <3>1 DEF Range, Sound, IsInjective
  <2>4. Free(queue', result', degree')
      BY <2>2, <2>3 DEF Free
  <2>5. Open' = Open
      BY DEF Open, tables
  <2>6. Stages'
      BY <2>5 DEF Stages
  <2>7. CallTyped'
      BY <2>1 DEF CallTyped
  <2> QED BY <2>4, <2>6, <2>7 DEF ListsInv
<1>4. CASE Pop
  <2> USE <1>4 DEF Pop, failing
  <2>1. /\ Head(queue) \in Goals
        /\ Sound(queue')
        /\ Range(queue) = Range(queue') \cup {Head(queue)}
        /\ Head(queue) \notin Range(queue')
      BY HeadAndTail DEF Free
  <2>2. /\ Range(result') = Range(result) \cup {Head(queue)}
        /\ result' # <<>>
        /\ Sound(result')
      BY <2>1, Appended DEF Free
  <2>3. Free(queue', result', degree')
      BY <2>1, <2>2 DEF Free
  <2>4. Open' = Open
      BY DEF Open, tables
  <2>5. Stages'
      BY <2>2, <2>4 DEF Stages
  <2>6. CallTyped'
      BY DEF CallTyped
  <2> QED BY <2>3, <2>5, <2>6 DEF ListsInv
<1>5. CASE ReturnOrder \/ Scanned
  <2> USE <1>5 DEF ReturnOrder, Scanned, failing
  <2>1. UNCHANGED <<tables, goals, degree, queue, result, next>>
      OBVIOUS
  <2>2. Open' = Open
      BY <2>1 DEF Open, tables
  <2>3. Stages'
      BY <2>1, <2>2 DEF Stages
  <2>4. CallTyped'
      BY <2>1 DEF CallTyped
  <2> QED BY <2>1, <2>3, <2>4 DEF ListsInv
<1>7. CASE Edit
  <2>1. /\ UNCHANGED <<goals, degree, queue, result, next, place, faults, lost>>
        /\ left > 0 /\ left' = left - 1
      BY <1>7 DEF Edit, failing
  <2>2. left' \in 0..Edits /\ left' # Edits
      BY <2>1, EditsAssumption DEF CallTyped
  <2>3. Stages'
      BY <2>1, <2>2 DEF Stages
  <2>4. CallTyped'
      BY <2>1, <2>2 DEF CallTyped
  <2> QED BY <2>1, <2>3, <2>4 DEF ListsInv
<1>6. CASE Scan
  <2> DEFINE g == goals[next]
  <2>1. g \in Goals
      BY <1>6 DEF Scan, Stages, CallTyped, Sound
  <2>2. UNCHANGED <<tables, goals, result, place, left, faults, lost>> /\ next' = next + 1
      BY <1>6 DEF Scan, failing
  <2>3. Open' = Open
      BY <2>2 DEF Open, tables
  <2>4. \/ UNCHANGED <<degree, queue>>
        \/ /\ degree' = [degree EXCEPT ![g] = @ - 1]
           /\ queue' = IF degree[g] = 1 THEN Append(queue, g) ELSE queue
      BY <1>6 DEF Scan
  <2>5. place = "scan"
      BY <1>6 DEF Scan
  <2> HIDE DEF g
  <2>6. CallTyped'
      BY <2>1, <2>2, <2>4 DEF CallTyped
  <2>7. Stages'
      BY <2>2, <2>3, <2>5 DEF Stages
  <2>8. Range(queue) \subseteq Goals /\ Range(result) \subseteq Goals
      BY DEF Free, Sound, Range
  <2>9. CASE UNCHANGED <<degree, queue>>
      BY <2>2, <2>6, <2>7, <2>9 DEF ListsInv
  <2>10. CASE /\ degree' = [degree EXCEPT ![g] = @ - 1]
              /\ queue' = IF degree[g] = 1 THEN Append(queue, g) ELSE queue
    <3>1. degree'[g] = degree[g] - 1 /\ \A h \in Goals \ {g} : degree'[h] = degree[h]
        BY <2>1, <2>10 DEF CallTyped
    <3>2. degree[g] \in Int
        BY <2>1 DEF CallTyped
    <3>3. CASE degree[g] = 1
      <4>1. g \notin Range(queue) \cup Range(result)
          BY <3>3 DEF Free
      <4>2. Sound(queue') /\ Range(queue') = Range(queue) \cup {g}
          BY <2>1, <2>10, <3>3, <4>1, Appended DEF Free
      <4>3. \A h \in Range(queue') \cup Range(result) : degree'[h] <= 0
          BY <2>8, <3>1, <3>3, <4>2 DEF Free
      <4>4. Free(queue', result', degree')
          BY <2>2, <4>1, <4>2, <4>3 DEF Free
      <4> QED BY <2>6, <2>7, <4>4 DEF ListsInv
    <3>4. CASE degree[g] # 1
      <4>1. \A h \in Range(queue) \cup Range(result) : degree'[h] <= 0
          BY <2>8, <3>1, <3>2 DEF Free
      <4>2. Free(queue', result', degree')
          BY <2>2, <2>10, <3>4, <4>1 DEF Free
      <4> QED BY <2>6, <2>7, <4>2 DEF ListsInv
    <3> QED BY <3>3, <3>4
  <2> QED BY <2>4, <2>9, <2>10
<1>8. CASE OrderFails \/ ScanFails
  <2>1. /\ UNCHANGED <<tables, goals, degree, queue, result, left>>
        /\ next' \in {next, next + 1}
        /\ \/ place \in {"select", "count"} /\ place' = "failed" /\ lost' = lost
           \/ place = "scan" /\ place' = "scan"
      BY <1>8 DEF OrderFails, ScanFails
  <2>2. faults' \in 0..Faults
      BY <1>8, FaultsAssumption DEF OrderFails, ScanFails, CallTyped
  <2>3. lost' \subseteq Goals
    <3>1. ScanFails => goals[next] \in Goals
        BY DEF ScanFails, Stages, CallTyped, Sound
    <3> QED BY <1>8, <3>1 DEF OrderFails, ScanFails, CallTyped
  <2>4. Open' = Open
      BY <2>1 DEF Open, tables
  <2>5. Stages'
      BY <2>1, <2>4 DEF Stages
  <2>6. CallTyped'
      BY <2>1, <2>2, <2>3 DEF CallTyped
  <2> QED BY <2>1, <2>5, <2>6 DEF ListsInv
<1> QED BY <1>1, <1>2, <1>3, <1>4, <1>5, <1>6, <1>7, <1>8 DEF CallNext, Call

\* execution_order() lists no goal twice, whatever other threads add and remove
\* between its reads, and whichever of them fail.
THEOREM NothingListedTwice ==
    ASSUME Edits \in Nat
    PROVE  CallSpec => []NoRepeats
<1>1. ListsInv => NoRepeats
    BY DEF ListsInv, Free, Sound, NoRepeats
<1> QED BY <1>1, ListsInit, ListsStep, PTL DEF CallSpec

-----------------------------------------------------------------------------
(* The order. *)

\* Goals whose dependencies are still to be read for the goal popped last.
Unscanned == IF place = "scan" THEN {goals[k] : k \in next..Len(goals)} ELSE {}

\* Results that have been taken off the degree of g.
Seen(g) ==
    IF g \in Unscanned THEN Range(result) \ {Last(result)} ELSE Range(result)

\* The degree of g is the number of its dependencies that have not been taken off it,
\* or greater when a read failed that would have taken one off.
DegreeOf(g) ==
    LET rest == Cardinality(DependenciesOf(g) \ Seen(g))
    IN  IF g \in lost THEN degree[g] > rest ELSE degree[g] = rest

Counted ==
    left = Edits /\ place \in {"pop", "scan", "done"} =>
        /\ \A g \in Open : DegreeOf(g)
        /\ Range(queue) \cup Range(result) = {g \in Open : degree[g] = 0}

CountInv == ListsInv /\ Counted /\ OrderRespectsDependencies

LEMMA CountInit == CallInit => CountInv
<1> SUFFICES ASSUME CallInit PROVE CountInv
    OBVIOUS
<1>1. ListsInv
    BY ListsInit
<1>2. Counted
    BY DEF CallInit, Counted
<1>3. OrderRespectsDependencies
    BY DEF CallInit, OrderRespectsDependencies
<1> QED BY <1>1, <1>2, <1>3 DEF CountInv

LEMMA OneFewer ==
    ASSUME NEW S \in SUBSET Goals, NEW x \in S
    PROVE  Cardinality(S \ {x}) = Cardinality(S) - 1
BY GoalsAssumption, FS_Subset, FS_RemoveElement

LEMMA NoneLeft ==
    ASSUME NEW S \in SUBSET Goals
    PROVE  Cardinality(S) = 0 <=> S = {}
BY GoalsAssumption, FS_Subset, FS_EmptySet

\* While nothing is edited, the goals whose dependencies are all in the result and
\* of which no read failed are those of the two lists.
LEMMA FreeGoals ==
    ASSUME ListsInv, Counted, left = Edits, place \in {"pop", "done"},
           NEW g \in Open
    PROVE  g \in Range(queue) \cup Range(result)
             <=> DependenciesOf(g) \subseteq Range(result) /\ g \notin lost
<1> DEFINE D == DependenciesOf(g) \ Range(result)
<1>1. IF g \in lost THEN degree[g] > Cardinality(D) ELSE degree[g] = Cardinality(D)
    BY DEF Counted, DegreeOf, Seen, Unscanned
<1>2. D \in SUBSET Goals
    BY DEF DependenciesOf
<1>3. Cardinality(D) \in Nat /\ (Cardinality(D) = 0 <=> D = {})
    BY <1>2, NoneLeft, RowsFinite
<1>4. degree[g] \in Int
    BY DEF ListsInv, CallTyped, Open
<1>5. degree[g] = 0 <=> D = {} /\ g \notin lost
  <2> HIDE DEF D
  <2> QED BY <1>1, <1>3, <1>4
<1>6. g \in Range(queue) \cup Range(result) <=> degree[g] = 0
    BY DEF Counted
<1> QED BY <1>5, <1>6

LEMMA OrderStep ==
    ASSUME CountInv, [CallNext]_callVars
    PROVE  OrderRespectsDependencies'
<1> USE DEF OrderRespectsDependencies
<1> ListsInv /\ Counted /\ OrderRespectsDependencies
    BY DEF CountInv
<1>1. CASE UNCHANGED <<left, result, deps>>
    BY <1>1
<1>2. CASE Edit
  <2>1. left' # Edits
      BY <1>2, EditsAssumption DEF Edit, ListsInv, CallTyped
  <2> QED BY <2>1
<1>3. CASE Pop
  <2> SUFFICES ASSUME left = Edits,
                      NEW i \in 1..Len(result'), NEW j \in 1..Len(result'),
                      <<result'[i], result'[j]>> \in deps
               PROVE  j < i
      BY <1>3 DEF Pop, tables
  <2> DEFINE h == Head(queue)
             n == Len(result)
  <2>1. result' = Append(result, h) /\ place = "pop" /\ queue # <<>>
      BY <1>3 DEF Pop
  <2>2. h \in Goals /\ h \in Range(queue)
      BY <2>1, HeadAndTail DEF ListsInv, Free
  <2> HIDE DEF h
  <2>3. /\ result \in Seq(Goals) /\ n \in Nat /\ Len(result') = n + 1
        /\ result'[n + 1] = h
        /\ \A k \in 1..n : result'[k] = result[k]
      BY <2>1, <2>2 DEF ListsInv, Free, Sound
  <2> HIDE DEF n
  <2>4. \A k \in 1..n : result[k] \in Range(result) /\ result[k] \in Goals
      BY <2>3 DEF Range, n
  <2>5. h \notin Range(result)
      BY <2>2 DEF ListsInv, Free
  <2>6. result'[i] \in Range(queue) \cup Range(result) /\ result'[i] \in Goals
        /\ result'[j] \in Goals
      BY <2>2, <2>3, <2>4
  <2>7. result'[i] \in Open
      BY <2>1, <2>6 DEF Counted
  <2>8. result'[j] \in DependenciesOf(result'[i])
      BY <2>6 DEF DependenciesOf
  <2>9. result'[j] \in Range(result)
      BY <2>1, <2>6, <2>7, <2>8, FreeGoals
  <2>10. j # n + 1
      BY <2>3, <2>5, <2>9
  <2>11. j \in 1..n
      BY <2>3, <2>10
  <2>12. CASE i = n + 1
      BY <2>3, <2>11, <2>12
  <2>13. CASE i \in 1..n
      BY <2>3, <2>11, <2>13 DEF n
  <2> QED BY <2>3, <2>12, <2>13
<1> QED BY <1>1, <1>2, <1>3
      DEF CallNext, Call, callVars, tables, SelectGoals, CountDegrees, OrderFails, ReturnOrder,
          Scan, ScanFails, Scanned

LEMMA CountedStep ==
    ASSUME CountInv, ListsInv', [CallNext]_callVars
    PROVE  Counted'
<1> ListsInv /\ Counted
    BY DEF CountInv
<1> SUFFICES ASSUME left' = Edits, place' \in {"pop", "scan", "done"}
             PROVE  /\ \A h \in Open' : DegreeOf(h)'
                    /\ Range(queue') \cup Range(result')
                         = {h \in Open' : degree'[h] = 0}
    BY DEF Counted
<1>0. ASSUME UNCHANGED <<tables>>
      PROVE  Open' = Open /\ \A h : DependenciesOf(h)' = DependenciesOf(h)
    BY <1>0 DEF Open, DependenciesOf, tables
<1>1. CASE UNCHANGED callVars
  <2>1. UNCHANGED <<tables, goals, degree, queue, result, next, place, left, lost>>
      BY <1>1 DEF callVars, tables
  <2>2. \A h : Seen(h)' = Seen(h)
      BY <2>1 DEF Seen, Unscanned
  <2> QED BY <1>0, <2>1, <2>2 DEF Counted, DegreeOf
<1>2. CASE SelectGoals
  <2>1. place' = "done" /\ Open = {} /\ UNCHANGED <<tables, queue, result>>
        /\ queue = <<>> /\ result = <<>>
      BY <1>2 DEF SelectGoals, ListsInv, Stages
  <2>2. Range(<<>>) = {}
      BY DEF Range
  <2> QED BY <1>0, <2>1, <2>2
<1>3. CASE CountDegrees
  <2>1. /\ UNCHANGED <<tables, result>> /\ place' = "pop" /\ result' = <<>> /\ lost' = {}
        /\ degree' = [g \in Goals |-> IF g \in Range(goals) THEN Cardinality(DependenciesOf(g)) ELSE 0]
        /\ queue' \in Zeros(degree')
        /\ Sound(goals) /\ Range(goals) = Open
      BY <1>3 DEF CountDegrees, failing, ListsInv, Stages
  <2>2. Range(<<>>) = {}
      BY DEF Range
  <2>3. \A h : Seen(h)' = {}
      BY <2>1, <2>2 DEF Seen, Unscanned
  <2>4. \A h \in Open : h \in Goals /\ degree'[h] = Cardinality(DependenciesOf(h))
      BY <2>1 DEF Open
  <2>5. Range(queue') = {g \in Open : degree'[g] = 0}
      BY <2>1, ZeroGoals
  <2> QED BY <1>0, <2>1, <2>2, <2>3, <2>4, <2>5 DEF DegreeOf
<1>4. CASE Pop
  <2>1. /\ UNCHANGED <<tables, goals, degree, left, lost>>
        /\ place = "pop" /\ place' = "scan" /\ next' = 1
        /\ queue # <<>> /\ queue' = Tail(queue) /\ result' = Append(result, Head(queue))
      BY <1>4 DEF Pop, failing
  <2>2. /\ Head(queue) \in Goals
        /\ Range(queue) = Range(queue') \cup {Head(queue)}
        /\ Head(queue) \in Range(queue)
      BY <2>1, HeadAndTail DEF ListsInv, Free
  <2>3. /\ Range(result') = Range(result) \cup {Head(queue)}
        /\ Last(result') = Head(queue)
        /\ Head(queue) \notin Range(result)
      BY <2>1, <2>2, Appended DEF ListsInv, Free
  <2>4. Unscanned' = Range(goals)
    <3>1. DOMAIN goals = 1..Len(goals)
        BY DEF ListsInv, Stages, Sound
    <3> QED BY <2>1, <3>1 DEF Unscanned, Range
  <2>5. Range(goals) = Open
      BY <2>1 DEF ListsInv, Stages
  <2>6. \A h \in Open : Seen(h)' = Seen(h)
      BY <2>1, <2>3, <2>4, <2>5 DEF Seen, Unscanned
  <2> QED BY <1>0, <2>1, <2>2, <2>3, <2>6 DEF Counted, DegreeOf
<1>5. CASE ReturnOrder \/ Scanned
  <2>1. /\ UNCHANGED <<tables, goals, degree, queue, result, next, left, lost>>
        /\ place \in {"pop", "scan"} /\ place' # "scan"
        /\ place = "scan" => next > Len(goals)
      BY <1>5 DEF ReturnOrder, Scanned, failing
  <2>2. place = "scan" => Unscanned = {}
      BY <2>1 DEF Unscanned, ListsInv, CallTyped, Stages, Sound
  <2>3. \A h : Seen(h)' = Seen(h)
      BY <2>1, <2>2 DEF Seen, Unscanned
  <2> QED BY <1>0, <2>1, <2>3 DEF Counted, DegreeOf
<1>6. CASE Scan \/ ScanFails
  <2> DEFINE c == Last(result)
  <2>0. PICK g : g = goals[next]
      OBVIOUS
  <2>1. /\ UNCHANGED <<tables, goals, result, place, left>>
        /\ next' = next + 1 /\ place = "scan" /\ next \in 1..Len(goals)
      BY <1>6 DEF Scan, ScanFails, ListsInv, CallTyped
  <2>2. g \in Open /\ g \in Goals
    <3>1. goals[next] \in Range(goals)
        BY <2>1 DEF Range, ListsInv, Stages, Sound
    <3> QED BY <2>0, <2>1, <3>1 DEF ListsInv, Stages, Open
  <2>3. c \in Range(result) /\ c \in Goals
      BY <2>1, LastOf DEF ListsInv, Stages, Free
  <2>4. c \in Open
      BY <2>1, <2>3 DEF Counted
  <2>5. c \in Dependencies(g) <=> c \in DependenciesOf(g)
      BY <2>4 DEF Dependencies, Open
  <2>6. g \in Unscanned /\ g \notin Unscanned' /\ \A h : h # g => (h \in Unscanned' <=> h \in Unscanned)
    <3>1. Unscanned = {goals[k] : k \in next..Len(goals)}
          /\ Unscanned' = {goals[k] : k \in (next + 1)..Len(goals)}
        BY <2>1 DEF Unscanned
    <3>2. next \in Nat /\ Len(goals) \in Nat
          /\ \A k, l \in 1..Len(goals) : goals[k] = goals[l] => k = l
        BY <2>1 DEF ListsInv, CallTyped, Stages, Sound, IsInjective
    <3>3. next..Len(goals) = {next} \cup ((next + 1)..Len(goals))
        BY <2>1, <3>2
    <3>4. \A k \in (next + 1)..Len(goals) : k \in 1..Len(goals) /\ k # next
        BY <2>1, <3>2
    <3> QED BY <2>0, <2>1, <3>1, <3>2, <3>3, <3>4
  <2>7. Seen(g) = Range(result) \ {c} /\ Seen(g)' = Range(result)
        /\ \A h : h # g => Seen(h)' = Seen(h)
      BY <2>1, <2>6 DEF Seen
  <2> DEFINE N(h) == Cardinality(DependenciesOf(h) \ Seen(h))
             M == Cardinality(DependenciesOf(g) \ Range(result))
  <2>8. \A h \in Open : /\ h \in Goals /\ degree[h] \in Int /\ N(h) \in Nat
                       /\ IF h \in lost THEN degree[h] > N(h) ELSE degree[h] = N(h)
    <3>1. \A h \in Open : h \in Goals /\ degree[h] \in Int
        BY DEF Open, ListsInv, CallTyped
    <3>2. \A h \in Open : DependenciesOf(h) \ Seen(h) \in SUBSET Goals
        BY DEF DependenciesOf
    <3>3. \A h \in Open : N(h) \in Nat
        BY <3>2, RowsFinite
    <3> QED BY <2>1, <3>1, <3>3 DEF Counted, DegreeOf
  <2>9. Range(queue) \cup Range(result) = {h \in Open : degree[h] = 0}
      BY <2>1 DEF Counted
  <2>10. /\ c \notin DependenciesOf(g) => M = N(g)
         /\ c \in DependenciesOf(g) => M = N(g) - 1 /\ N(g) > 0
    <3>1. CASE c \notin DependenciesOf(g)
      <4>1. DependenciesOf(g) \ Range(result) = DependenciesOf(g) \ Seen(g)
          BY <2>7, <3>1
      <4> QED BY <3>1, <4>1
    <3>2. CASE c \in DependenciesOf(g)
      <4>1. DependenciesOf(g) \ Range(result) = (DependenciesOf(g) \ Seen(g)) \ {c}
          BY <2>3, <2>7
      <4>2. DependenciesOf(g) \ Seen(g) \in SUBSET Goals /\ c \in DependenciesOf(g) \ Seen(g)
          BY <2>3, <2>7, <3>2 DEF DependenciesOf
      <4>3. M = N(g) - 1
          BY <4>1, <4>2, OneFewer
      <4>4. N(g) # 0
          BY <4>2, NoneLeft
      <4> QED BY <2>2, <2>8, <3>2, <4>3, <4>4
    <3> QED BY <3>1, <3>2
  <2>11. ASSUME \A h \in Open \ {g} : degree'[h] = degree[h] /\ (h \in lost' <=> h \in lost),
                IF g \in lost' THEN degree'[g] > M ELSE degree'[g] = M
         PROVE  \A h \in Open : DegreeOf(h)'
    <3>1. DegreeOf(g)'
        BY <1>0, <2>1, <2>7, <2>11 DEF DegreeOf
    <3>2. ASSUME NEW h \in Open \ {g} PROVE DegreeOf(h)'
        BY <1>0, <2>1, <2>7, <2>8, <2>11 DEF DegreeOf
    <3> QED BY <3>1, <3>2
  <2> HIDE DEF N, M, c
  <2>12. CASE Scan /\ c \in DependenciesOf(g)
    <3>1. /\ degree' = [degree EXCEPT ![g] = @ - 1]
          /\ queue' = IF degree[g] = 1 THEN Append(queue, g) ELSE queue
          /\ lost' = lost
        BY <2>0, <2>5, <2>12 DEF Scan, failing, c
    <3>2. degree'[g] = degree[g] - 1 /\ \A h \in Open \ {g} : degree'[h] = degree[h]
        BY <2>2, <2>8, <3>1 DEF ListsInv, CallTyped
    <3>3. degree[g] # 0 /\ (degree'[g] = 0 <=> degree[g] = 1)
        BY <2>2, <2>8, <2>10, <2>12, <3>2
    <3>4. IF g \in lost THEN degree'[g] > M ELSE degree'[g] = M
        BY <2>2, <2>8, <2>10, <2>12, <3>2
    <3>5. Range(queue') = IF degree[g] = 1 THEN Range(queue) \cup {g} ELSE Range(queue)
        BY <2>2, <3>1, Appended DEF ListsInv, Free
    <3>6. Range(queue') \cup Range(result) = {h \in Open : degree'[h] = 0}
        BY <2>2, <2>9, <3>2, <3>3, <3>5
    <3>7. \A h \in Open : DegreeOf(h)'
        BY <2>11, <3>1, <3>2, <3>4
    <3> QED BY <1>0, <2>1, <3>6, <3>7
  <2>13. CASE Scan /\ c \notin DependenciesOf(g)
    <3>1. UNCHANGED <<degree, queue, lost>>
        BY <2>0, <2>5, <2>13 DEF Scan, failing, c
    <3>2. IF g \in lost THEN degree[g] > M ELSE degree[g] = M
        BY <2>2, <2>8, <2>10, <2>13
    <3>3. \A h \in Open : DegreeOf(h)'
        BY <2>11, <3>1, <3>2
    <3> QED BY <1>0, <2>1, <2>9, <3>1, <3>3
  <2>14. CASE ScanFails
    <3>1. /\ UNCHANGED <<degree, queue>>
          /\ lost' = lost \cup {x \in {g} : c \in Dependencies(x)}
        BY <2>0, <2>14 DEF ScanFails, c
    <3>2. \A h \in Open \ {g} : h \in lost' <=> h \in lost
        BY <3>1
    <3>3. g \in lost' <=> g \in lost \/ c \in DependenciesOf(g)
        BY <2>5, <3>1
    <3>4. IF g \in lost' THEN degree[g] > M ELSE degree[g] = M
        BY <2>2, <2>8, <2>10, <3>3
    <3>5. \A h \in Open : DegreeOf(h)'
        BY <2>11, <3>1, <3>2, <3>4
    <3> QED BY <1>0, <2>1, <2>9, <3>1, <3>5
  <2> QED BY <1>6, <2>12, <2>13, <2>14
<1>7. CASE Edit
  <2>1. left' # Edits
      BY <1>7, EditsAssumption DEF Edit, ListsInv, CallTyped
  <2> QED BY <2>1
<1>8. CASE OrderFails
    BY <1>8 DEF OrderFails
<1> QED BY <1>1, <1>2, <1>3, <1>4, <1>5, <1>6, <1>7, <1>8 DEF CallNext, Call

LEMMA CountStep ==
    ASSUME CountInv, [CallNext]_callVars
    PROVE  CountInv'
<1>1. ListsInv'
    BY ListsStep DEF CountInv
<1>2. Counted'
    BY <1>1, CountedStep
<1>3. OrderRespectsDependencies'
    BY OrderStep
<1> QED BY <1>1, <1>2, <1>3 DEF CountInv

\* Dependencies come first in the order, if nothing is edited during the call.  The
\* dependencies need not be free of cycles for that, and any reads may fail.
THEOREM OrderIsTopological ==
    ASSUME Edits \in Nat
    PROVE  CallSpec => []OrderRespectsDependencies
<1>1. CountInv => OrderRespectsDependencies
    BY DEF CountInv
<1> QED BY <1>1, CountInit, CountStep, PTL DEF CallSpec

\* ... and every open goal whose dependencies are in the order is in it, unless a read
\* failed that would have counted off one of them.
THEOREM OrderIsComplete ==
    ASSUME Edits \in Nat
    PROVE  CallSpec => []OrderIsOpenPart
<1>1. CountInv => OrderIsOpenPart
  <2> SUFFICES ASSUME CountInv, place = "done", left = Edits, NEW g \in Open
               PROVE  g \in Range(result)
                        <=> DependenciesOf(g) \subseteq Range(result) /\ g \notin lost
      BY DEF OrderIsOpenPart
  <2>1. queue = <<>> /\ Range(<<>>) = {}
      BY DEF CountInv, ListsInv, Stages, Range
  <2> QED BY <2>1, FreeGoals DEF CountInv
<1> QED BY <1>1, CountInit, CountStep, PTL DEF CallSpec

\* An execution order has every open goal, if no open goal depends on a goal that is
\* closed or deleted, nothing is edited during the call, its first two reads succeed
\* (place), and no later read fails that would count a dependency off (lost).  It is the
\* only theorem about the call that uses that the dependencies form no cycle (CallInit).
THEOREM OrderIsWhole ==
    CallSpec => [](place = "done" /\ left = Edits /\ lost = {}
                        /\ (\A g \in Open : DependenciesOf(g) \subseteq Open)
                   => Range(result) = Open)
<1> DEFINE Whole == place = "done" /\ left = Edits /\ lost = {}
                        /\ (\A g \in Open : DependenciesOf(g) \subseteq Open)
                    => Range(result) = Open
<1>1. CallInit => CycleFree(deps)
    BY DEF CallInit
<1>2. CycleFree(deps) /\ [CallNext]_callVars => CycleFree(deps)'
  <2> SUFFICES ASSUME CycleFree(deps), [CallNext]_callVars PROVE CycleFree(deps')
      OBVIOUS
  <2>1. deps' = deps \/ CycleFree(deps')
      BY DEF CallNext, Call, callVars, tables, SelectGoals, CountDegrees, OrderFails, Pop, ReturnOrder,
             Scan, ScanFails, Scanned, Edit
  <2> QED BY <2>1
<1>3. CountInv /\ CycleFree(deps) => Whole
  <2> SUFFICES ASSUME CountInv, CycleFree(deps), place = "done", left = Edits, lost = {},
                      \A g \in Open : DependenciesOf(g) \subseteq Open
               PROVE  Range(result) = Open
      OBVIOUS
  <2>1. queue = <<>> /\ Range(<<>>) = {}
      BY DEF CountInv, ListsInv, Stages, Range
  <2>2. Range(result) \subseteq Open
      BY DEF CountInv, Counted
  <2>3. \A g \in Open : g \in Range(result) <=> DependenciesOf(g) \subseteq Range(result)
      BY <2>1, FreeGoals DEF CountInv
  <2> DEFINE S == Open \ Range(result)
  <2>4. S \in SUBSET Goals
      BY DEF Open
  <2>5. CASE S # {}
    <3>1. PICK g \in S : \A d \in S : <<g, d>> \notin deps
        BY <2>4, <2>5 DEF CycleFree
    <3>2. DependenciesOf(g) \cap S = {}
        BY <3>1 DEF DependenciesOf
    <3>3. DependenciesOf(g) \subseteq Range(result)
        BY <3>2
    <3> QED BY <2>3, <3>3
  <2> QED BY <2>2, <2>5
<1> HIDE DEF Whole
<1>4. CallSpec => []Whole
    BY <1>1, <1>2, <1>3, CountInit, CountStep, PTL DEF CallSpec
<1> QED BY <1>4 DEF Whole

-----------------------------------------------------------------------------
(* The calls end. *)

\* The steps that the call still has to make, at most: a round for each goal that is
\* not in the result, of a read per listed goal.
Count == Cardinality(Goals)
StepsLeft ==
    IF Ended THEN 0
    ELSE 1 + (Count - Len(result)) * (Count + 3)
           + (IF place = "select" THEN 2
              ELSE IF place = "count" THEN 1
              ELSE IF place = "scan" THEN Count + 2 - next ELSE 0)

\* What other threads edit does not make the call longer, and each of its own steps
\* brings it closer to its end.
OrderStepsRunOut ==
    [][/\ StepsLeft' <= StepsLeft
       /\ Call => StepsLeft' < StepsLeft]_callVars

ScanInv == ListsInv /\ (place = "scan" => next <= Len(goals) + 1)

LEMMA SoundLength ==
    ASSUME NEW s, Sound(s)
    PROVE  Len(s) \in 0..Count /\ Count \in Nat
<1>1. IsFiniteSet(Goals) /\ Count \in Nat
    BY GoalsAssumption, FS_CardinalityType DEF Count
<1>2. s \in [1..Len(s) -> Goals] /\ Len(s) \in Nat
    BY DEF Sound
<1>3. s \in Injection(1..Len(s), Goals)
    BY <1>2 DEF Sound, Injection, IsInjective
<1>4. Cardinality(1..Len(s)) = Len(s)
  <2>1. Len(s) \in Int /\ 1 \in Int /\ Len(s) >= 0
      BY <1>2
  <2> DEFINE n == Len(s)
  <2>2. n \in Int /\ n >= 0
      BY <2>1
  <2> HIDE DEF n
  <2>3. Cardinality(1..n) = IF 1 > n THEN 0 ELSE n - 1 + 1
      BY <2>2, FS_Interval
  <2>4. Cardinality(1..n) = n
      BY <2>2, <2>3
  <2> QED BY <2>4 DEF n
<1>5. Len(s) <= Count
    BY <1>1, <1>3, <1>4, FS_Injection DEF Count
<1> QED BY <1>1, <1>2, <1>5

LEMMA OneRound ==
    ASSUME NEW c \in Nat, NEW r \in 0..c
    PROVE  /\ (c - r) * (c + 3) \in 0..(c * (c + 3))
           /\ (c - (r + 1)) * (c + 3) = (c - r) * (c + 3) - (c + 3)
<1>1. (c - r) * (c + 3) = c * (c + 3) - r * (c + 3) /\ r * (c + 3) >= 0
    OBVIOUS
<1>2. (c - r) * (c + 3) >= 0
    OBVIOUS
<1>3. (c - (r + 1)) * (c + 3) = (c - r) * (c + 3) - (c + 3)
    OBVIOUS
<1> QED BY <1>1, <1>2, <1>3

LEMMA ScanInit == CallInit => ScanInv
BY ListsInit DEF CallInit, ScanInv

LEMMA ScanStep ==
    ASSUME ScanInv, [CallNext]_callVars
    PROVE  ScanInv'
<1>1. ListsInv'
    BY ListsStep DEF ScanInv
<1>2. Len(goals) \in Nat /\ next \in Nat
    BY DEF ScanInv, ListsInv, Stages, Sound, CallTyped
<1>3. place' = "scan" => next' <= Len(goals') + 1
    BY <1>2 DEF ScanInv, CallNext, Call, callVars, tables, SelectGoals, CountDegrees, OrderFails, Pop,
                ReturnOrder, Scan, ScanFails, Scanned, Edit
<1> QED BY <1>1, <1>3 DEF ScanInv

LEMMA StepsBounded == ScanInv => StepsLeft \in 0..(Count * (Count + 3) + Count + 3)
<1> SUFFICES ASSUME ScanInv PROVE StepsLeft \in 0..(Count * (Count + 3) + Count + 3)
    OBVIOUS
<1>1. /\ Len(result) \in 0..Count /\ Len(goals) \in 0..Count /\ Count \in Nat
      /\ next \in Nat \ {0} /\ (place = "scan" => next <= Len(goals) + 1)
    BY SoundLength DEF ScanInv, ListsInv, CallTyped, Stages, Free
<1>2. (Count - Len(result)) * (Count + 3) \in 0..(Count * (Count + 3))
    BY <1>1, OneRound
<1> DEFINE m == (Count - Len(result)) * (Count + 3)
           b == Count * (Count + 3)
<1>3. m \in 0..b /\ b \in Nat
    BY <1>1, <1>2
<1>4. StepsLeft = IF place \in {"done", "failed"} THEN 0
                  ELSE 1 + m + (IF place = "select" THEN 2
                                ELSE IF place = "count" THEN 1
                                ELSE IF place = "scan" THEN Count + 2 - next ELSE 0)
    BY DEF StepsLeft, Ended
<1> HIDE DEF m
<1>5. b = Count * (Count + 3)
    OBVIOUS
<1> HIDE DEF b
<1>6. CASE Count = 0
    BY <1>1, <1>3, <1>4, <1>5, <1>6
<1>7. CASE Count > 0
    BY <1>1, <1>3, <1>4, <1>5, <1>7
<1> QED BY <1>1, <1>6, <1>7

LEMMA OrderRunsOut ==
    ASSUME ScanInv, ScanInv', [CallNext]_callVars
    PROVE  /\ StepsLeft' <= StepsLeft
           /\ Call => StepsLeft' < StepsLeft
<1>1. /\ Len(result) \in 0..Count /\ Len(result') \in 0..Count
      /\ Len(goals) \in 0..Count /\ Len(goals') \in 0..Count /\ Count \in Nat
      /\ next \in Nat \ {0} /\ (place = "scan" => next <= Len(goals) + 1)
      /\ next' \in Nat \ {0} /\ (place' = "scan" => next' <= Len(goals') + 1)
    BY SoundLength DEF ScanInv, ListsInv, CallTyped, Stages, Free
<1> DEFINE m == (Count - Len(result)) * (Count + 3)
           k == (Count - Len(result')) * (Count + 3)
<1>2. m \in Nat /\ k \in Nat
    BY <1>1, OneRound
<1>3. /\ StepsLeft = IF place \in {"done", "failed"} THEN 0
                     ELSE 1 + m + (IF place = "select" THEN 2
                                   ELSE IF place = "count" THEN 1
                                   ELSE IF place = "scan" THEN Count + 2 - next ELSE 0)
      /\ StepsLeft' = IF place' \in {"done", "failed"} THEN 0
                      ELSE 1 + k + (IF place' = "select" THEN 2
                                    ELSE IF place' = "count" THEN 1
                                    ELSE IF place' = "scan" THEN Count + 2 - next' ELSE 0)
    BY DEF StepsLeft, Ended
<1>4. result' = result => k = m
    OBVIOUS
<1> HIDE DEF m, k
<1>5. StepsLeft \in Nat /\ StepsLeft' \in Nat
  <2>1. (place = "scan" => Count + 2 - next \in Nat) /\ (place' = "scan" => Count + 2 - next' \in Nat)
    <3>1. ASSUME NEW i \in Nat, NEW l \in 0..Count, i <= l + 1 PROVE Count + 2 - i \in Nat
        BY <1>1, <3>1
    <3>2. place = "scan" => Count + 2 - next \in Nat
        BY <1>1, <3>1
    <3>3. place' = "scan" => Count + 2 - next' \in Nat
        BY <1>1, <3>1
    <3> QED BY <3>2, <3>3
  <2>2. ASSUME NEW a \in Nat, NEW b \in Nat PROVE 1 + a + b \in Nat
      BY <2>2
  <2>3. StepsLeft \in Nat
      BY <1>2, <1>3, <2>1, <2>2
  <2>4. StepsLeft' \in Nat
      BY <1>2, <1>3, <2>1, <2>2
  <2> QED BY <2>3, <2>4
<1>6. ASSUME SelectGoals \/ CountDegrees \/ OrderFails \/ ReturnOrder \/ Scanned
      PROVE  StepsLeft' < StepsLeft
  <2>1. /\ result' = result
        /\ \/ place = "select" /\ place' \in {"done", "failed", "count"}
           \/ place = "count" /\ place' \in {"pop", "failed"}
           \/ place = "pop" /\ place' = "done"
           \/ place = "scan" /\ place' = "pop"
      BY <1>6 DEF SelectGoals, CountDegrees, OrderFails, ReturnOrder, Scanned
  <2>2. k = m
      BY <1>4, <2>1
  <2>3. CASE place = "select"
    <3>1. StepsLeft = 1 + m + 2 /\ (StepsLeft' = 0 \/ StepsLeft' = 1 + k + 1)
        BY <1>3, <2>1, <2>3
    <3> QED BY <1>2, <2>2, <3>1
  <2>4. CASE place = "count"
    <3>1. StepsLeft = 1 + m + 1 /\ (StepsLeft' = 0 \/ StepsLeft' = 1 + k + 0)
        BY <1>3, <2>1, <2>4
    <3> QED BY <1>2, <2>2, <3>1
  <2>5. CASE place = "pop"
    <3>1. StepsLeft = 1 + m + 0 /\ StepsLeft' = 0
        BY <1>3, <2>1, <2>5
    <3> QED BY <1>2, <3>1
  <2>6. CASE place = "scan"
    <3>1. StepsLeft = 1 + m + (Count + 2 - next) /\ StepsLeft' = 1 + k + 0
        BY <1>3, <2>1, <2>6
    <3>2. next <= Len(goals) + 1 /\ Len(goals) <= Count
        BY <1>1, <2>6
    <3>3. Count + 2 - next >= 1 /\ Count + 2 - next \in Int
        BY <1>1, <3>2
    <3> QED BY <1>2, <2>2, <3>1, <3>3
  <2> QED BY <2>1, <2>3, <2>4, <2>5, <2>6
<1>7. ASSUME Scan \/ ScanFails PROVE StepsLeft' < StepsLeft
  <2>1. place = "scan" /\ place' = "scan" /\ next' = next + 1 /\ result' = result
      BY <1>7 DEF Scan, ScanFails
  <2>2. k = m
      BY <1>4, <2>1
  <2>3. StepsLeft = 1 + m + (Count + 2 - next) /\ StepsLeft' = 1 + k + (Count + 2 - next')
      BY <1>3, <2>1
  <2>4. Count + 2 - next' = (Count + 2 - next) - 1 /\ Count + 2 - next \in Int
      BY <1>1, <2>1
  <2> QED BY <1>2, <2>2, <2>3, <2>4
<1>8. ASSUME Pop PROVE StepsLeft' < StepsLeft
  <2>1. /\ place = "pop" /\ place' = "scan" /\ next' = 1
        /\ result' = Append(result, Head(queue))
      BY <1>8 DEF Pop
  <2>2. Len(result') = Len(result) + 1
      BY <2>1 DEF ScanInv, ListsInv, Free, Sound
  <2>3. k = m - (Count + 3)
      BY <1>1, <2>2, OneRound DEF k, m
  <2> QED BY <1>1, <1>2, <1>3, <2>1, <2>3
<1>9. ASSUME Edit \/ UNCHANGED callVars PROVE StepsLeft' = StepsLeft
  <2>1. UNCHANGED <<result, next, place>>
      BY <1>9 DEF Edit, callVars
  <2> QED BY <2>1 DEF StepsLeft, Ended
<1>10. StepsLeft' < StepsLeft => StepsLeft' <= StepsLeft
    BY <1>5
<1>11. StepsLeft' = StepsLeft => StepsLeft' <= StepsLeft
    BY <1>5
<1> QED BY <1>6, <1>7, <1>8, <1>9, <1>10, <1>11 DEF CallNext, Call

\* execution_order() makes at most n * (n + 3) + n + 3 steps, n being the number of goals,
\* whatever other threads edit and however often, and whichever of its reads fail.
THEOREM OrderEndsSoon ==
    CallSpec => [](StepsLeft \in 0..(Count * (Count + 3) + Count + 3)) /\ OrderStepsRunOut
<1>1. ScanInv /\ ScanInv' /\ [CallNext]_callVars
        => [/\ StepsLeft' <= StepsLeft
            /\ Call => StepsLeft' < StepsLeft]_callVars
    BY OrderRunsOut
<1> QED BY <1>1, ScanInit, ScanStep, StepsBounded, PTL DEF CallSpec, OrderStepsRunOut

\* The goals that the search of add_dependency() still has to visit, at most.
Unvisited(t) == Cardinality(Goals \ visited[t])

\* A search visits no goal twice.
SearchFresh ==
    \A t \in Callers :
        IF pc[t] = "search" THEN stack[t] \cap visited[t] = {} ELSE visited[t] = {}

LEMMA FreshStep ==
    ASSUME TypeInv, SearchFresh, [Next]_vars
    PROVE  SearchFresh'
<1> USE DEF TypeInv, TypeOK
<1>1. CASE UNCHANGED vars
    BY <1>1 DEF vars, SearchFresh
<1>2. ASSUME NEW t \in Callers, Step(t) PROVE SearchFresh'
  <2> SUFFICES ASSUME NEW s \in Callers
               PROVE  IF pc'[s] = "search" THEN stack'[s] \cap visited'[s] = {} ELSE visited'[s] = {}
      BY DEF SearchFresh
  <2>1. CASE s # t
    <3>1. pc'[s] = pc[s] /\ stack'[s] = stack[s] /\ visited'[s] = visited[s]
        BY <1>2, <2>1 DEF Step, CreateGoal, UpdateGoal, DeleteGoal, RemoveDependency, AddDependency, Visit,
            RefuseDependency, InsertDependency, FailureSnapshot, BlockDependents,
            CompletionSnapshot, CheckDependent, UpdateDependent, CommitCompletion, Execute, Executed,
            DatabaseError, Return
    <3> QED BY <3>1 DEF SearchFresh
  <2>2. CASE s = t /\ AddDependency(t)
      BY <2>2 DEF AddDependency, SearchFresh
  <2>3. CASE s = t /\ Visit(t)
    <3>1. PICK c \in stack[t] :
            /\ visited'[t] = visited[t] \cup {c}
            /\ stack'[t] = (stack[t] \cup DependenciesOf(c)) \ (visited[t] \cup {c})
            /\ pc'[t] = "search"
        BY <2>3 DEF Visit
    <3> QED BY <2>3, <3>1
  <2>4. CASE s = t /\ ~AddDependency(t) /\ ~Visit(t)
    <3>1. \/ pc'[t] = "idle" /\ visited'[t] = {}
          \/ pc[t] # "search" /\ pc'[t] # "search" /\ visited'[t] = visited[t]
        BY <1>2, <2>4 DEF Step, CreateGoal, UpdateGoal, DeleteGoal, RemoveDependency,
            RefuseDependency, InsertDependency, FailureSnapshot, BlockDependents,
            CompletionSnapshot, CheckDependent, UpdateDependent, CommitCompletion, Execute, Executed,
            DatabaseError, Return
    <3> QED BY <2>4, <3>1 DEF SearchFresh
  <2> QED BY <2>1, <2>2, <2>3, <2>4
<1> QED BY <1>1, <1>2 DEF Next

\* The search of add_dependency() visits each goal at most once, on any graph, also on one
\* that other threads change meanwhile, or that has a cycle already.
THEOREM SearchEndsSoon ==
    Spec => [][\A t \in Callers :
                Visit(t) => Unvisited(t) \in Nat /\ Unvisited(t)' = Unvisited(t) - 1]_vars
<1>1. Init => SearchFresh
    BY DEF Init, SearchFresh
<1>2. TypeInv /\ SearchFresh /\ [Next]_vars
        => [\A t \in Callers :
                Visit(t) => Unvisited(t) \in Nat /\ Unvisited(t)' = Unvisited(t) - 1]_vars
  <2> SUFFICES ASSUME TypeInv, SearchFresh, NEW t \in Callers, Visit(t)
               PROVE  Unvisited(t) \in Nat /\ Unvisited(t)' = Unvisited(t) - 1
      OBVIOUS
  <2>1. PICK c \in stack[t] : visited'[t] = visited[t] \cup {c}
      BY DEF Visit, TypeInv, TypeOK
  <2>2. c \in Goals /\ c \notin visited[t]
      BY DEF Visit, SearchFresh, TypeInv, TypeOK
  <2>3. /\ Goals \ visited'[t] = (Goals \ visited[t]) \ {c}
        /\ Goals \ visited[t] \in SUBSET Goals
        /\ c \in Goals \ visited[t]
      BY <2>1, <2>2
  <2>4. Cardinality(Goals \ visited'[t]) = Cardinality(Goals \ visited[t]) - 1
      BY <2>3, OneFewer
  <2>5. Cardinality(Goals \ visited[t]) \in Nat
      BY <2>3, RowsFinite
  <2> QED BY <2>4, <2>5 DEF Unvisited
<1> QED BY <1>1, <1>2, TypeInit, TypeStep, FreshStep, PTL DEF Spec
=============================================================================
