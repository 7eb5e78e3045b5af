--------------------------- MODULE QuantumGather ---------------------------
(***************************************************************************)
(* QuantumEngine.gather() of core/quantum_engine.py: ask all agents at     *)
(* once, vote when enough of them have answered, give up on the others at  *)
(* the hard timeout.  run_batch() of core/multi_agent_orchestrator.py runs *)
(* several gathers on one event loop, at most Concurrency at a time; they  *)
(* share the threads of the loop's executor, which run the agents that are *)
(* ordinary functions.                                                     *)
(*                                                                         *)
(* The event loop runs one coroutine at a time, from one await to the      *)
(* next: that is a step here.  The threads of the executor run beside it.  *)
(* The confidence of a set of answers is left open.                        *)
(*                                                                         *)
(* A definition whose name starts with Slip is a mistake the code could    *)
(* have made in the definition after it.                                   *)
(***************************************************************************)
EXTENDS Naturals, Sequences, FiniteSets

CONSTANTS
    Gathers,      \* the calls of gather()
    Plain,        \* the agents that are functions, in the order of the dictionary
    Coroutines,   \* the agents that are coroutines
    Quorum,       \* QuantumEngine.quorum
    Concurrency,  \* run_batch's semaphore
    Threads,      \* bound on the threads of the executor
    Aborts        \* bound: how many agents are cancelled from elsewhere

Functions == {Plain[i] : i \in 1..Len(Plain)}
Agents == Functions \cup Coroutines

ASSUME AgentsAssumption ==
    /\ Plain \in Seq(Functions) /\ Functions \cap Coroutines = {}
    /\ \A i, j \in 1..Len(Plain) : Plain[i] = Plain[j] => i = j
    /\ IsFiniteSet(Coroutines) /\ Agents # {}
ASSUME LimitsAssumption ==
    /\ {Quorum, Concurrency, Threads} \subseteq Nat \ {0}
    /\ Aborts \in Nat

VARIABLES
    pc,       \* where each gather is
    task,     \* the asyncio task of each agent in each gather
    asked,    \* the agents whose task was asked to cancel
    seen,     \* done_ids: the agents whose task gather() has looked at
    answers,  \* responses: those of them that answered
    late,     \* whether the deadline of the gather is over
    early,    \* early_exit
    queue,    \* the calls that wait for a thread of the executor
    running,  \* the calls that have one
    result,   \* the calls that have returned, and how
    aborts    \* how many agents were cancelled from elsewhere

vars == <<pc, task, asked, seen, answers, late, early, queue, running, result, aborts>>
executor == <<queue, running, result>>
verdict == <<seen, answers, early>>

Calls == Gathers \X Agents

Init ==
    /\ pc = [g \in Gathers |-> "idle"]
    /\ task = [g \in Gathers |-> [a \in Agents |-> "none"]]
    /\ asked = [g \in Gathers |-> {}]
    /\ seen = [g \in Gathers |-> {}]
    /\ answers = [g \in Gathers |-> {}]
    /\ late = [g \in Gathers |-> FALSE]
    /\ early = [g \in Gathers |-> FALSE]
    /\ queue = <<>> /\ running = {}
    /\ result = [c \in Calls |-> "none"]
    /\ aborts = 0

Finished == {"answered", "failed", "cancelled"}

\* asyncio.wait(): the tasks that are done and were not looked at.
Done(g) == {a \in Agents \ seen[g] : task[g][a] \in Finished}

Active == {g \in Gathers : pc[g] \in {"wait", "settle"}}

-----------------------------------------------------------------------------
(* The executor: its threads take the oldest call. *)

Pick ==
    /\ queue # <<>> /\ Cardinality(running) < Threads
    /\ task[Head(queue)[1]][Head(queue)[2]] # "cancelled"
    /\ running' = running \cup {Head(queue)}
    /\ queue' = Tail(queue)
    /\ UNCHANGED <<pc, task, asked, verdict, late, result, aborts>>

\* A call that was cancelled before it began is dropped.
Drop ==
    /\ queue # <<>> /\ Cardinality(running) < Threads
    /\ task[Head(queue)[1]][Head(queue)[2]] = "cancelled"
    /\ queue' = Tail(queue)
    /\ UNCHANGED <<pc, task, asked, verdict, late, running, result, aborts>>

\* The function returns or raises.
Return ==
    \E c \in running :
        /\ running' = running \ {c}
        /\ \E how \in {"answered", "failed"} : result' = [result EXCEPT ![c] = how]
        /\ UNCHANGED <<pc, task, asked, verdict, late, queue, aborts>>

-----------------------------------------------------------------------------
(* _timed_call(): the task of an agent. *)

End(g, a, how) == task' = [task EXCEPT ![g] = [@ EXCEPT ![a] = how]]

\* The function of the agent has returned.
FinishFunction(g, a) ==
    /\ a \in Functions /\ task[g][a] = "awaits" /\ a \notin asked[g]
    /\ result[<<g, a>>] # "none"
    /\ End(g, a, result[<<g, a>>])
    /\ UNCHANGED <<pc, asked, verdict, late, executor, aborts>>

FinishCoroutine(g, a) ==
    /\ a \in Coroutines /\ task[g][a] = "awaits" /\ a \notin asked[g]
    /\ \E how \in {"answered", "failed"} : End(g, a, how)
    /\ UNCHANGED <<pc, asked, verdict, late, executor, aborts>>

\* A coroutine raises CancelledError although gather() did not ask for it: what
\* it awaits was cancelled.  `except Exception` does not catch that.
Abort(g, a) ==
    /\ aborts < Aborts /\ aborts' = aborts + 1
    /\ a \in Coroutines /\ task[g][a] = "awaits" /\ a \notin asked[g]
    /\ End(g, a, "cancelled")
    /\ UNCHANGED <<pc, asked, verdict, late, executor>>

\* CancelledError arrives, also when the function has returned meanwhile.  The
\* function itself goes on and keeps its thread.
Cancelled(g, a) ==
    /\ a \in asked[g] /\ task[g][a] = "awaits"
    /\ End(g, a, "cancelled")
    /\ UNCHANGED <<pc, asked, verdict, late, executor, aborts>>

-----------------------------------------------------------------------------
(* gather(). *)

\* A task per agent; the functions are handed to the executor.
Dispatch(g) ==
    /\ pc[g] = "idle" /\ Cardinality(Active) < Concurrency
    /\ pc' = [pc EXCEPT ![g] = "wait"]
    /\ task' = [task EXCEPT ![g] = [a \in Agents |-> "awaits"]]
    /\ queue' = queue \o [i \in 1..Len(Plain) |-> <<g, Plain[i]>>]
    /\ UNCHANGED <<asked, verdict, late, running, result, aborts>>

\* time.perf_counter() passes the deadline.
Deadline(g) ==
    /\ pc[g] = "wait" /\ ~late[g]
    /\ late' = [late EXCEPT ![g] = TRUE]
    /\ UNCHANGED <<pc, task, asked, verdict, executor, aborts>>

\* The loop is over: the tasks that are left are cancelled, and awaited.
Leave(g, left) ==
    /\ pc' = [pc EXCEPT ![g] = "settle"]
    /\ asked' = [asked EXCEPT ![g] = left]

SlipCollectSeen(g) ==
    /\ pc[g] = "wait"
    /\ Done(g) # {} /\ \A a \in Done(g) : task[g][a] # "cancelled"
    /\ seen' = [seen EXCEPT ![g] = @ \cup Done(g)]
    /\ answers' = [answers EXCEPT ![g] = @ \cup {a \in Done(g) : task[g][a] = "answered"}]
    /\ \E confident \in BOOLEAN :
        early' = [early EXCEPT ![g] = confident /\ Cardinality(seen'[g]) >= Quorum]
    /\ \/ (early'[g] \/ late[g] \/ seen'[g] = Agents) /\ Leave(g, Agents \ seen'[g])
       \/ ~(early'[g] \/ late[g] \/ seen'[g] = Agents) /\ UNCHANGED <<pc, asked>>
    /\ UNCHANGED <<task, late, executor, aborts>>

SlipCollectFirst(g) ==
    /\ pc[g] = "wait"
    /\ Done(g) # {} /\ \A a \in Done(g) : task[g][a] # "cancelled"
    /\ seen' = [seen EXCEPT ![g] = @ \cup Done(g)]
    /\ \E a \in Done(g) :
        answers' = [answers EXCEPT ![g] = IF task[g][a] = "answered" THEN @ \cup {a} ELSE @]
    /\ \E confident \in BOOLEAN :
        early' = [early EXCEPT ![g] = confident /\ Cardinality(answers'[g]) >= Quorum]
    /\ \/ (early'[g] \/ late[g] \/ seen'[g] = Agents) /\ Leave(g, Agents \ seen'[g])
       \/ ~(early'[g] \/ late[g] \/ seen'[g] = Agents) /\ UNCHANGED <<pc, asked>>
    /\ UNCHANGED <<task, late, executor, aborts>>

\* One turn of the loop: what is done is collected, then the early exit is
\* considered, then the deadline.
Collect(g) ==
    /\ pc[g] = "wait"
    /\ Done(g) # {} /\ \A a \in Done(g) : task[g][a] # "cancelled"
    /\ seen' = [seen EXCEPT ![g] = @ \cup Done(g)]
    /\ answers' = [answers EXCEPT ![g] = @ \cup {a \in Done(g) : task[g][a] = "answered"}]
    /\ \E confident \in BOOLEAN :
        early' = [early EXCEPT ![g] = confident /\ Cardinality(answers'[g]) >= Quorum]
    /\ \/ (early'[g] \/ late[g] \/ seen'[g] = Agents) /\ Leave(g, Agents \ seen'[g])
       \/ ~(early'[g] \/ late[g] \/ seen'[g] = Agents) /\ UNCHANGED <<pc, asked>>
    /\ UNCHANGED <<task, late, executor, aborts>>

SlipGiveUp(g) ==
    /\ pc[g] = "wait" /\ late[g] /\ Done(g) = {} /\ answers[g] # {}
    /\ Leave(g, Agents \ seen[g])
    /\ UNCHANGED <<task, verdict, late, executor, aborts>>

\* asyncio.wait() returns nothing, for its timeout is over.
GiveUp(g) ==
    /\ pc[g] = "wait" /\ late[g] /\ Done(g) = {}
    /\ Leave(g, Agents \ seen[g])
    /\ UNCHANGED <<task, verdict, late, executor, aborts>>

\* task_obj.result() raises CancelledError, which leaves gather() at once: the
\* other tasks go on.
Raise(g) ==
    /\ pc[g] = "wait"
    /\ \E a \in Done(g) : task[g][a] = "cancelled"
    /\ pc' = [pc EXCEPT ![g] = "raised"]
    /\ UNCHANGED <<task, asked, verdict, late, executor, aborts>>

SlipSettle(g) ==
    /\ pc[g] = "settle"
    /\ pc' = [pc EXCEPT ![g] = IF answers[g] = {} THEN "failed" ELSE "voted"]
    /\ UNCHANGED <<task, asked, verdict, late, executor, aborts>>

\* All tasks are done: a vote, or ConsensusFailure without any answer.
Settle(g) ==
    /\ pc[g] = "settle" /\ \A a \in asked[g] : task[g][a] \in Finished
    /\ pc' = [pc EXCEPT ![g] = IF answers[g] = {} THEN "failed" ELSE "voted"]
    /\ UNCHANGED <<task, asked, verdict, late, executor, aborts>>

-----------------------------------------------------------------------------

\* What the event loop and the clock do by themselves.
Loop(g) ==
    \/ Dispatch(g) \/ Deadline(g) \/ Collect(g) \/ GiveUp(g) \/ Raise(g) \/ Settle(g)
    \/ \E a \in Agents : FinishFunction(g, a) \/ Cancelled(g, a)

Next ==
    \/ \E g \in Gathers : Loop(g)
    \/ \E g \in Gathers, a \in Agents : FinishCoroutine(g, a) \/ Abort(g, a)
    \/ Pick \/ Drop \/ Return

Spec == Init /\ [][Next]_vars

\* The event loop goes on; an agent may never return.
FairSpec == Spec /\ \A g \in Gathers : WF_vars(Loop(g))

-----------------------------------------------------------------------------
(* Properties. *)

\* The state of the gathers and of the executor is well formed.
TypeOK ==
    /\ pc \in [Gathers -> {"idle", "wait", "settle", "voted", "failed", "raised"}]
    /\ task \in [Gathers -> [Agents -> {"none", "awaits"} \cup Finished]]
    /\ asked \in [Gathers -> SUBSET Agents]
    /\ seen \in [Gathers -> SUBSET Agents]
    /\ answers \in [Gathers -> SUBSET Agents]
    /\ late \in [Gathers -> BOOLEAN] /\ early \in [Gathers -> BOOLEAN]
    /\ queue \in Seq(Calls) /\ running \subseteq Calls
    /\ result \in [Calls -> {"none", "answered", "failed"}]
    /\ aborts \in 0..Aborts

\* A gather that returns, or raises ConsensusFailure, has counted each answer that
\* an agent gave it before it was asked to cancel: no answer is lost between two
\* turns of the loop, at the early exit or at the deadline.
AnswersCount ==
    \A g \in Gathers :
        pc[g] \in {"voted", "failed"} => answers[g] = {a \in Agents : task[g][a] = "answered"}

\* A gather that gives up agents has a quorum of answers or is past its deadline.
EndsForAReason ==
    \A g \in Gathers :
        pc[g] \in {"settle", "voted", "failed"} =>
            \/ seen[g] = Agents
            \/ late[g]
            \/ early[g] /\ Cardinality(answers[g]) >= Quorum

\* A gather that returns, or raises ConsensusFailure, leaves no task behind, and
\* none of its functions will begin.
NoStrayTask ==
    \A g \in Gathers :
        pc[g] \in {"voted", "failed"} =>
            /\ \A a \in Agents : task[g][a] \in Finished
            /\ \A i \in 1..Len(queue) :
                queue[i][1] = g => task[g][queue[i][2]] = "cancelled"

\* All gathers of a batch end, even if agents never return and the stragglers of
\* one hold the threads that the next one needs.
Returns == \A g \in Gathers : <>(pc[g] \in {"voted", "failed", "raised"})
=============================================================================
