------------------------ MODULE QuantumGatherProofs ------------------------
(***************************************************************************)
(* Safety of QuantumGather for every number of gathers, agents, threads    *)
(* and foreign cancellations, and for every quorum.                        *)
(***************************************************************************)
EXTENDS QuantumGatherRefinement, FiniteSetTheorems, TLAPS

\* What a gather knows of its tasks.  AnswersCount is not inductive: that no answer
\* comes from an agent that was given up holds because its task, asked to cancel,
\* can only be cancelled.
TasksInv(g) ==
    /\ \A a \in Agents : task[g][a] = "none" <=> pc[g] = "idle"
    /\ pc[g] = "idle" => seen[g] = {}
    /\ pc[g] \in {"idle", "wait"} => asked[g] = {}
    /\ \A a \in seen[g] : task[g][a] \in {"answered", "failed"}
    /\ answers[g] = {a \in seen[g] : task[g][a] = "answered"}
    /\ pc[g] \in {"settle", "voted", "failed"} =>
        /\ asked[g] = Agents \ seen[g]
        /\ \A a \in asked[g] : task[g][a] \in {"awaits", "cancelled"}
    /\ pc[g] \in {"voted", "failed"} => \A a \in asked[g] : task[g][a] = "cancelled"

\* What waits for a thread, or has one, was dispatched once and has not returned.
QueueInv ==
    /\ \A i \in 1..Len(queue) :
        /\ queue[i][2] \in Functions
        /\ queue[i] \notin running
        /\ result[queue[i]] = "none"
        /\ pc[queue[i][1]] # "idle"
        /\ task[queue[i][1]][queue[i][2]] \in {"awaits", "cancelled"}
    /\ \A i, j \in 1..Len(queue) : queue[i] = queue[j] => i = j
    /\ \A c \in Calls : pc[c[1]] = "idle" => c \notin running /\ result[c] = "none"

IInv == TypeOK /\ (\A g \in Gathers : TasksInv(g)) /\ QueueInv /\ EndsForAReason

-----------------------------------------------------------------------------
(* Sequences. *)

LEMMA TailEntries ==
    ASSUME NEW S, NEW q \in Seq(S), q # <<>>
    PROVE  /\ Head(q) \in S /\ Head(q) = q[1] /\ 1 \in 1..Len(q)
           /\ Tail(q) \in Seq(S)
           /\ \A i \in 1..Len(Tail(q)) : i + 1 \in 1..Len(q) /\ Tail(q)[i] = q[i + 1]
OBVIOUS

\* The calls that a gather puts into the queue.
NewCalls(g) == [i \in 1..Len(Plain) |-> <<g, Plain[i]>>]

LEMMA NewEntries ==
    ASSUME NEW g \in Gathers, NEW q \in Seq(Calls)
    PROVE  /\ q \o NewCalls(g) \in Seq(Calls)
           /\ \A i \in 1..Len(q \o NewCalls(g)) :
                /\ i \in 1..Len(q) => (q \o NewCalls(g))[i] = q[i]
                /\ i \notin 1..Len(q) =>
                    \E k \in 1..Len(Plain) :
                        i = Len(q) + k /\ (q \o NewCalls(g))[i] = <<g, Plain[k]>>
<1>1. Plain \in Seq(Functions) /\ Functions \subseteq Agents
    BY AgentsAssumption DEF Agents
<1>2. \A k \in 1..Len(Plain) : <<g, Plain[k]>> \in Calls
    BY <1>1 DEF Calls
<1>3. PICK new : new = NewCalls(g)
    OBVIOUS
<1>4. Len(Plain) \in Nat /\ new = [k \in 1..Len(Plain) |-> <<g, Plain[k]>>]
    BY <1>1, <1>3 DEF NewCalls
<1>5. new \in Seq(Calls)
    BY <1>2, <1>4
<1>6. Len(new) = Len(Plain) /\ \A k \in 1..Len(Plain) : new[k] = <<g, Plain[k]>>
    BY <1>4
<1>7. q \o new \in Seq(Calls) /\ Len(q \o new) = Len(q) + Len(Plain)
    <2>1. q \o new \in Seq(Calls)
        BY <1>5
    <2>2. Len(q \o new) = Len(q) + Len(new)
        BY <1>5
    <2> QED
        BY <1>6, <2>1, <2>2
<1>8. ASSUME NEW i \in 1..Len(q \o new), i \notin 1..Len(q)
      PROVE  \E k \in 1..Len(Plain) : i = Len(q) + k /\ (q \o new)[i] = <<g, Plain[k]>>
    <2>1. i - Len(q) \in 1..Len(Plain) /\ i = Len(q) + (i - Len(q))
        BY <1>1, <1>7, <1>8
    <2>2. (q \o new)[i] = new[i - Len(q)]
        BY <1>5, <1>7, <1>8, <2>1
    <2> QED
        BY <1>6, <2>1, <2>2
<1>9. ASSUME NEW i \in 1..Len(q \o new), i \in 1..Len(q)
      PROVE  (q \o new)[i] = q[i]
    BY <1>5, <1>9
<1> QED
    BY <1>3, <1>7, <1>8, <1>9

-----------------------------------------------------------------------------
(* Types. *)

LEMMA TypeInit == Init => TypeOK
BY LimitsAssumption DEF Init, TypeOK, Finished

LEMMA BooleanUpdate ==
    ASSUME NEW S, NEW f \in [S -> BOOLEAN], NEW x, NEW b \in BOOLEAN
    PROVE  [f EXCEPT ![x] = b] \in [S -> BOOLEAN]
OBVIOUS

\* A task that ends is well typed.
LEMMA EndTypes ==
    ASSUME TypeOK, NEW g \in Gathers, NEW a \in Agents, NEW how \in Finished, End(g, a, how)
    PROVE  task' \in [Gathers -> [Agents -> {"none", "awaits"} \cup Finished]]
BY DEF TypeOK, End

LEMMA TypeStep ==
    ASSUME TypeOK, [Next]_vars
    PROVE  TypeOK'
<1> USE DEF TypeOK, verdict, executor
<1>1. ASSUME NEW g \in Gathers, Dispatch(g) PROVE TypeOK'
    <2>1. queue' \in Seq(Calls)
        BY <1>1, NewEntries DEF Dispatch, NewCalls
    <2>2. task' \in [Gathers -> [Agents -> {"none", "awaits"} \cup Finished]]
        BY <1>1 DEF Dispatch
    <2> QED
        BY <1>1, <2>1, <2>2 DEF Dispatch
<1>2. ASSUME NEW g \in Gathers, Deadline(g) PROVE TypeOK'
    BY <1>2 DEF Deadline
<1>3. ASSUME NEW g \in Gathers, Collect(g) PROVE TypeOK'
    <2>1. Done(g) \subseteq Agents
        BY DEF Done
    <2>2. seen' \in [Gathers -> SUBSET Agents]
        BY <1>3, <2>1 DEF Collect
    <2>3. answers' \in [Gathers -> SUBSET Agents]
        BY <1>3, <2>1 DEF Collect
    <2>4. early' \in [Gathers -> BOOLEAN]
        <3>1. PICK confident \in BOOLEAN :
                early' = [early EXCEPT ![g] = confident /\ Cardinality(answers'[g]) >= Quorum]
            BY <1>3, Zenon DEF Collect
        <3>2. (confident /\ Cardinality(answers'[g]) >= Quorum) \in BOOLEAN
            OBVIOUS
        <3> QED
            BY <3>1, <3>2, BooleanUpdate
    <2>5. Leave(g, Agents \ seen'[g]) \/ UNCHANGED <<pc, asked>>
        BY <1>3, Zenon DEF Collect
    <2>6. /\ pc' \in [Gathers -> {"idle", "wait", "settle", "voted", "failed", "raised"}]
          /\ asked' \in [Gathers -> SUBSET Agents]
        BY <2>5 DEF Leave
    <2> QED
        BY <1>3, <2>2, <2>3, <2>4, <2>6 DEF Collect
<1>4. ASSUME NEW g \in Gathers, GiveUp(g) PROVE TypeOK'
    BY <1>4 DEF GiveUp, Leave
<1>5. ASSUME NEW g \in Gathers, Raise(g) PROVE TypeOK'
    BY <1>5 DEF Raise
<1>6. ASSUME NEW g \in Gathers, Settle(g) PROVE TypeOK'
    BY <1>6 DEF Settle
<1>7. ASSUME NEW g \in Gathers, NEW a \in Agents, FinishFunction(g, a) PROVE TypeOK'
    <2>1. result[<<g, a>>] \in Finished
        BY <1>7 DEF FinishFunction, Calls, Finished
    <2> QED
        BY <1>7, <2>1, EndTypes DEF FinishFunction
<1>8. ASSUME NEW g \in Gathers, NEW a \in Agents, Cancelled(g, a) PROVE TypeOK'
    BY <1>8, EndTypes DEF Cancelled, Finished
<1>9. ASSUME NEW g \in Gathers, NEW a \in Agents, FinishCoroutine(g, a) PROVE TypeOK'
    BY <1>9, EndTypes DEF FinishCoroutine, Finished
<1>10. ASSUME NEW g \in Gathers, NEW a \in Agents, Abort(g, a) PROVE TypeOK'
    BY <1>10, EndTypes, LimitsAssumption DEF Abort, Finished
<1>11. ASSUME Pick PROVE TypeOK'
    BY <1>11, TailEntries DEF Pick
<1>12. ASSUME Drop PROVE TypeOK'
    BY <1>12, TailEntries DEF Drop
<1>13. ASSUME Return PROVE TypeOK'
    BY <1>13 DEF Return
<1>14. CASE UNCHANGED vars
    BY <1>14 DEF vars
<1> QED
    BY <1>1, <1>2, <1>3, <1>4, <1>5, <1>6, <1>7, <1>8, <1>9, <1>10, <1>11, <1>12,
       <1>13, <1>14 DEF Next, Loop

-----------------------------------------------------------------------------
(* The tasks of a gather. *)

LEMMA TasksInit == Init => \A g \in Gathers : TasksInv(g)
BY DEF Init, TasksInv, Finished

LEMMA TasksStutter ==
    ASSUME NEW h \in Gathers, TasksInv(h), pc'[h] = pc[h], task'[h] = task[h],
           asked'[h] = asked[h], seen'[h] = seen[h], answers'[h] = answers[h]
    PROVE  TasksInv(h)'
BY DEF TasksInv

\* A task that was not asked to cancel ends, or one that was asked is cancelled.
LEMMA TasksEnd ==
    ASSUME TypeOK, NEW g \in Gathers, NEW h \in Gathers, NEW a \in Agents, NEW how \in Finished,
           TasksInv(h), End(g, a, how), task[g][a] = "awaits",
           a \notin asked[g] \/ how = "cancelled",
           UNCHANGED <<pc, asked, seen, answers>>
    PROVE  TasksInv(h)'
<1>1. CASE h # g
    BY <1>1, TasksStutter DEF End, TypeOK
<1>2. CASE h = g
    <2>1. /\ task'[h][a] = how
          /\ \A b \in Agents \ {a} : task'[h][b] = task[h][b]
        BY <1>2 DEF End, TypeOK
    <2>2. seen[h] \subseteq Agents /\ asked[h] \subseteq Agents
        BY DEF TypeOK
    <2>3. how # "none" /\ how # "awaits" /\ "awaits" \notin Finished
        BY DEF Finished
    <2>4. a \notin seen[h]
        BY <1>2, <2>3 DEF TasksInv
    <2> QED
        BY <1>2, <2>1, <2>2, <2>3, <2>4 DEF TasksInv
<1> QED
    BY <1>1, <1>2

LEMMA TasksStep ==
    ASSUME TypeOK, \A g \in Gathers : TasksInv(g), [Next]_vars, NEW h \in Gathers
    PROVE  TasksInv(h)'
<1> USE DEF verdict, executor
<1>1. ASSUME NEW g \in Gathers, Dispatch(g) PROVE TasksInv(h)'
    <2>1. CASE h # g
        BY <1>1, <2>1, TasksStutter DEF Dispatch, TypeOK
    <2>2. CASE h = g
        <3>1. pc'[h] = "wait" /\ task'[h] = [a \in Agents |-> "awaits"]
            BY <1>1, <2>2 DEF Dispatch, TypeOK
        <3> QED
            BY <1>1, <2>2, <3>1 DEF Dispatch, TasksInv
    <2> QED
        BY <2>1, <2>2
<1>2. ASSUME NEW g \in Gathers, Deadline(g) PROVE TasksInv(h)'
    BY <1>2, TasksStutter DEF Deadline
<1>3. ASSUME NEW g \in Gathers, Collect(g) PROVE TasksInv(h)'
    <2>1. Leave(g, Agents \ seen'[g]) \/ UNCHANGED <<pc, asked>>
        BY <1>3, Zenon DEF Collect
    <2>2. CASE h # g
        BY <1>3, <2>1, <2>2, TasksStutter DEF Collect, Leave, TypeOK
    <2>3. CASE h = g
        <3>1. /\ seen'[h] = seen[h] \cup Done(h)
              /\ answers'[h] = answers[h] \cup {a \in Done(h) : task[h][a] = "answered"}
              /\ \A a \in Done(h) : task[h][a] # "cancelled"
              /\ pc[h] = "wait" /\ UNCHANGED task
            BY <1>3, <2>3 DEF Collect, TypeOK
        <3>2. /\ \A a \in Done(h) : task[h][a] \in {"answered", "failed"}
              /\ \A a \in Agents \ seen'[h] : task[h][a] \notin Finished
            BY <3>1 DEF Done, Finished
        <3>3. \A a \in Agents \ seen'[h] : task[h][a] = "awaits"
            BY <3>1, <3>2 DEF TasksInv, TypeOK
        <3>4. \/ pc'[h] = "settle" /\ asked'[h] = Agents \ seen'[h]
              \/ pc'[h] = "wait" /\ asked'[h] = asked[h]
            BY <2>1, <2>3, <3>1 DEF Leave, TypeOK
        <3> QED
            BY <3>1, <3>2, <3>3, <3>4 DEF TasksInv
    <2> QED
        BY <2>2, <2>3
<1>4. ASSUME NEW g \in Gathers, GiveUp(g) PROVE TasksInv(h)'
    <2>1. CASE h # g
        BY <1>4, <2>1, TasksStutter DEF GiveUp, Leave, TypeOK
    <2>2. CASE h = g
        <3>1. /\ pc[h] = "wait" /\ pc'[h] = "settle" /\ asked'[h] = Agents \ seen[h]
              /\ UNCHANGED <<task, seen, answers>>
            BY <1>4, <2>2 DEF GiveUp, Leave, TypeOK
        <3>2. \A a \in Agents \ seen[h] : task[h][a] = "awaits"
            BY <1>4, <2>2, <3>1 DEF GiveUp, Done, TasksInv, TypeOK
        <3> QED
            BY <3>1, <3>2 DEF TasksInv
    <2> QED
        BY <2>1, <2>2
<1>5. ASSUME NEW g \in Gathers, Raise(g) PROVE TasksInv(h)'
    BY <1>5 DEF Raise, TasksInv, TypeOK
<1>6. ASSUME NEW g \in Gathers, Settle(g) PROVE TasksInv(h)'
    <2>1. CASE h # g
        BY <1>6, <2>1, TasksStutter DEF Settle, TypeOK
    <2>2. CASE h = g
        <3>1. /\ pc[h] = "settle" /\ pc'[h] \in {"voted", "failed"}
              /\ UNCHANGED <<task, asked, seen, answers>>
            BY <1>6, <2>2 DEF Settle, TypeOK
        <3>2. \A a \in asked[h] : task[h][a] = "cancelled"
            BY <1>6, <2>2, <3>1 DEF Settle, TasksInv, Finished
        <3> QED
            BY <3>1, <3>2 DEF TasksInv
    <2> QED
        BY <2>1, <2>2
<1>7. ASSUME NEW g \in Gathers, NEW a \in Agents, FinishFunction(g, a) PROVE TasksInv(h)'
    <2>1. result[<<g, a>>] \in Finished
        BY <1>7 DEF FinishFunction, Calls, Finished, TypeOK
    <2> QED
        BY <1>7, <2>1, TasksEnd DEF FinishFunction
<1>8. ASSUME NEW g \in Gathers, NEW a \in Agents, Cancelled(g, a) PROVE TasksInv(h)'
    BY <1>8, TasksEnd DEF Cancelled, Finished
<1>9. ASSUME NEW g \in Gathers, NEW a \in Agents, FinishCoroutine(g, a) PROVE TasksInv(h)'
    BY <1>9, TasksEnd DEF FinishCoroutine, Finished
<1>10. ASSUME NEW g \in Gathers, NEW a \in Agents, Abort(g, a) PROVE TasksInv(h)'
    BY <1>10, TasksEnd DEF Abort, Finished
<1>11. CASE Pick \/ Drop \/ Return \/ UNCHANGED vars
    BY <1>11, TasksStutter DEF Pick, Drop, Return, vars
<1> QED
    BY <1>1, <1>2, <1>3, <1>4, <1>5, <1>6, <1>7, <1>8, <1>9, <1>10, <1>11 DEF Next, Loop

-----------------------------------------------------------------------------
(* The executor. *)

LEMMA QueueInit == Init => QueueInv
BY DEF Init, QueueInv

\* An entry of the queue, and its call.
LEMMA Entries ==
    ASSUME TypeOK, NEW i \in 1..Len(queue)
    PROVE  /\ queue[i] \in Calls /\ queue[i] = <<queue[i][1], queue[i][2]>>
           /\ queue[i][1] \in Gathers /\ queue[i][2] \in Agents
BY DEF TypeOK, Calls

\* The gathers change nothing that the executor depends on.
LEMMA QueueStutter ==
    ASSUME TypeOK, QueueInv, UNCHANGED executor,
           \A g \in Gathers : pc'[g] = "idle" <=> pc[g] = "idle",
           \A g \in Gathers, a \in Functions :
                task[g][a] \in {"awaits", "cancelled"} /\ result[<<g, a>>] = "none"
                    => task'[g][a] \in {"awaits", "cancelled"}
    PROVE  QueueInv'
<1>1. \A i \in 1..Len(queue) :
        pc'[queue[i][1]] # "idle" /\ task'[queue[i][1]][queue[i][2]] \in {"awaits", "cancelled"}
    <2> TAKE i \in 1..Len(queue)
    <2>1. /\ queue[i] = <<queue[i][1], queue[i][2]>>
          /\ queue[i][1] \in Gathers /\ queue[i][2] \in Functions
          /\ result[queue[i]] = "none" /\ pc[queue[i][1]] # "idle"
          /\ task[queue[i][1]][queue[i][2]] \in {"awaits", "cancelled"}
        BY Entries DEF QueueInv
    <2>2. result[<<queue[i][1], queue[i][2]>>] = "none"
        BY <2>1
    <2> QED
        BY <2>1, <2>2
<1>2. \A c \in Calls : pc'[c[1]] = "idle" => pc[c[1]] = "idle"
    BY DEF Calls
<1> QED
    BY <1>1, <1>2 DEF QueueInv, executor

LEMMA QueueStep ==
    ASSUME TypeOK, \A g \in Gathers : TasksInv(g), QueueInv, [Next]_vars
    PROVE  QueueInv'
<1> USE DEF verdict
<1>1. ASSUME NEW g \in Gathers, Dispatch(g) PROVE QueueInv'
    <2>1. queue' = queue \o NewCalls(g) /\ queue \in Seq(Calls)
        BY <1>1 DEF Dispatch, NewCalls, TypeOK
    <2>2. \A i \in 1..Len(queue') :
            /\ i \in 1..Len(queue) => queue'[i] = queue[i]
            /\ i \notin 1..Len(queue) =>
                \E k \in 1..Len(Plain) : i = Len(queue) + k /\ queue'[i] = <<g, Plain[k]>>
        BY <2>1, NewEntries
    <2>3. /\ pc[g] = "idle" /\ pc'[g] = "wait" /\ UNCHANGED <<running, result>>
          /\ \A h \in Gathers \ {g} : pc'[h] = pc[h] /\ task'[h] = task[h]
          /\ \A a \in Agents : task'[g][a] = "awaits"
        BY <1>1 DEF Dispatch, TypeOK
    <2>4. \A k \in 1..Len(Plain) :
            Plain[k] \in Functions /\ Plain[k] \in Agents /\ <<g, Plain[k]>> \in Calls
        BY DEF Functions, Agents, Calls
    <2>5. ASSUME NEW i \in 1..Len(queue)
          PROVE  queue[i][1] \in Gathers \ {g}
        BY <2>3, Entries DEF QueueInv
    <2>6. \A i \in 1..Len(queue') :
            /\ queue'[i][2] \in Functions
            /\ queue'[i] \notin running' /\ result'[queue'[i]] = "none"
            /\ pc'[queue'[i][1]] # "idle"
            /\ task'[queue'[i][1]][queue'[i][2]] \in {"awaits", "cancelled"}
        <3> SUFFICES ASSUME NEW i \in 1..Len(queue')
                     PROVE  /\ queue'[i][2] \in Functions
                            /\ queue'[i] \notin running' /\ result'[queue'[i]] = "none"
                            /\ pc'[queue'[i][1]] # "idle"
                            /\ task'[queue'[i][1]][queue'[i][2]] \in {"awaits", "cancelled"}
            OBVIOUS
        <3>1. CASE i \in 1..Len(queue)
            <4>1. queue'[i] = queue[i] /\ queue[i][1] \in Gathers \ {g}
                BY <3>1, <2>2, <2>5
            <4> QED
                BY <3>1, <4>1, <2>3 DEF QueueInv
        <3>2. ASSUME NEW k \in 1..Len(Plain), queue'[i] = <<g, Plain[k]>>
              PROVE  /\ queue'[i][2] \in Functions
                     /\ queue'[i] \notin running' /\ result'[queue'[i]] = "none"
                     /\ pc'[queue'[i][1]] # "idle"
                     /\ task'[queue'[i][1]][queue'[i][2]] \in {"awaits", "cancelled"}
            BY <3>2, <2>3, <2>4 DEF QueueInv
        <3> QED
            BY <2>2, <3>1, <3>2, Zenon
    <2>7. \A i, j \in 1..Len(queue') : queue'[i] = queue'[j] => i = j
        <3> SUFFICES ASSUME NEW i \in 1..Len(queue'), NEW j \in 1..Len(queue'),
                            queue'[i] = queue'[j]
                     PROVE  i = j
            OBVIOUS
        <3>1. \A k \in 1..Len(queue') :
                k \in 1..Len(queue) => queue'[k] = queue[k] /\ queue'[k][1] # g
            BY <2>2, <2>5
        <3>2. ASSUME NEW k \in 1..Len(queue'), k \notin 1..Len(queue)
              PROVE  queue'[k][1] = g
            <4>1. PICK m \in 1..Len(Plain) : queue'[k] = <<g, Plain[m]>>
                BY <2>2, <3>2
            <4> QED
                BY <4>1
        <3>3. CASE i \in 1..Len(queue) /\ j \in 1..Len(queue)
            <4>1. queue[i] = queue[j]
                BY <3>1, <3>3
            <4>2. \A k, m \in 1..Len(queue) : queue[k] = queue[m] => k = m
                BY DEF QueueInv
            <4> QED
                BY <3>3, <4>1, <4>2
        <3>4. CASE i \notin 1..Len(queue) /\ j \notin 1..Len(queue)
            <4>1. PICK k \in 1..Len(Plain) : i = Len(queue) + k /\ queue'[i] = <<g, Plain[k]>>
                BY <3>4, <2>2
            <4>2. PICK m \in 1..Len(Plain) : j = Len(queue) + m /\ queue'[j] = <<g, Plain[m]>>
                BY <3>4, <2>2
            <4>3. Plain[k] = Plain[m]
                BY <4>1, <4>2
            <4>4. k = m
                BY <4>3, AgentsAssumption
            <4> QED
                BY <4>1, <4>2, <4>4
        <3> QED
            BY <3>1, <3>2, <3>3, <3>4
    <2>8. \A c \in Calls : pc'[c[1]] = "idle" => c \notin running' /\ result'[c] = "none"
        BY <2>3 DEF QueueInv, Calls
    <2> QED
        BY <2>6, <2>7, <2>8 DEF QueueInv
<1>2. ASSUME NEW g \in Gathers, Deadline(g) PROVE QueueInv'
    BY <1>2, QueueStutter DEF Deadline
<1>3. ASSUME NEW g \in Gathers, Collect(g) PROVE QueueInv'
    <2>1. Leave(g, Agents \ seen'[g]) \/ UNCHANGED <<pc, asked>>
        BY <1>3, Zenon DEF Collect
    <2> QED
        BY <1>3, <2>1, QueueStutter DEF Collect, Leave, TypeOK
<1>4. ASSUME NEW g \in Gathers, GiveUp(g) PROVE QueueInv'
    BY <1>4, QueueStutter DEF GiveUp, Leave, TypeOK
<1>5. ASSUME NEW g \in Gathers, Raise(g) PROVE QueueInv'
    BY <1>5, QueueStutter DEF Raise, TypeOK
<1>6. ASSUME NEW g \in Gathers, Settle(g) PROVE QueueInv'
    BY <1>6, QueueStutter DEF Settle, TypeOK
<1>7. ASSUME NEW g \in Gathers, NEW a \in Agents, FinishFunction(g, a) PROVE QueueInv'
    BY <1>7, QueueStutter DEF FinishFunction, End, Agents, TypeOK
<1>8. ASSUME NEW g \in Gathers, NEW a \in Agents, Cancelled(g, a) PROVE QueueInv'
    BY <1>8, QueueStutter DEF Cancelled, End, Agents, TypeOK
<1>9. ASSUME NEW g \in Gathers, NEW a \in Agents, FinishCoroutine(g, a) PROVE QueueInv'
    <2>1. a \notin Functions
        BY <1>9, AgentsAssumption DEF FinishCoroutine
    <2>2. \A h \in Gathers, b \in Functions : task'[h][b] = task[h][b]
        BY <1>9, <2>1 DEF FinishCoroutine, End, Agents, TypeOK
    <2> QED
        BY <1>9, <2>2, QueueStutter DEF FinishCoroutine
<1>10. ASSUME NEW g \in Gathers, NEW a \in Agents, Abort(g, a) PROVE QueueInv'
    BY <1>10, QueueStutter DEF Abort, End, Agents, TypeOK
<1>11. ASSUME queue # <<>>, queue' = Tail(queue), UNCHANGED <<pc, task, result>>,
              running' = running \/ running' = running \cup {Head(queue)}
       PROVE  QueueInv'
    <2>1. /\ Head(queue) = queue[1] /\ 1 \in 1..Len(queue)
          /\ \A i \in 1..Len(queue') : i + 1 \in 1..Len(queue) /\ queue'[i] = queue[i + 1]
        BY <1>11, TailEntries DEF TypeOK
    <2>2. \A i \in 1..Len(queue') : queue'[i] # Head(queue)
        BY <2>1 DEF QueueInv
    <2>3. \A i, j \in 1..Len(queue') : queue'[i] = queue'[j] => i = j
        BY <2>1 DEF QueueInv
    <2>4. pc[Head(queue)[1]] # "idle"
        BY <2>1 DEF QueueInv
    <2>5. \A i \in 1..Len(queue') :
            /\ queue'[i][2] \in Functions
            /\ queue'[i] \notin running' /\ result'[queue'[i]] = "none"
            /\ pc'[queue'[i][1]] # "idle"
            /\ task'[queue'[i][1]][queue'[i][2]] \in {"awaits", "cancelled"}
        BY <1>11, <2>1, <2>2 DEF QueueInv
    <2> QED
        BY <1>11, <2>3, <2>4, <2>5 DEF QueueInv
<1>12. ASSUME Return PROVE QueueInv'
    <2>1. PICK c \in running :
            /\ running' = running \ {c} /\ UNCHANGED <<pc, task, queue>>
            /\ \E how \in {"answered", "failed"} : result' = [result EXCEPT ![c] = how]
        BY <1>12 DEF Return
    <2>2. \A d \in Calls \ {c} : result'[d] = result[d]
        BY <2>1 DEF TypeOK
    <2>3. c \in Calls /\ pc[c[1]] # "idle"
        BY DEF QueueInv, TypeOK
    <2> QED
        BY <2>1, <2>2, <2>3, Entries DEF QueueInv
<1>13. CASE UNCHANGED vars
    BY <1>13, QueueStutter DEF vars, executor
<1> QED
    BY <1>1, <1>2, <1>3, <1>4, <1>5, <1>6, <1>7, <1>8, <1>9, <1>10, <1>11, <1>12, <1>13
    DEF Next, Loop, Pick, Drop

-----------------------------------------------------------------------------
(* Why a gather ends. *)

LEMMA EndsStep ==
    ASSUME TypeOK, EndsForAReason, [Next]_vars
    PROVE  EndsForAReason'
<1> USE DEF verdict, executor
<1>1. ASSUME NEW g \in Gathers, Collect(g) PROVE EndsForAReason'
    <2> SUFFICES ASSUME NEW h \in Gathers, pc'[h] \in {"settle", "voted", "failed"}
                 PROVE  \/ seen'[h] = Agents
                        \/ late'[h]
                        \/ early'[h] /\ Cardinality(answers'[h]) >= Quorum
        BY DEF EndsForAReason
    <2>1. pc[g] = "wait" /\ UNCHANGED late
        BY <1>1 DEF Collect
    <2>2. CASE h # g
        <3>1. /\ seen'[h] = seen[h] /\ answers'[h] = answers[h] /\ early'[h] = early[h]
              /\ pc'[h] = pc[h]
            BY <1>1, <2>2 DEF Collect, Leave, TypeOK
        <3> QED
            BY <2>1, <3>1 DEF EndsForAReason
    <2>3. CASE h = g
        <3>1. early'[g] \/ late[g] \/ seen'[g] = Agents
            BY <1>1, <2>1, <2>3 DEF Collect
        <3>2. PICK confident \in BOOLEAN :
                early' = [early EXCEPT ![g] = confident /\ Cardinality(answers'[g]) >= Quorum]
            BY <1>1, Zenon DEF Collect
        <3>3. early'[g] => Cardinality(answers'[g]) >= Quorum
            BY <3>2 DEF TypeOK
        <3> QED
            BY <2>1, <2>3, <3>1, <3>3
    <2> QED
        BY <2>2, <2>3
<1>2. ASSUME NEW g \in Gathers, GiveUp(g) PROVE EndsForAReason'
    BY <1>2 DEF GiveUp, Leave, TypeOK, EndsForAReason
<1>3. ASSUME NEW g \in Gathers, Settle(g) PROVE EndsForAReason'
    BY <1>3 DEF Settle, TypeOK, EndsForAReason
<1>4. ASSUME NEW g \in Gathers, Dispatch(g) \/ Deadline(g) \/ Raise(g) PROVE EndsForAReason'
    BY <1>4 DEF Dispatch, Deadline, Raise, TypeOK, EndsForAReason
<1>5. CASE UNCHANGED <<pc, seen, late, early, answers>>
    BY <1>5 DEF EndsForAReason
<1> QED
    BY <1>1, <1>2, <1>3, <1>4, <1>5
    DEF Next, Loop, FinishFunction, FinishCoroutine, Abort, Cancelled, Pick, Drop, Return, vars

-----------------------------------------------------------------------------
(* The invariant holds. *)

LEMMA Invariance == Spec => []IInv
<1>1. Init => IInv
    BY TypeInit, TasksInit, QueueInit DEF IInv, EndsForAReason, Init
<1>2. IInv /\ [Next]_vars => IInv'
    <2> SUFFICES ASSUME IInv, [Next]_vars PROVE IInv'
        OBVIOUS
    <2>1. TypeOK /\ QueueInv /\ EndsForAReason /\ \A g \in Gathers : TasksInv(g)
        BY DEF IInv
    <2>2. TypeOK'
        BY <2>1, TypeStep
    <2>3. \A h \in Gathers : TasksInv(h)'
        BY <2>1, TasksStep
    <2>4. QueueInv'
        BY <2>1, QueueStep
    <2>5. EndsForAReason'
        BY <2>1, EndsStep
    <2> QED
        BY <2>2, <2>3, <2>4, <2>5 DEF IInv
<1> QED
    BY <1>1, <1>2, PTL DEF Spec

-----------------------------------------------------------------------------
(* A gather is a poll. *)

LEMMA SameCardinality == \A S : Promise!Cardinality(S) = Cardinality(S)
BY DEF Promise!Cardinality, Cardinality

LEMMA StageMoves ==
    ASSUME TypeOK, NEW g \in Gathers, NEW to, pc' = [pc EXCEPT ![g] = to]
    PROVE  StageBar' = [StageBar EXCEPT ![g] = StageName(to)]
BY DEF TypeOK, StageBar

\* A task that ends is a reply.
LEMMA EndReplies ==
    ASSUME TypeOK, NEW g \in Gathers, NEW a \in Agents, NEW how \in Finished, End(g, a, how)
    PROVE  ReplyBar' = [ReplyBar EXCEPT ![g] = [@ EXCEPT ![a] = how]]
<1>1. task' = [task EXCEPT ![g] = [@ EXCEPT ![a] = how]]
    BY DEF End
<1>2. \A h \in Gathers \ {g} : task'[h] = task[h]
    BY <1>1 DEF TypeOK
<1>3. task'[g][a] = how /\ \A b \in Agents \ {a} : task'[g][b] = task[g][b]
    BY <1>1 DEF TypeOK
<1>4. \A h \in Gathers \ {g} : ReplyBar'[h] = ReplyBar[h]
    BY <1>2 DEF ReplyBar
<1>5. ReplyBar'[g] = [ReplyBar[g] EXCEPT ![a] = how]
    BY <1>3 DEF ReplyBar
<1>6. ReplyBar = [h \in Gathers |-> ReplyBar[h]] /\ ReplyBar' = [h \in Gathers |-> ReplyBar'[h]]
    BY DEF ReplyBar
<1> QED
    BY <1>4, <1>5, <1>6

\* Who has replied, and who has answered, in the terms of the tasks.
LEMMA Replies ==
    ASSUME NEW g \in Gathers
    PROVE  /\ Promise!Silent(g) = {a \in Agents : task[g][a] \notin Finished}
           /\ Promise!Answered(g) = {a \in Agents : task[g][a] = "answered"}
           /\ \A a \in Agents : ReplyBar[g][a] = "cancelled" <=> task[g][a] = "cancelled"
BY DEF Promise!Silent, Promise!Answered, ReplyBar, Finished

LEMMA CountedStays ==
    ASSUME \A g \in Gathers : \/ pc'[g] = pc[g] /\ answers'[g] = answers[g]
                              \/ {pc[g], pc'[g]} \cap {"voted", "failed"} = {}
    PROVE  CountedBar' = CountedBar
BY DEF CountedBar

LEMMA PollInit == Init => Promise!Init
<1> SUFFICES ASSUME Init PROVE Promise!Init
    OBVIOUS
<1>1. StageBar = [g \in Gathers |-> "idle"]
    BY DEF Init, StageBar, StageName
<1>2. ReplyBar = [g \in Gathers |-> [a \in Agents |-> "none"]]
    BY DEF Init, ReplyBar, Finished
<1>3. CountedBar = [g \in Gathers |-> {}]
    BY DEF Init, CountedBar
<1> QED
    BY <1>1, <1>2, <1>3 DEF Init, Promise!Init

\* An agent that has not been asked to cancel replies.
LEMMA ReplyStep ==
    ASSUME IInv, NEW g \in Gathers, NEW a \in Agents,
           NEW how \in {"answered", "failed", "cancelled"}, End(g, a, how),
           task[g][a] = "awaits", a \notin asked[g], UNCHANGED <<pc, asked, answers, late>>
    PROVE  Promise!Reply(g, a, how)
<1>1. ReplyBar' = [ReplyBar EXCEPT ![g] = [@ EXCEPT ![a] = how]]
    BY EndReplies DEF IInv, Finished
<1>2. pc[g] \in {"wait", "raised"}
    BY DEF IInv, TypeOK, TasksInv, Finished
<1>3. StageBar[g] \in {"open", "raised"}
    BY <1>2 DEF StageBar, StageName
<1>4. a \in Promise!Silent(g)
    BY Replies DEF Finished
<1>5. UNCHANGED <<StageBar, asked, late, CountedBar>>
    BY DEF StageBar, CountedBar
<1> QED
    BY <1>1, <1>3, <1>4, <1>5 DEF Promise!Reply

\* The loop is left with all replies looked at and a reason.
LEMMA CloseStep ==
    ASSUME IInv, NEW g \in Gathers, NEW S \in SUBSET Agents,
           pc[g] = "wait", Leave(g, Agents \ S), UNCHANGED <<task, late>>,
           S = {a \in Agents : task[g][a] \in Finished},
           \A a \in S : task[g][a] # "cancelled",
           \A h \in Gathers \ {g} : answers'[h] = answers[h],
           \/ S = Agents
           \/ late[g]
           \/ Cardinality({a \in S : task[g][a] = "answered"}) >= Quorum
    PROVE  Promise!Close(g)
<1>1. TypeOK
    BY DEF IInv
<1>2. StageBar' = [StageBar EXCEPT ![g] = "closed"] /\ StageBar[g] = "open"
    BY <1>1, StageMoves DEF Leave, StageName, StageBar
<1>3. UNCHANGED <<ReplyBar, late>>
    BY DEF ReplyBar
<1>4. \A h \in Gathers \ {g} : pc'[h] = pc[h]
    BY <1>1 DEF Leave, TypeOK
<1>5. pc'[g] = "settle"
    BY <1>1 DEF Leave, TypeOK
<1>6. CountedBar' = CountedBar
    BY <1>4, <1>5, CountedStays
<1>7. Promise!Silent(g) = Agents \ S
    BY Replies
<1>8. Promise!Answered(g) = {a \in S : task[g][a] = "answered"}
    BY Replies DEF Finished
<1>9. \A a \in Agents : ReplyBar[g][a] # "cancelled"
    BY Replies DEF Finished
<1>10. asked' = [asked EXCEPT ![g] = Promise!Silent(g)]
    BY <1>7 DEF Leave
<1>11. \/ Promise!Silent(g) = {}
       \/ late[g]
       \/ Promise!Cardinality(Promise!Answered(g)) >= Quorum
    BY <1>7, <1>8, SameCardinality
<1> QED
    BY <1>2, <1>3, <1>6, <1>9, <1>10, <1>11 DEF Promise!Close, Promise!Move

LEMMA PollStep == IInv /\ IInv' /\ [Next]_vars => [Promise!Next]_(Promise!vars)
<1> SUFFICES ASSUME IInv, IInv', [Next]_vars
             PROVE  Promise!Next \/ UNCHANGED Promise!vars
    OBVIOUS
<1> USE DEF verdict, executor
<1>0. TypeOK /\ \A g \in Gathers : TasksInv(g) /\ TasksInv(g)'
    BY DEF IInv
<1>1. ASSUME NEW g \in Gathers, Dispatch(g) PROVE Promise!Open(g)
  <2>1. pc[g] = "idle" /\ pc' = [pc EXCEPT ![g] = "wait"] /\ Cardinality(Active) < Concurrency
      BY <1>1 DEF Dispatch
  <2>2. StageBar' = [StageBar EXCEPT ![g] = "open"] /\ StageBar[g] = "idle"
      BY <1>0, <2>1, StageMoves DEF StageName, StageBar
  <2>3. \A h \in Gathers \ {g} : task'[h] = task[h]
      BY <1>0, <1>1 DEF Dispatch, TypeOK
  <2>4. \A a \in Agents : task[g][a] = "none" /\ task'[g][a] = "awaits"
      BY <1>0, <1>1, <2>1 DEF Dispatch, TypeOK, TasksInv
  <2>5. ReplyBar' = ReplyBar
      BY <2>3, <2>4 DEF ReplyBar, Finished
  <2>6. CountedBar' = CountedBar
      BY <1>0, <1>1, <2>1, CountedStays DEF Dispatch, TypeOK
  <2>7. Promise!UnderWay = Active
      BY <1>0 DEF Promise!UnderWay, Active, StageBar, StageName, TypeOK
  <2>8. Promise!Cardinality(Promise!UnderWay) < Concurrency
      BY <2>1, <2>7, SameCardinality
  <2>9. UNCHANGED <<late, asked>>
      BY <1>1 DEF Dispatch
  <2> QED
      BY <2>2, <2>5, <2>6, <2>8, <2>9 DEF Promise!Open, Promise!Move
<1>2. ASSUME NEW g \in Gathers, Deadline(g) PROVE Promise!Expire(g)
  <2>1. UNCHANGED <<StageBar, ReplyBar, CountedBar, asked>>
      BY <1>2 DEF Deadline, StageBar, ReplyBar, CountedBar
  <2>2. StageBar[g] = "open"
      BY <1>2 DEF Deadline, StageBar, StageName
  <2> QED
      BY <1>2, <2>1, <2>2 DEF Deadline, Promise!Expire
<1>3. ASSUME NEW g \in Gathers, Collect(g) PROVE Promise!Close(g) \/ UNCHANGED Promise!vars
  <2>1. /\ pc[g] = "wait" /\ UNCHANGED <<task, late>>
        /\ seen'[g] = seen[g] \cup Done(g)
        /\ \A a \in Done(g) : task[g][a] # "cancelled"
        /\ \A h \in Gathers \ {g} : answers'[h] = answers[h]
      BY <1>0, <1>3 DEF Collect, TypeOK
  <2>2. seen'[g] = {a \in Agents : task[g][a] \in Finished}
      BY <1>0, <2>1 DEF Done, TasksInv, TypeOK, Finished
  <2>3. \A a \in seen'[g] : task[g][a] # "cancelled"
      BY <1>0, <2>1 DEF TasksInv
  <2>4. answers'[g] = {a \in seen'[g] : task[g][a] = "answered"}
      BY <1>0, <2>1 DEF TasksInv
  <2>5. CASE Leave(g, Agents \ seen'[g]) /\ (early'[g] \/ late[g] \/ seen'[g] = Agents)
    <3>1. PICK confident \in BOOLEAN :
            early' = [early EXCEPT ![g] = confident /\ Cardinality(answers'[g]) >= Quorum]
        BY <1>3, Zenon DEF Collect
    <3>2. early'[g] => Cardinality(answers'[g]) >= Quorum
        BY <1>0, <3>1 DEF TypeOK
    <3>3. PICK S : S = seen'[g]
        OBVIOUS
    <3>4. S \in SUBSET Agents
        BY <2>2, <3>3
    <3> QED
        BY <2>1, <2>2, <2>3, <2>4, <2>5, <3>2, <3>3, <3>4, CloseStep
  <2>6. CASE UNCHANGED <<pc, asked>>
    <3>1. UNCHANGED <<StageBar, ReplyBar, late, asked>>
        BY <2>1, <2>6 DEF StageBar, ReplyBar
    <3>2. CountedBar' = CountedBar
        BY <2>1, <2>6, CountedStays
    <3> QED
        BY <3>1, <3>2 DEF Promise!vars
  <2>7. \/ Leave(g, Agents \ seen'[g]) /\ (early'[g] \/ late[g] \/ seen'[g] = Agents)
        \/ UNCHANGED <<pc, asked>>
      BY <1>3, Zenon DEF Collect
  <2> QED
      BY <2>5, <2>6, <2>7
<1>4. ASSUME NEW g \in Gathers, GiveUp(g) PROVE Promise!Close(g)
  <2>1. /\ pc[g] = "wait" /\ late[g] /\ Done(g) = {} /\ Leave(g, Agents \ seen[g])
        /\ UNCHANGED <<task, late, answers>>
      BY <1>4 DEF GiveUp
  <2>2. seen[g] = {a \in Agents : task[g][a] \in Finished}
      BY <1>0, <2>1 DEF Done, TasksInv, TypeOK, Finished
  <2>3. \A a \in seen[g] : task[g][a] # "cancelled"
      BY <1>0 DEF TasksInv
  <2>4. seen[g] \in SUBSET Agents
      BY <2>2
  <2> QED
      BY <2>1, <2>2, <2>3, <2>4, CloseStep
<1>5. ASSUME NEW g \in Gathers, Raise(g) PROVE Promise!Raise(g)
  <2>1. /\ pc[g] = "wait" /\ pc' = [pc EXCEPT ![g] = "raised"]
        /\ UNCHANGED <<task, asked, late, answers>>
        /\ \E a \in Agents : task[g][a] = "cancelled"
      BY <1>5 DEF Raise, Done
  <2>2. StageBar' = [StageBar EXCEPT ![g] = "raised"] /\ StageBar[g] = "open"
      BY <1>0, <2>1, StageMoves DEF StageName, StageBar
  <2>3. \E a \in Agents : ReplyBar[g][a] = "cancelled"
      BY <2>1, Replies
  <2>4. CountedBar' = CountedBar
      BY <1>0, <2>1, CountedStays DEF TypeOK
  <2>5. UNCHANGED <<ReplyBar, late, asked>>
      BY <2>1 DEF ReplyBar
  <2> QED
      BY <2>2, <2>3, <2>4, <2>5 DEF Promise!Raise, Promise!Move
<1>6. ASSUME NEW g \in Gathers, Settle(g) PROVE Promise!Decide(g)
  <2>1. /\ pc[g] = "settle" /\ \A a \in asked[g] : task[g][a] \in Finished
        /\ pc' = [pc EXCEPT ![g] = IF answers[g] = {} THEN "failed" ELSE "voted"]
        /\ UNCHANGED <<task, asked, late, answers>>
      BY <1>6 DEF Settle
  <2>2. \A a \in Agents : a \in asked[g] \/ a \in seen[g]
      BY <1>0, <2>1 DEF TasksInv
  <2>3. \A a \in Agents : task[g][a] \in Finished
      BY <1>0, <2>1, <2>2 DEF TasksInv, Finished
  <2>4. Promise!Silent(g) = {}
      BY <2>3, Replies
  <2>5. answers[g] = Promise!Answered(g)
    <3>1. \A a \in asked[g] : task[g][a] # "answered"
        BY <1>0, <2>1 DEF TasksInv
    <3>2. answers[g] = {a \in seen[g] : task[g][a] = "answered"} /\ seen[g] \subseteq Agents
        BY <1>0 DEF TasksInv, TypeOK
    <3> QED
        BY <2>2, <3>1, <3>2, Replies
  <2>6. /\ StageBar' = [StageBar EXCEPT ![g] = IF answers[g] = {} THEN "failed" ELSE "voted"]
        /\ StageBar[g] = "closed"
      BY <1>0, <2>1, StageMoves DEF StageName, StageBar
  <2>7. CountedBar' = [CountedBar EXCEPT ![g] = answers[g]]
      BY <1>0, <2>1 DEF CountedBar, TypeOK
  <2>8. UNCHANGED <<ReplyBar, late, asked>>
      BY <2>1 DEF ReplyBar
  <2> QED
      BY <2>4, <2>5, <2>6, <2>7, <2>8 DEF Promise!Decide, Promise!Move
<1>7. ASSUME NEW g \in Gathers, NEW a \in Agents,
             FinishFunction(g, a) \/ FinishCoroutine(g, a) \/ Abort(g, a)
      PROVE  \E how \in {"answered", "failed", "cancelled"} : Promise!Reply(g, a, how)
  <2>1. /\ task[g][a] = "awaits" /\ a \notin asked[g]
        /\ UNCHANGED <<pc, asked, answers, late>>
      BY <1>7 DEF FinishFunction, FinishCoroutine, Abort
  <2>2. a \in Functions /\ result[<<g, a>>] # "none"
          => result[<<g, a>>] \in {"answered", "failed"}
      BY <1>0 DEF TypeOK, Calls
  <2>3. \E how \in {"answered", "failed", "cancelled"} : End(g, a, how)
      BY <1>7, <2>2 DEF FinishFunction, FinishCoroutine, Abort
  <2> QED
      BY <2>1, <2>3, ReplyStep
<1>8. ASSUME NEW g \in Gathers, NEW a \in Agents, Cancelled(g, a) PROVE Promise!End(g, a)
  <2>1. /\ task[g][a] = "awaits" /\ a \in asked[g] /\ End(g, a, "cancelled")
        /\ UNCHANGED <<pc, asked, answers, late>>
      BY <1>8 DEF Cancelled
  <2>2. ReplyBar' = [ReplyBar EXCEPT ![g] = [@ EXCEPT ![a] = "cancelled"]]
      BY <1>0, <2>1, EndReplies DEF Finished
  <2>3. a \in Promise!Silent(g)
      BY <2>1, Replies DEF Finished
  <2>4. UNCHANGED <<StageBar, CountedBar>>
      BY <2>1 DEF StageBar, CountedBar
  <2> QED
      BY <2>1, <2>2, <2>3, <2>4 DEF Promise!End
<1>9. ASSUME UNCHANGED <<pc, task, asked, answers, late>> PROVE UNCHANGED Promise!vars
    BY <1>9 DEF Promise!vars, StageBar, ReplyBar, CountedBar
<1>10. CASE Pick \/ Drop \/ Return \/ UNCHANGED vars
    BY <1>9, <1>10 DEF Pick, Drop, Return, vars
<1> QED
    BY <1>1, <1>2, <1>3, <1>4, <1>5, <1>6, <1>7, <1>8, <1>10
        DEF Next, Loop, Promise!Next

-----------------------------------------------------------------------------
(* A gather ends. *)

\* The steps that the loop still has to make for gather g, at most.
Unfinished(g) == {a \in Agents : task[g][a] \notin Finished}
Stages == [idle |-> 3, wait |-> 2, settle |-> 1, voted |-> 0, failed |-> 0, raised |-> 0]
Left(g) ==
    Cardinality(Unfinished(g)) + Cardinality(Agents \ seen[g])
        + (IF late[g] THEN 0 ELSE 1) + Stages[pc[g]]

\* What a gather that settles waits for: tasks that it has cancelled itself and that
\* the loop can end, whatever their functions do.
NothingHoldsUp ==
    \A g \in Gathers :
        pc[g] = "settle" =>
            \A a \in Agents :
                task[g][a] \in Finished \/ (task[g][a] = "awaits" /\ a \in asked[g])

\* A gather is not delayed by what others do, and each step of its own brings it
\* closer to its end.
StepsRunOut ==
    [][\A g \in Gathers : Left(g)' <= Left(g) /\ (Loop(g) => Left(g)' < Left(g))]_vars

LEMMA AgentsAreFinite == IsFiniteSet(Agents)
<1>1. IsFiniteSet(1..Len(Plain))
    BY AgentsAssumption, FS_Interval
<1>2. Plain \in Surjection(1..Len(Plain), Functions)
    BY AgentsAssumption DEF Surjection, Functions
<1>3. IsFiniteSet(Functions)
    BY <1>1, <1>2, FS_Surjection
<1> QED
    BY <1>3, AgentsAssumption, FS_Union DEF Agents

LEMMA Sizes ==
    ASSUME NEW S \in SUBSET Agents, NEW T \in SUBSET S
    PROVE  /\ Cardinality(S) \in Nat /\ Cardinality(T) \in Nat
           /\ Cardinality(S) <= Cardinality(Agents) /\ Cardinality(Agents) \in Nat
           /\ Cardinality(T) <= Cardinality(S)
           /\ T # S => Cardinality(T) < Cardinality(S)
BY AgentsAreFinite, FS_Subset, FS_CardinalityType

LEMMA LeftBounded ==
    ASSUME TypeOK, NEW g \in Gathers
    PROVE  Left(g) \in 0..(2 * Cardinality(Agents) + 4)
<1>1. Unfinished(g) \in SUBSET Agents /\ Agents \ seen[g] \in SUBSET Agents
    BY DEF Unfinished
<1>2. Stages[pc[g]] \in 0..3
    BY DEF TypeOK, Stages
<1>3. late[g] \in BOOLEAN
    BY DEF TypeOK
<1>4. /\ Cardinality(Unfinished(g)) \in 0..Cardinality(Agents)
      /\ Cardinality(Agents \ seen[g]) \in 0..Cardinality(Agents)
      /\ Cardinality(Agents) \in Nat
    BY <1>1, Sizes
<1> QED
    BY <1>2, <1>3, <1>4 DEF Left

\* What is left shrinks with each of its parts.
LEMMA Shrinks ==
    ASSUME TypeOK, TypeOK', NEW g \in Gathers,
           Unfinished(g)' \subseteq Unfinished(g), seen[g] \subseteq seen'[g],
           late[g] => late'[g], Stages[pc'[g]] <= Stages[pc[g]]
    PROVE  /\ Left(g)' <= Left(g)
           /\ \/ Unfinished(g)' # Unfinished(g)
              \/ seen'[g] # seen[g]
              \/ late'[g] # late[g]
              \/ Stages[pc'[g]] < Stages[pc[g]]
              => Left(g)' < Left(g)
<1> DEFINE u == Cardinality(Unfinished(g))     v == Cardinality(Unfinished(g)')
           s == Cardinality(Agents \ seen[g])  r == Cardinality(Agents \ seen'[g])
           x == Stages[pc[g]]                  y == Stages[pc'[g]]
           b == IF late[g] THEN 0 ELSE 1       c == IF late'[g] THEN 0 ELSE 1
<1>1. /\ Unfinished(g) \in SUBSET Agents /\ Unfinished(g)' \in SUBSET Unfinished(g)
      /\ Agents \ seen[g] \in SUBSET Agents /\ Agents \ seen'[g] \in SUBSET (Agents \ seen[g])
    BY DEF Unfinished
<1>2. u \in Nat /\ v \in Nat /\ v <= u /\ (Unfinished(g)' # Unfinished(g) => v < u)
    BY <1>1, Sizes
<1>3. s \in Nat /\ r \in Nat /\ r <= s /\ (Agents \ seen'[g] # Agents \ seen[g] => r < s)
    BY <1>1, Sizes
<1>4. seen'[g] # seen[g] => Agents \ seen'[g] # Agents \ seen[g]
    BY DEF TypeOK
<1>5. x \in Nat /\ y \in Nat
    BY DEF TypeOK, Stages
<1>6. late[g] \in BOOLEAN /\ late'[g] \in BOOLEAN
    BY DEF TypeOK
<1>7. b \in Nat /\ c \in Nat /\ c <= b /\ (late'[g] # late[g] => c < b)
    BY <1>6
<1>8. Left(g) = u + s + b + x /\ Left(g)' = v + r + c + y
    BY DEF Left
<1> HIDE DEF u, v, s, r, x, y, b, c
<1> QED
    BY <1>2, <1>3, <1>4, <1>5, <1>7, <1>8 DEF x, y

LEMMA LeftTypes ==
    ASSUME TypeOK, TypeOK', NEW g \in Gathers
    PROVE  Left(g) \in Nat /\ Left(g)' \in Nat
<1>1. Unfinished(g) \in SUBSET Agents /\ Unfinished(g)' \in SUBSET Agents
    BY DEF Unfinished
<1>2. /\ Cardinality(Unfinished(g)) \in Nat /\ Cardinality(Agents \ seen[g]) \in Nat
      /\ Cardinality(Unfinished(g)') \in Nat /\ Cardinality(Agents \ seen'[g]) \in Nat
    BY <1>1, Sizes
<1>3. Stages[pc[g]] \in Nat /\ Stages[pc'[g]] \in Nat
    BY DEF TypeOK, Stages
<1>4. late[g] \in BOOLEAN /\ late'[g] \in BOOLEAN
    BY DEF TypeOK
<1> QED
    BY <1>2, <1>3, <1>4 DEF Left

LEMMA LeftStays ==
    ASSUME NEW g \in Gathers, task'[g] = task[g], seen'[g] = seen[g], late'[g] = late[g],
           pc'[g] = pc[g]
    PROVE  Left(g)' = Left(g)
<1>1. Unfinished(g)' = Unfinished(g)
    BY DEF Unfinished
<1> QED
    BY <1>1 DEF Left

LEMMA RunsOut ==
    ASSUME IInv, TypeOK', [Next]_vars
    PROVE  \A g \in Gathers : Left(g)' <= Left(g) /\ (Loop(g) => Left(g)' < Left(g))
<1> USE DEF verdict, executor
<1>0. TypeOK /\ \A g \in Gathers : TasksInv(g)
    BY DEF IInv
<1>1. ASSUME NEW g \in Gathers, NEW h \in Gathers \ {g},
             \/ Loop(g)
             \/ \E a \in Agents : FinishCoroutine(g, a) \/ Abort(g, a)
      PROVE  Left(h)' = Left(h)
    <2>1. CASE Dispatch(g) \/ Deadline(g) \/ GiveUp(g) \/ Raise(g) \/ Settle(g)
        BY <1>0, <2>1, LeftStays DEF Dispatch, Deadline, GiveUp, Leave, Raise, Settle, TypeOK
    <2>2. CASE Collect(g)
        <3>1. Leave(g, Agents \ seen'[g]) \/ UNCHANGED <<pc, asked>>
            BY <2>2, Zenon DEF Collect
        <3> QED
            BY <1>0, <2>2, <3>1, LeftStays DEF Collect, Leave, TypeOK
    <2>3. ASSUME NEW a \in Agents,
                 \/ FinishFunction(g, a) \/ Cancelled(g, a)
                 \/ FinishCoroutine(g, a) \/ Abort(g, a)
          PROVE  Left(h)' = Left(h)
        BY <1>0, <2>3, LeftStays
        DEF FinishFunction, Cancelled, FinishCoroutine, Abort, End, TypeOK
    <2> QED
        BY <1>1, <2>1, <2>2, <2>3 DEF Loop
<1>2. ASSUME NEW g \in Gathers, NEW a \in Agents,
             \/ FinishFunction(g, a) \/ Cancelled(g, a)
             \/ FinishCoroutine(g, a) \/ Abort(g, a)
      PROVE  Left(g)' < Left(g)
    <2>1. task[g][a] = "awaits" /\ UNCHANGED <<pc, seen, late>>
        BY <1>2 DEF FinishFunction, Cancelled, FinishCoroutine, Abort
    <2>2. a \in Functions /\ result[<<g, a>>] # "none" => result[<<g, a>>] \in Finished
        BY <1>0 DEF TypeOK, Calls, Finished
    <2>3. \E how \in Finished : End(g, a, how)
        BY <1>2, <2>2 DEF FinishFunction, Cancelled, FinishCoroutine, Abort, Finished
    <2>4. task'[g][a] \in Finished /\ \A b \in Agents \ {a} : task'[g][b] = task[g][b]
        BY <1>0, <2>3 DEF End, TypeOK
    <2>5. Unfinished(g)' \subseteq Unfinished(g) /\ Unfinished(g)' # Unfinished(g)
        BY <2>1, <2>4 DEF Unfinished, Finished
    <2>6. Stages[pc'[g]] = Stages[pc[g]] /\ Stages[pc[g]] \in Nat
        BY <1>0, <2>1 DEF TypeOK, Stages
    <2> QED
        BY <1>0, <2>1, <2>5, <2>6, Shrinks
<1>3. ASSUME NEW g \in Gathers, Dispatch(g) PROVE Left(g)' < Left(g)
    <2>1. /\ pc[g] = "idle" /\ pc'[g] = "wait" /\ UNCHANGED <<seen, late>>
          /\ \A a \in Agents : task[g][a] = "none"
        BY <1>0, <1>3 DEF Dispatch, TypeOK, TasksInv
    <2>2. Unfinished(g)' \subseteq Unfinished(g)
        BY <2>1 DEF Unfinished, Finished
    <2> QED
        BY <1>0, <2>1, <2>2, Shrinks DEF Stages
<1>4. ASSUME NEW g \in Gathers, Deadline(g) \/ GiveUp(g) \/ Raise(g) \/ Settle(g)
      PROVE  Left(g)' < Left(g)
    <2>1. /\ UNCHANGED <<task, seen>>
          /\ late[g] => late'[g]
          /\ \/ late'[g] # late[g] /\ pc'[g] = pc[g]
             \/ Stages[pc'[g]] < Stages[pc[g]]
        BY <1>0, <1>4 DEF Deadline, GiveUp, Leave, Raise, Settle, TypeOK, Stages
    <2>2. Stages[pc[g]] \in Nat /\ Stages[pc'[g]] \in Nat
        BY <1>0 DEF TypeOK, Stages
    <2>3. Unfinished(g)' = Unfinished(g)
        BY <2>1 DEF Unfinished
    <2> QED
        BY <1>0, <2>1, <2>2, <2>3, Shrinks
<1>5. ASSUME NEW g \in Gathers, Collect(g) PROVE Left(g)' < Left(g)
    <2>1. /\ pc[g] = "wait" /\ UNCHANGED <<task, late>> /\ Done(g) # {}
          /\ seen'[g] = seen[g] \cup Done(g)
        BY <1>0, <1>5 DEF Collect, TypeOK
    <2>2. seen[g] \subseteq seen'[g] /\ seen'[g] # seen[g]
        BY <2>1 DEF Done
    <2>3. Leave(g, Agents \ seen'[g]) \/ UNCHANGED <<pc, asked>>
        BY <1>5, Zenon DEF Collect
    <2>4. Stages[pc'[g]] <= Stages[pc[g]]
        BY <1>0, <2>1, <2>3 DEF Leave, TypeOK, Stages
    <2>5. Unfinished(g)' = Unfinished(g)
        BY <2>1 DEF Unfinished
    <2> QED
        BY <1>0, <2>1, <2>2, <2>4, <2>5, Shrinks
<1>6. ASSUME NEW g \in Gathers, Loop(g) PROVE Left(g)' < Left(g)
    BY <1>2, <1>3, <1>4, <1>5, <1>6 DEF Loop
<1>7. ASSUME NEW h \in Gathers PROVE Left(h)' <= Left(h)
    <2>1. Left(h) \in Nat /\ Left(h)' \in Nat
        BY <1>0, LeftTypes
    <2>2. CASE Pick \/ Drop \/ Return \/ UNCHANGED vars
        BY <2>1, <2>2, LeftStays DEF Pick, Drop, Return, vars
    <2>3. ASSUME NEW g \in Gathers,
                 \/ Loop(g)
                 \/ \E a \in Agents : FinishCoroutine(g, a) \/ Abort(g, a)
          PROVE  Left(h)' <= Left(h)
        <3>1. CASE h # g
            BY <1>1, <2>1, <2>3, <3>1
        <3>2. CASE h = g
            BY <1>2, <1>6, <2>1, <2>3, <3>2
        <3> QED
            BY <3>1, <3>2
    <2> QED
        BY <2>2, <2>3 DEF Next
<1> QED
    BY <1>6, <1>7

-----------------------------------------------------------------------------
(* The theorems. *)

\* The gathers, their tasks and the executor stay well formed.
THEOREM TypeCorrect == Spec => []TypeOK
<1>1. IInv => TypeOK
    BY DEF IInv
<1> QED
    BY <1>1, Invariance, PTL

\* A gather that votes or fails has counted every answer given to it.
THEOREM EveryAnswerCounts == Spec => []AnswersCount
<1>1. IInv => AnswersCount
    <2> SUFFICES ASSUME IInv, NEW g \in Gathers, pc[g] \in {"voted", "failed"}
                 PROVE  answers[g] = {a \in Agents : task[g][a] = "answered"}
        BY DEF AnswersCount
    <2>1. \A a \in Agents \ seen[g] : task[g][a] = "cancelled"
        BY DEF IInv, TasksInv
    <2>2. answers[g] = {a \in seen[g] : task[g][a] = "answered"} /\ seen[g] \subseteq Agents
        BY DEF IInv, TypeOK, TasksInv
    <2> QED
        BY <2>1, <2>2
<1> QED
    BY <1>1, Invariance, PTL

\* A gather gives up agents only with a quorum of answers or past its deadline.
THEOREM AgentsGivenUpForAReason == Spec => []EndsForAReason
<1>1. IInv => EndsForAReason
    BY DEF IInv
<1> QED
    BY <1>1, Invariance, PTL

\* A gather that votes or fails leaves neither a task nor a function that is still
\* to begin.
THEOREM NothingIsLeftBehind == Spec => []NoStrayTask
<1>1. IInv => NoStrayTask
    <2> SUFFICES ASSUME IInv, NEW g \in Gathers, pc[g] \in {"voted", "failed"}
                 PROVE  /\ \A a \in Agents : task[g][a] \in Finished
                        /\ \A i \in 1..Len(queue) :
                            queue[i][1] = g => task[g][queue[i][2]] = "cancelled"
        BY DEF NoStrayTask
    <2>1. \A a \in Agents : task[g][a] \in Finished
        BY DEF IInv, TasksInv, Finished
    <2>2. ASSUME NEW i \in 1..Len(queue), queue[i][1] = g
          PROVE  task[g][queue[i][2]] = "cancelled"
        <3>1. queue[i][2] \in Agents /\ task[g][queue[i][2]] \in {"awaits", "cancelled"}
            BY <2>2, Entries DEF IInv, QueueInv
        <3> QED
            BY <2>1, <3>1 DEF Finished
    <2> QED
        BY <2>1, <2>2
<1> QED
    BY <1>1, Invariance, PTL

\* Every gather is a poll: it closes with all replies, at its deadline or with a
\* quorum of answers, and its outcome counts exactly the answers given until then.
THEOREM GatherImplementsPoll == Spec => ImplementsPoll
<1>1. Init => Promise!Init
    BY PollInit
<1>2. IInv /\ IInv' /\ [Next]_vars => [Promise!Next]_(Promise!vars)
    BY PollStep
<1> QED
    BY <1>1, <1>2, Invariance, PTL DEF Spec, ImplementsPoll, Promise!Spec

\* A gather has at most 2 * n + 4 steps of its own to make, n being the number of
\* agents, whatever the others, the threads and the agents do; and while it settles,
\* it waits for nothing that may take longer than the event loop.
THEOREM GatherEndsSoon ==
    Spec => /\ [](\A g \in Gathers : Left(g) \in 0..(2 * Cardinality(Agents) + 4))
            /\ StepsRunOut
            /\ []NothingHoldsUp
<1>1. IInv => \A g \in Gathers : Left(g) \in 0..(2 * Cardinality(Agents) + 4)
    BY LeftBounded DEF IInv
<1>2. IInv /\ IInv' /\ [Next]_vars
        => [\A g \in Gathers : Left(g)' <= Left(g) /\ (Loop(g) => Left(g)' < Left(g))]_vars
    BY RunsOut DEF IInv
<1>3. IInv => NothingHoldsUp
    <2> SUFFICES ASSUME IInv, NEW g \in Gathers, pc[g] = "settle", NEW a \in Agents
                 PROVE  task[g][a] \in Finished \/ (task[g][a] = "awaits" /\ a \in asked[g])
        BY DEF NothingHoldsUp
    <2> QED
        BY DEF IInv, TasksInv, Finished
<1> QED
    BY <1>1, <1>2, <1>3, Invariance, PTL DEF Spec, StepsRunOut
=============================================================================
