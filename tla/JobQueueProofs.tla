--------------------------- MODULE JobQueueProofs ---------------------------
(***************************************************************************)
(* Safety of the job queue for every number of jobs, processes, threads,   *)
(* retries and faults.                                                     *)
(***************************************************************************)
EXTENDS JobQueueRefinement, TLAPS

\* Claiming and settling a row give a row.
LEMMA RowTypes ==
    ASSUME NEW r \in Rows, NEW ok \in BOOLEAN
    PROVE  Claimed(r) \in Rows /\ Settled(r, ok) \in Rows
BY DEF Rows, Statuses, Claimed, Settled

-----------------------------------------------------------------------------
(***************************************************************************)
(* Well-formed threads.  The type invariant is not inductive by itself: a  *)
(* record of the outcome is computed from row[at[w]], so a thread that has *)
(* a job in hand must have one, and only workers execute.  The lock is     *)
(* owned by whichever thread is between the two database calls of a        *)
(* critical section.                                                       *)
(***************************************************************************)
Roles ==
    /\ \A w \in Workers : pc[w] \in {"dead", "loop", "claim", "exec", "record"}
    /\ \A c \in Clients : pc[c] \in {"idle", "cancel", "join"}

JobInHand ==
    \A t \in Threads :
        pc[t] \in {"claim", "exec", "record", "cancel"} => at[t] \in Jobs

LockHeld ==
    \A t \in Threads :
        pc[t] \in {"claim", "record", "cancel"} => lock[Home[t]] = t

WellFormed == TypeOK /\ Roles /\ JobInHand /\ LockHeld

LEMMA WellFormedInit == Init => WellFormed
BY JobsAssumption, ThreadsAssumption, BoundsAssumption
DEF Init, WellFormed, TypeOK, Roles, JobInHand, LockHeld,
    Rows, NoRow, Statuses, Threads

LEMMA TypeStep == WellFormed /\ [Next]_vars => TypeOK'
<1> SUFFICES ASSUME WellFormed, [Next]_vars PROVE TypeOK'
    OBVIOUS
<1> USE ThreadsAssumption, BoundsAssumption
    DEF WellFormed, TypeOK, FaultKinds, Threads
<1>0. NoRow \in Rows
    BY DEF NoRow, Rows, Statuses
<1>1. ASSUME NEW c \in Clients, Enqueue(c) PROVE TypeOK'
    BY <1>1, <1>0 DEF Enqueue, AtLeastOne, Rows, Statuses
<1>2. ASSUME NEW c \in Clients, Replay(c) PROVE TypeOK'
    BY <1>2, <1>0 DEF Replay, AtLeastOne, Rows, Statuses
<1>3. ASSUME NEW c \in Clients, NEW k \in Jobs, CancelRead(c, k) PROVE TypeOK'
    BY <1>3, <1>0 DEF CancelRead, Rows, Statuses
<1>4. ASSUME NEW c \in Clients, CancelWrite(c) PROVE TypeOK'
    BY <1>4, <1>0 DEF CancelWrite, Leave
<1>5. ASSUME NEW c \in Clients, CancelDatabaseError(c) PROVE TypeOK'
    BY <1>5, <1>0 DEF CancelDatabaseError, Leave
<1>6. ASSUME NEW c \in Controllers, Start(c) PROVE TypeOK'
    BY <1>6 DEF Start
<1>7. ASSUME NEW c \in Controllers, StopRequest(c) PROVE TypeOK'
    BY <1>7 DEF StopRequest
<1>8. ASSUME NEW c \in Controllers, StopReturn(c) PROVE TypeOK'
    BY <1>8 DEF StopReturn, Joined, TimedOut
<1>9. ASSUME NEW w \in Workers, Exit(w) PROVE TypeOK'
    BY <1>9 DEF Exit
<1>10. ASSUME NEW w \in Workers, ClaimRead(w) PROVE TypeOK'
    <2>1. PICK j \in Jobs : /\ at' = [at EXCEPT ![w] = j]
                            /\ held' = [held EXCEPT ![w] = Claimed(row[j])]
        BY <1>10 DEF ClaimRead, Queued
    <2>2. Claimed(row[j]) \in Rows
        BY RowTypes
    <2>3. QED
        BY <1>10, <2>1, <2>2 DEF ClaimRead
<1>11. ASSUME NEW w \in Workers, ClaimWrite(w) PROVE TypeOK'
    <2>1. at[w] \in Jobs
        BY <1>11 DEF ClaimWrite, JobInHand
    <2>2. starts[at[w]] + 1 \in Nat
        BY <2>1
    <2>3. starts' \in [Jobs -> Nat]
        BY <1>11, <2>2 DEF ClaimWrite
    <2>4. QED
        BY <1>11, <1>0, <2>3 DEF ClaimWrite, Leave
<1>12. ASSUME NEW w \in Workers, ExecDone(w) PROVE TypeOK'
    <2>1. PICK ok \in BOOLEAN : held' = [held EXCEPT ![w] = Settled(row[at[w]], ok)]
        BY <1>12 DEF ExecDone
    <2>2. Settled(row[at[w]], ok) \in Rows
        BY <1>12, RowTypes DEF ExecDone, JobInHand
    <2>3. QED
        BY <1>12, <2>1, <2>2 DEF ExecDone
<1>13. ASSUME NEW w \in Workers, RecordWrite(w) PROVE TypeOK'
    BY <1>13, <1>0 DEF RecordWrite, Leave
<1>14. ASSUME NEW w \in Workers, WorkerDatabaseError(w) PROVE TypeOK'
    BY <1>14, <1>0 DEF WorkerDatabaseError, Leave
<1>15. ASSUME NEW p \in Procs, Crash(p) PROVE TypeOK'
    BY <1>15, <1>0 DEF Crash
<1>16. CASE UNCHANGED vars
    BY <1>16 DEF vars
<1>17. QED
    BY <1>1, <1>2, <1>3, <1>4, <1>5, <1>6, <1>7, <1>8, <1>9, <1>10, <1>11,
       <1>12, <1>13, <1>14, <1>15, <1>16 DEF Next

LEMMA ThreadStep == WellFormed /\ [Next]_vars => (Roles /\ JobInHand /\ LockHeld)'
<1> SUFFICES ASSUME WellFormed, [Next]_vars PROVE (Roles /\ JobInHand /\ LockHeld)'
    OBVIOUS
<1> USE ThreadsAssumption
    DEF WellFormed, TypeOK, Roles, JobInHand, LockHeld, Free, Threads
<1>1. ASSUME NEW c \in Clients, Enqueue(c) PROVE (Roles /\ JobInHand /\ LockHeld)'
    BY <1>1 DEF Enqueue
<1>2. ASSUME NEW c \in Clients, Replay(c) PROVE (Roles /\ JobInHand /\ LockHeld)'
    BY <1>2 DEF Replay
<1>3. ASSUME NEW c \in Clients, NEW k \in Jobs, CancelRead(c, k) PROVE (Roles /\ JobInHand /\ LockHeld)'
    BY <1>3 DEF CancelRead
<1>4. ASSUME NEW c \in Clients, CancelWrite(c) PROVE (Roles /\ JobInHand /\ LockHeld)'
    BY <1>4 DEF CancelWrite, Leave
<1>5. ASSUME NEW c \in Clients, CancelDatabaseError(c) PROVE (Roles /\ JobInHand /\ LockHeld)'
    BY <1>5 DEF CancelDatabaseError, Leave
<1>6. ASSUME NEW c \in Controllers, Start(c) PROVE (Roles /\ JobInHand /\ LockHeld)'
    BY <1>6 DEF Start
<1>7. ASSUME NEW c \in Controllers, StopRequest(c) PROVE (Roles /\ JobInHand /\ LockHeld)'
    BY <1>7 DEF StopRequest
<1>8. ASSUME NEW c \in Controllers, StopReturn(c) PROVE (Roles /\ JobInHand /\ LockHeld)'
    BY <1>8 DEF StopReturn, Joined, TimedOut
<1>9. ASSUME NEW w \in Workers, Exit(w) PROVE (Roles /\ JobInHand /\ LockHeld)'
    BY <1>9 DEF Exit
<1>10. ASSUME NEW w \in Workers, ClaimRead(w) PROVE (Roles /\ JobInHand /\ LockHeld)'
    BY <1>10 DEF ClaimRead, Queued
<1>11. ASSUME NEW w \in Workers, ClaimWrite(w) PROVE (Roles /\ JobInHand /\ LockHeld)'
    BY <1>11 DEF ClaimWrite, Leave
<1>12. ASSUME NEW w \in Workers, ExecDone(w) PROVE (Roles /\ JobInHand /\ LockHeld)'
    BY <1>12 DEF ExecDone
<1>13. ASSUME NEW w \in Workers, RecordWrite(w) PROVE (Roles /\ JobInHand /\ LockHeld)'
    BY <1>13 DEF RecordWrite, Leave
<1>14. ASSUME NEW w \in Workers, WorkerDatabaseError(w) PROVE (Roles /\ JobInHand /\ LockHeld)'
    BY <1>14 DEF WorkerDatabaseError, Leave
<1>15. ASSUME NEW p \in Procs, Crash(p) PROVE (Roles /\ JobInHand /\ LockHeld)'
    BY <1>15 DEF Crash
<1>16. CASE UNCHANGED vars
    BY <1>16 DEF vars
<1>17. QED
    BY <1>1, <1>2, <1>3, <1>4, <1>5, <1>6, <1>7, <1>8, <1>9, <1>10, <1>11,
       <1>12, <1>13, <1>14, <1>15, <1>16 DEF Next

LEMMA WellFormedAlways == Spec => []WellFormed
<1>1. WellFormed /\ [Next]_vars => WellFormed'
    BY TypeStep, ThreadStep DEF WellFormed
<1>2. QED
    BY WellFormedInit, <1>1, PTL DEF Spec

\* The table, the queue objects and the threads are always well typed.
THEOREM TypeCorrect == Spec => []TypeOK
<1>1. WellFormed => TypeOK
    BY DEF WellFormed
<1>2. QED
    BY WellFormedAlways, <1>1, PTL

-----------------------------------------------------------------------------
(***************************************************************************)
(* Exclusive attempts, when all workers belong to one process.  Clients of *)
(* other processes may enqueue, replay and cancel at any time.             *)
(*                                                                         *)
(* The lock alone does not give the property: it is free while an executor *)
(* runs.  What keeps a second worker away is the row, which is "running",  *)
(* or "cancelled" after a cancel(), until the attempt is recorded; the     *)
(* lock is needed so that a claim that has read the row as "queued" still  *)
(* finds nobody executing the job when it writes.                          *)
(***************************************************************************)
OneServer == \A w1, w2 \in Workers : Home[w1] = Home[w2]

ClaimIsFresh ==
    \A w \in Workers :
        pc[w] = "claim" => held[w].status = "running" /\ ~Live(at[w])

CancelCancels ==
    \A c \in Clients : pc[c] = "cancel" => held[c].status = "cancelled"

Exclusion == ClaimIsFresh /\ CancelCancels /\ LiveAttemptVisible /\ ExclusiveAttempt

LEMMA ExclusionInit == Init => Exclusion
BY ThreadsAssumption
DEF Init, Exclusion, ClaimIsFresh, CancelCancels, LiveAttemptVisible,
    ExclusiveAttempt, Live, Attempting, Threads

LEMMA ExclusionStep ==
    ASSUME OneServer
    PROVE  WellFormed /\ Exclusion /\ [Next]_vars => Exclusion'
<1> SUFFICES ASSUME WellFormed, Exclusion, [Next]_vars PROVE Exclusion'
    OBVIOUS
<1> USE ThreadsAssumption
    DEF WellFormed, TypeOK, Roles, JobInHand, LockHeld, Free, Threads, OneServer,
        Rows, Exclusion, ClaimIsFresh, CancelCancels, LiveAttemptVisible,
        ExclusiveAttempt, Live, Attempting
<1>1. ASSUME NEW c \in Clients, Enqueue(c) PROVE Exclusion'
    BY <1>1 DEF Enqueue, AtLeastOne
<1>2. ASSUME NEW c \in Clients, Replay(c) PROVE Exclusion'
    BY <1>2 DEF Replay, AtLeastOne
<1>3. ASSUME NEW c \in Clients, NEW k \in Jobs, CancelRead(c, k) PROVE Exclusion'
    BY <1>3 DEF CancelRead
<1>4. ASSUME NEW c \in Clients, CancelWrite(c) PROVE Exclusion'
    BY <1>4 DEF CancelWrite, Leave
<1>5. ASSUME NEW c \in Clients, CancelDatabaseError(c) PROVE Exclusion'
    BY <1>5 DEF CancelDatabaseError, Leave
<1>6. ASSUME NEW c \in Controllers, Start(c) PROVE Exclusion'
    BY <1>6 DEF Start
<1>7. ASSUME NEW c \in Controllers, StopRequest(c) PROVE Exclusion'
    BY <1>7 DEF StopRequest
<1>8. ASSUME NEW c \in Controllers, StopReturn(c) PROVE Exclusion'
    BY <1>8 DEF StopReturn, Joined, TimedOut
<1>9. ASSUME NEW w \in Workers, Exit(w) PROVE Exclusion'
    BY <1>9 DEF Exit
<1>10. ASSUME NEW w \in Workers, ClaimRead(w) PROVE Exclusion'
    BY <1>10 DEF ClaimRead, Claimed, Queued
<1>11. ASSUME NEW w \in Workers, ClaimWrite(w) PROVE Exclusion'
    BY <1>11 DEF ClaimWrite, Leave
<1>12. ASSUME NEW w \in Workers, ExecDone(w) PROVE Exclusion'
    BY <1>12 DEF ExecDone, Settled
<1>13. ASSUME NEW w \in Workers, RecordWrite(w) PROVE Exclusion'
    BY <1>13 DEF RecordWrite, Leave
<1>14. ASSUME NEW w \in Workers, WorkerDatabaseError(w) PROVE Exclusion'
    BY <1>14 DEF WorkerDatabaseError, Leave
<1>15. ASSUME NEW p \in Procs, Crash(p) PROVE Exclusion'
    BY <1>15 DEF Crash
<1>16. CASE UNCHANGED vars
    BY <1>16 DEF vars
<1>17. QED
    BY <1>1, <1>2, <1>3, <1>4, <1>5, <1>6, <1>7, <1>8, <1>9, <1>10, <1>11,
       <1>12, <1>13, <1>14, <1>15, <1>16 DEF Next

\* With one server process, whatever clients of this and of other processes
\* do, no job is ever executed by two workers at once.
THEOREM AttemptsAreExclusive ==
    ASSUME OneServer
    PROVE  Spec => []ExclusiveAttempt
<1>1. Spec => []Exclusion
    BY ExclusionInit, ExclusionStep, WellFormedAlways, PTL DEF Spec
<1>2. Exclusion => ExclusiveAttempt
    BY DEF Exclusion
<1>3. QED
    BY <1>1, <1>2, PTL

-----------------------------------------------------------------------------
(***************************************************************************)
(* Bounded attempts and final outcomes, when every thread belongs to one   *)
(* process.  Then a row changes only through the thread that has the lock, *)
(* so the record it is about to write still describes the row it read, and *)
(* the row counts the calls of the executor.  A client of another process  *)
(* breaks both.                                                            *)
(***************************************************************************)
OneProcess == \A t1, t2 \in Threads : Home[t1] = Home[t2]

ClaimIsCurrent ==
    \A w \in Workers :
        pc[w] = "claim" => /\ row[at[w]].status = "queued"
                           /\ held[w] = Claimed(row[at[w]])

RecordIsCurrent ==
    \A w \in Workers :
        pc[w] = "record" => \E ok \in BOOLEAN : held[w] = Settled(row[at[w]], ok)

CancelIsCurrent ==
    \A c \in Clients :
        pc[c] = "cancel" => /\ row[at[c]].status \in {"queued", "running"}
                            /\ held[c] = [row[at[c]] EXCEPT !.status = "cancelled"]

RowCounts ==
    \A j \in Jobs :
        /\ starts[j] = row[j].attempts
        /\ row[j].attempts <= row[j].max
        /\ row[j].status = "queued" => row[j].attempts < row[j].max
        /\ row[j].status = "absent" => row[j].attempts = 0 /\ row[j].max = 0
        /\ row[j].status # "absent" => row[j].max \in AttemptLimits

Current == ClaimIsCurrent /\ RecordIsCurrent /\ CancelIsCurrent

\* An accepted max_attempts is at least one and is replayed unchanged.
LEMMA LimitFacts ==
    /\ \A m \in 0..MaxTry : AtLeastOne(m) \in AttemptLimits
    /\ \A m \in AttemptLimits : m \in Nat \ {0} /\ AtLeastOne(m) = m
BY BoundsAssumption DEF AttemptLimits, AtLeastOne

LEMMA CountingInit == Init => Current /\ RowCounts
BY ThreadsAssumption
DEF Init, Current, ClaimIsCurrent, RecordIsCurrent, CancelIsCurrent, RowCounts,
    NoRow, Threads

LEMMA CurrentStep ==
    ASSUME OneProcess
    PROVE  WellFormed /\ Current /\ [Next]_vars => Current'
<1> SUFFICES ASSUME WellFormed, Current, [Next]_vars PROVE Current'
    OBVIOUS
<1> USE ThreadsAssumption
    DEF WellFormed, TypeOK, Roles, JobInHand, LockHeld, Free, Threads, OneProcess,
        Current, ClaimIsCurrent, RecordIsCurrent, CancelIsCurrent
<1>1. ASSUME NEW c \in Clients, Enqueue(c) PROVE Current'
    BY <1>1 DEF Enqueue, AtLeastOne
<1>2. ASSUME NEW c \in Clients, Replay(c) PROVE Current'
    BY <1>2 DEF Replay, AtLeastOne
<1>3. ASSUME NEW c \in Clients, NEW k \in Jobs, CancelRead(c, k) PROVE Current'
    BY <1>3 DEF CancelRead
<1>4. ASSUME NEW c \in Clients, CancelWrite(c) PROVE Current'
    BY <1>4 DEF CancelWrite, Leave
<1>5. ASSUME NEW c \in Clients, CancelDatabaseError(c) PROVE Current'
    BY <1>5 DEF CancelDatabaseError, Leave
<1>6. ASSUME NEW c \in Controllers, Start(c) PROVE Current'
    BY <1>6 DEF Start
<1>7. ASSUME NEW c \in Controllers, StopRequest(c) PROVE Current'
    BY <1>7 DEF StopRequest
<1>8. ASSUME NEW c \in Controllers, StopReturn(c) PROVE Current'
    BY <1>8 DEF StopReturn, Joined, TimedOut
<1>9. ASSUME NEW w \in Workers, Exit(w) PROVE Current'
    BY <1>9 DEF Exit
<1>10. ASSUME NEW w \in Workers, ClaimRead(w) PROVE Current'
    BY <1>10 DEF ClaimRead, Claimed, Queued
<1>11. ASSUME NEW w \in Workers, ClaimWrite(w) PROVE Current'
    BY <1>11 DEF ClaimWrite, Leave
<1>12. ASSUME NEW w \in Workers, ExecDone(w) PROVE Current'
    <2>1. PICK ok \in BOOLEAN : held' = [held EXCEPT ![w] = Settled(row[at[w]], ok)]
        BY <1>12 DEF ExecDone
    <2>2. /\ UNCHANGED <<row, at>> /\ w \in Threads
          /\ pc' = [pc EXCEPT ![w] = "record"]
        BY <1>12 DEF ExecDone
    <2>3. held'[w] = Settled(row[at[w]], ok)
        BY <2>1, <2>2
    <2>4. \A t \in Threads \ {w} : pc'[t] = pc[t] /\ held'[t] = held[t]
        BY <2>1, <2>2
    <2>5. ClaimIsCurrent'
        BY <2>2, <2>4
    <2>6. RecordIsCurrent'
        BY <2>2, <2>3, <2>4
    <2>7. CancelIsCurrent'
        BY <2>2, <2>4
    <2> QED
        BY <2>5, <2>6, <2>7
<1>13. ASSUME NEW w \in Workers, RecordWrite(w) PROVE Current'
    BY <1>13 DEF RecordWrite, Leave
<1>14. ASSUME NEW w \in Workers, WorkerDatabaseError(w) PROVE Current'
    BY <1>14 DEF WorkerDatabaseError, Leave
<1>15. ASSUME NEW p \in Procs, Crash(p) PROVE Current'
    BY <1>15 DEF Crash
<1>16. CASE UNCHANGED vars
    BY <1>16 DEF vars
<1>17. QED
    BY <1>1, <1>2, <1>3, <1>4, <1>5, <1>6, <1>7, <1>8, <1>9, <1>10, <1>11,
       <1>12, <1>13, <1>14, <1>15, <1>16 DEF Next

LEMMA CountsStep ==
    WellFormed /\ LiveAttemptVisible /\ Current /\ RowCounts /\ [Next]_vars
        => RowCounts'
<1> SUFFICES ASSUME WellFormed, LiveAttemptVisible, Current, RowCounts, [Next]_vars
             PROVE  RowCounts'
    OBVIOUS
<1> USE ThreadsAssumption
    DEF WellFormed, TypeOK, JobInHand, Threads, Rows, RowCounts
<1>1. ASSUME NEW c \in Clients, Enqueue(c) PROVE RowCounts'
    BY <1>1, LimitFacts DEF Enqueue
<1>2. ASSUME NEW c \in Clients, Replay(c) PROVE RowCounts'
    BY <1>2, LimitFacts DEF Replay
<1>3. ASSUME NEW c \in Clients, NEW k \in Jobs, CancelRead(c, k) PROVE RowCounts'
    BY <1>3 DEF CancelRead
<1>4. ASSUME NEW c \in Clients, CancelWrite(c) PROVE RowCounts'
    <2>1. /\ at[c] \in Jobs /\ row[at[c]].status # "absent"
          /\ held[c] = [row[at[c]] EXCEPT !.status = "cancelled"]
        BY <1>4 DEF CancelWrite, Current, CancelIsCurrent
    <2>2. QED
        BY <1>4, <2>1 DEF CancelWrite
<1>5. ASSUME NEW c \in Clients, CancelDatabaseError(c) PROVE RowCounts'
    BY <1>5 DEF CancelDatabaseError, Leave
<1>6. ASSUME NEW c \in Controllers, Start(c) PROVE RowCounts'
    BY <1>6 DEF Start
<1>7. ASSUME NEW c \in Controllers, StopRequest(c) PROVE RowCounts'
    BY <1>7 DEF StopRequest
<1>8. ASSUME NEW c \in Controllers, StopReturn(c) PROVE RowCounts'
    BY <1>8 DEF StopReturn, Joined, TimedOut
<1>9. ASSUME NEW w \in Workers, Exit(w) PROVE RowCounts'
    BY <1>9 DEF Exit
<1>10. ASSUME NEW w \in Workers, ClaimRead(w) PROVE RowCounts'
    BY <1>10 DEF ClaimRead, Claimed, Queued
<1>11. ASSUME NEW w \in Workers, ClaimWrite(w) PROVE RowCounts'
    <2>1. at[w] \in Jobs /\ held[w] = Claimed(row[at[w]]) /\ row[at[w]].status = "queued"
        BY <1>11 DEF ClaimWrite, Current, ClaimIsCurrent
    <2>2. QED
        BY <1>11, <2>1 DEF ClaimWrite, Claimed
<1>12. ASSUME NEW w \in Workers, ExecDone(w) PROVE RowCounts'
    BY <1>12 DEF ExecDone, Settled
<1>13. ASSUME NEW w \in Workers, RecordWrite(w) PROVE RowCounts'
    <2>1. PICK ok \in BOOLEAN : at[w] \in Jobs /\ held[w] = Settled(row[at[w]], ok)
        BY <1>13 DEF RecordWrite, Current, RecordIsCurrent
    <2>2. row[at[w]].status \in {"running", "cancelled"}
        BY <1>13, <2>1 DEF RecordWrite, LiveAttemptVisible, Live, Attempting
    <2>3. /\ held[w].attempts = row[at[w]].attempts
          /\ held[w].max = row[at[w]].max
          /\ held[w].status # "absent"
          /\ held[w].status = "queued" => row[at[w]].attempts < row[at[w]].max
        BY <2>1 DEF Settled
    <2>4. QED
        BY <1>13, <2>1, <2>2, <2>3 DEF RecordWrite
<1>14. ASSUME NEW w \in Workers, WorkerDatabaseError(w) PROVE RowCounts'
    BY <1>14 DEF WorkerDatabaseError, Leave
<1>15. ASSUME NEW p \in Procs, Crash(p) PROVE RowCounts'
    BY <1>15 DEF Crash
<1>16. CASE UNCHANGED vars
    BY <1>16 DEF vars
<1>17. QED
    BY <1>1, <1>2, <1>3, <1>4, <1>5, <1>6, <1>7, <1>8, <1>9, <1>10, <1>11,
       <1>12, <1>13, <1>14, <1>15, <1>16 DEF Next

LEMMA CountingAlways ==
    ASSUME OneProcess
    PROVE  Spec => [](WellFormed /\ Exclusion /\ Current /\ RowCounts)
<1>1. OneServer
    BY DEF OneProcess, OneServer, Threads
<1>2. Exclusion => LiveAttemptVisible
    BY DEF Exclusion
<1>3. WellFormed /\ Exclusion /\ [Next]_vars => Exclusion'
    BY <1>1, ExclusionStep
<1>4. WellFormed /\ Current /\ [Next]_vars => Current'
    BY CurrentStep
<1>5. QED
    BY WellFormedAlways, ExclusionInit, CountingInit, <1>2, <1>3, <1>4, CountsStep,
       PTL DEF Spec

\* With all callers in one process, the executor is called at most max_attempts
\* times for every job, whatever is cancelled, retried, stopped or lost.
THEOREM AttemptsAreBounded ==
    ASSUME OneProcess
    PROVE  Spec => []StartsWithinMax
<1>1. WellFormed /\ RowCounts => StartsWithinMax
    BY DEF RowCounts, StartsWithinMax, WellFormed, TypeOK, Rows
<1>2. QED
    BY CountingAlways, <1>1, PTL

\* A row that completed or failed is never rewritten, by late workers or by
\* clients of the process.
THEOREM OutcomesAreFinal ==
    ASSUME OneProcess
    PROVE  Spec => OutcomeIsFinal
<1>1. ASSUME WellFormed, LiveAttemptVisible, Current, [Next]_vars
      PROVE  \A j \in Jobs : row[j].status \in {"completed", "failed"}
                             => row'[j] = row[j]
    <2> USE <1>1 DEF WellFormed, TypeOK
    <2>1. ASSUME NEW c \in Clients, CancelWrite(c)
          PROVE  row[at[c]].status \in {"queued", "running"}
        BY <2>1 DEF CancelWrite, Current, CancelIsCurrent
    <2>2. ASSUME NEW w \in Workers, ClaimWrite(w)
          PROVE  row[at[w]].status = "queued"
        BY <2>2 DEF ClaimWrite, Current, ClaimIsCurrent
    <2>3. ASSUME NEW w \in Workers, RecordWrite(w)
          PROVE  row[at[w]].status \in {"running", "cancelled"}
        BY <2>3, ThreadsAssumption
        DEF RecordWrite, LiveAttemptVisible, Live, Attempting, JobInHand, Threads
    <2>4. QED
        BY <2>1, <2>2, <2>3
        DEF Next, vars, Enqueue, Replay, CancelRead, CancelWrite,
            CancelDatabaseError, Start, StopRequest, StopReturn, Exit, ClaimRead,
            ClaimWrite, ExecDone, RecordWrite, WorkerDatabaseError, Crash
<1>2. Exclusion => LiveAttemptVisible
    BY DEF Exclusion
<1>3. QED
    BY CountingAlways, <1>1, <1>2, PTL DEF Spec, OutcomeIsFinal

-----------------------------------------------------------------------------
(***************************************************************************)
(* Orphans: what holds until the fault that excuses its loss.              *)
(***************************************************************************)

\* Faults are spent, never returned.
LeftBounded == \A k \in FaultKinds : left[k] <= Budget[k]

LEMMA LeftInit == Init => LeftBounded
BY BoundsAssumption DEF Init, LeftBounded

\* A step that spends a fault of a kind ends its being spared.
LEMMA LeftStep ==
    ASSUME WellFormed, LeftBounded, [Next]_vars
    PROVE  /\ LeftBounded'
           /\ \A k \in FaultKinds : Spared(k)' => left'[k] = left[k] /\ Spared(k)
<1> USE BoundsAssumption DEF WellFormed, TypeOK, LeftBounded
<1>1. left \in [FaultKinds -> Nat] /\ Budget \in [FaultKinds -> Nat]
    OBVIOUS
<1>2. UNCHANGED left \/ \E k \in FaultKinds : left[k] > 0 /\ left' = [left EXCEPT ![k] = left[k] - 1]
    BY DEF Next, vars, Enqueue, Replay, CancelRead, CancelWrite, CancelDatabaseError,
           Start, StopRequest, StopReturn, Joined, TimedOut, Exit, ClaimRead, ClaimWrite,
           ExecDone, RecordWrite, WorkerDatabaseError, Crash, FaultKinds
<1>3. CASE UNCHANGED left
    BY <1>1, <1>3 DEF Spared
<1>4. ASSUME NEW k \in FaultKinds, left[k] > 0, left' = [left EXCEPT ![k] = left[k] - 1]
      PROVE  /\ LeftBounded'
             /\ \A i \in FaultKinds : Spared(i)' => left'[i] = left[i] /\ Spared(i)
    <2>1. /\ left'[k] = left[k] - 1 /\ left[k] \in Nat /\ Budget[k] \in Nat
          /\ \A i \in FaultKinds : i # k => left'[i] = left[i]
        BY <1>1, <1>4
    <2>2. left'[k] < Budget[k]
        BY <2>1, <1>1
    <2> QED
        BY <2>1, <2>2 DEF Spared
<1> QED
    BY <1>2, <1>3, <1>4

\* While one process runs the queue, a job in execution is listed as running or cancelled.
THEOREM LiveAttemptsAreVisible ==
    ASSUME OneServer
    PROVE  Spec => []LiveAttemptVisible
<1>1. Spec => []Exclusion
    BY ExclusionInit, ExclusionStep, WellFormedAlways, PTL DEF Spec
<1>2. Exclusion => LiveAttemptVisible
    BY DEF Exclusion
<1>3. QED
    BY <1>1, <1>2, PTL

LEMMA OwnedStep ==
    WellFormed /\ Exclusion /\ Current /\ LeftBounded /\ RunningIsOwned /\ [Next]_vars
        => RunningIsOwned'
<1> SUFFICES ASSUME WellFormed, Exclusion, Current, LeftBounded, RunningIsOwned, [Next]_vars,
                    Spared("crash")', Spared("database")',
                    NEW j \in Jobs, row'[j].status = "running"
             PROVE  Live(j)'
    BY DEF RunningIsOwned
<1>0. /\ left'["crash"] = left["crash"] /\ left'["database"] = left["database"]
      /\ row[j].status = "running" => Live(j)
    BY LeftStep DEF RunningIsOwned, FaultKinds
<1>a. left["crash"] \in Nat /\ left["database"] \in Nat
    BY DEF WellFormed, TypeOK, FaultKinds
<1>k. ASSUME row[j].status = "running",
             \A w \in Workers : pc[w] \in {"exec", "record"} /\ at[w] = j
                => pc'[w] \in {"exec", "record"} /\ at'[w] = at[w]
      PROVE  Live(j)'
    BY <1>0, <1>k DEF Live, Attempting
<1> USE ThreadsAssumption DEF WellFormed, TypeOK, Roles, JobInHand, Threads
<1>1. ASSUME NEW c \in Clients, Enqueue(c) \/ Replay(c) PROVE Live(j)'
    <2>1. row[j].status = "running" /\ UNCHANGED <<pc, at>>
        BY <1>1 DEF Enqueue, Replay
    <2> QED
        BY <2>1, <1>k
<1>2. ASSUME NEW c \in Clients, NEW i \in Jobs, CancelRead(c, i) PROVE Live(j)'
    <2>1. row[j].status = "running"
        BY <1>2 DEF CancelRead
    <2>2. \A w \in Workers : pc'[w] = pc[w] /\ at'[w] = at[w]
        BY <1>2 DEF CancelRead
    <2> QED
        BY <2>1, <2>2, <1>k
<1>3. ASSUME NEW c \in Clients, CancelWrite(c) PROVE Live(j)'
    <2>1. row[j].status = "running"
        BY <1>3 DEF CancelWrite, Exclusion, CancelCancels
    <2>2. \A w \in Workers : pc'[w] = pc[w] /\ at'[w] = at[w]
        BY <1>3 DEF CancelWrite, Leave
    <2> QED
        BY <2>1, <2>2, <1>k
<1>4. ASSUME NEW c \in Clients, CancelDatabaseError(c) PROVE FALSE
    BY <1>0, <1>a, <1>4 DEF CancelDatabaseError, FaultKinds
<1>5. ASSUME NEW c \in Controllers, Start(c) PROVE Live(j)'
    <2>1. row[j].status = "running" /\ at' = at
        BY <1>5 DEF Start
    <2>2. \A w \in Workers : pc[w] \in {"exec", "record"} => pc'[w] = pc[w]
        BY <1>5 DEF Start
    <2> QED
        BY <2>1, <2>2, <1>k
<1>6. ASSUME NEW c \in Controllers, StopRequest(c) \/ StopReturn(c) PROVE Live(j)'
    <2>1. row[j].status = "running" /\ at' = at
        BY <1>6 DEF StopRequest, StopReturn
    <2>2. \A w \in Workers : pc'[w] = pc[w]
        BY <1>6 DEF StopRequest, StopReturn
    <2> QED
        BY <2>1, <2>2, <1>k
<1>7. ASSUME NEW w \in Workers, Exit(w) \/ ClaimRead(w) PROVE Live(j)'
    <2>1. row[j].status = "running"
        BY <1>7 DEF Exit, ClaimRead
    <2>2. \A v \in Workers : pc[v] \in {"exec", "record"} => pc'[v] = pc[v] /\ at'[v] = at[v]
        BY <1>7 DEF Exit, ClaimRead
    <2> QED
        BY <2>1, <2>2, <1>k
<1>8. ASSUME NEW w \in Workers, ClaimWrite(w) PROVE Live(j)'
    <2>1. pc'[w] = "exec" /\ at' = at
        BY <1>8 DEF ClaimWrite, Leave
    <2>2. CASE at[w] = j
        BY <2>1, <2>2 DEF Live, Attempting
    <2>3. CASE at[w] # j
        <3>1. row[j].status = "running"
            BY <1>8, <2>3 DEF ClaimWrite
        <3>2. \A v \in Workers : pc[v] \in {"exec", "record"} => pc'[v] = pc[v]
            BY <1>8 DEF ClaimWrite, Leave
        <3> QED
            BY <2>1, <3>1, <3>2, <1>k
    <2> QED
        BY <2>2, <2>3
<1>9. ASSUME NEW w \in Workers, ExecDone(w) PROVE Live(j)'
    <2>1. row[j].status = "running" /\ at' = at
        BY <1>9 DEF ExecDone
    <2>2. \A v \in Workers : pc[v] \in {"exec", "record"} => pc'[v] \in {"exec", "record"}
        BY <1>9 DEF ExecDone
    <2> QED
        BY <2>1, <2>2, <1>k
<1>10. ASSUME NEW w \in Workers, RecordWrite(w) PROVE Live(j)'
    <2>1. PICK ok \in BOOLEAN : held[w] = Settled(row[at[w]], ok)
        BY <1>10 DEF RecordWrite, Current, RecordIsCurrent
    <2>2. at[w] \in Jobs /\ row[at[w]] \in Rows
        BY <1>10 DEF RecordWrite
    <2>3. held[w].status # "running"
        BY <2>1, <2>2 DEF Settled, Rows
    <2>4. at[w] # j /\ row[j].status = "running"
        BY <1>10, <2>3 DEF RecordWrite
    <2>5. \A v \in Workers : v # w => pc'[v] = pc[v] /\ at'[v] = at[v]
        BY <1>10 DEF RecordWrite, Leave
    <2> QED
        BY <2>4, <2>5, <1>k
<1>11. ASSUME NEW w \in Workers, WorkerDatabaseError(w) PROVE FALSE
    BY <1>0, <1>a, <1>11 DEF WorkerDatabaseError, FaultKinds
<1>12. ASSUME NEW p \in Procs, Crash(p) PROVE FALSE
    BY <1>0, <1>a, <1>12 DEF Crash, FaultKinds
<1>13. CASE UNCHANGED vars
    <2>1. row[j].status = "running" /\ UNCHANGED <<pc, at>>
        BY <1>13 DEF vars
    <2> QED
        BY <2>1, <1>k
<1> QED
    BY <1>1, <1>2, <1>3, <1>4, <1>5, <1>6, <1>7, <1>8, <1>9, <1>10, <1>11, <1>12, <1>13
       DEF Next

\* No row is left running without a worker that will record its outcome, before the
\* first crash or database error.
THEOREM RunningRowsAreOwned ==
    ASSUME OneProcess
    PROVE  Spec => []RunningIsOwned
<1>1. Init => RunningIsOwned
    BY DEF Init, RunningIsOwned, NoRow
<1>2. WellFormed /\ LeftBounded /\ [Next]_vars => LeftBounded'
    BY LeftStep
<1>3. QED
    BY <1>1, <1>2, LeftInit, CountingAlways, OwnedStep, PTL DEF Spec

LEMMA WorkerStep ==
    WellFormed /\ LeftBounded /\ RunningHasWorker /\ [Next]_vars => RunningHasWorker'
<1> SUFFICES ASSUME WellFormed, LeftBounded, RunningHasWorker, [Next]_vars, Spared("database")',
                    NEW p \in Procs, running'[p]
             PROVE  \E w \in Workers : Home[w] = p /\ pc'[w] # "dead"
    BY DEF RunningHasWorker
<1>0. /\ left'["database"] = left["database"] /\ left["database"] \in Nat
      /\ running[p] => \E w \in Workers : Home[w] = p /\ pc[w] # "dead"
    BY LeftStep DEF RunningHasWorker, FaultKinds, WellFormed, TypeOK
<1> USE ThreadsAssumption DEF WellFormed, TypeOK, Roles, Threads
<1>1. ASSUME running[p],
             \A w \in Workers : Home[w] = p /\ pc[w] # "dead" => pc'[w] # "dead"
      PROVE  \E w \in Workers : Home[w] = p /\ pc'[w] # "dead"
    BY <1>0, <1>1
<1>2. ASSUME NEW c \in Clients, Enqueue(c) \/ Replay(c)
      PROVE  \E w \in Workers : Home[w] = p /\ pc'[w] # "dead"
    BY <1>1, <1>2 DEF Enqueue, Replay
<1>3. ASSUME NEW c \in Clients, NEW i \in Jobs, CancelRead(c, i)
      PROVE  \E w \in Workers : Home[w] = p /\ pc'[w] # "dead"
    BY <1>1, <1>3 DEF CancelRead
<1>4. ASSUME NEW c \in Clients, CancelWrite(c) \/ CancelDatabaseError(c)
      PROVE  \E w \in Workers : Home[w] = p /\ pc'[w] # "dead"
    BY <1>1, <1>4 DEF CancelWrite, CancelDatabaseError, Leave
<1>5. ASSUME NEW c \in Controllers, Start(c)
      PROVE  \E w \in Workers : Home[w] = p /\ pc'[w] # "dead"
    <2>1. PICK w \in Workers : Home[w] = Home[c] /\ pc' = [pc EXCEPT ![w] = "loop"]
        BY <1>5 DEF Start
    <2>2. CASE p = Home[c]
        BY <2>1, <2>2
    <2>3. CASE p # Home[c]
        <3>1. running[p]
            BY <1>5, <2>3 DEF Start
        <3> QED
            BY <1>1, <2>1, <3>1
    <2> QED
        BY <2>2, <2>3
<1>6. ASSUME NEW c \in Controllers, StopRequest(c) \/ StopReturn(c)
      PROVE  \E w \in Workers : Home[w] = p /\ pc'[w] # "dead"
    <2>1. running[p]
        BY <1>6 DEF StopRequest, StopReturn
    <2>2. \A w \in Workers : pc'[w] = pc[w]
        BY <1>6 DEF StopRequest, StopReturn
    <2> QED
        BY <1>1, <2>1, <2>2
<1>7. ASSUME NEW w \in Workers, Exit(w)
      PROVE  \E v \in Workers : Home[v] = p /\ pc'[v] # "dead"
    <2>1. running[p] /\ Home[w] # p /\ pc' = [pc EXCEPT ![w] = "dead"]
        BY <1>7 DEF Exit
    <2> QED
        BY <1>1, <2>1
<1>8. ASSUME NEW w \in Workers, ClaimRead(w) \/ ClaimWrite(w) \/ ExecDone(w) \/ RecordWrite(w)
      PROVE  \E v \in Workers : Home[v] = p /\ pc'[v] # "dead"
    <2>1. running' = running /\ \A v \in Workers : pc[v] # "dead" => pc'[v] # "dead"
        BY <1>8 DEF ClaimRead, ClaimWrite, ExecDone, RecordWrite, Leave
    <2> QED
        BY <1>1, <2>1
<1>9. ASSUME NEW w \in Workers, WorkerDatabaseError(w) PROVE FALSE
    BY <1>0, <1>9 DEF WorkerDatabaseError, FaultKinds
<1>10. ASSUME NEW q \in Procs, Crash(q)
      PROVE  \E w \in Workers : Home[w] = p /\ pc'[w] # "dead"
    <2>1. p # q /\ running[p]
        BY <1>10 DEF Crash
    <2>2. \A w \in Workers : Home[w] = p => pc'[w] = pc[w]
        BY <1>10, <2>1 DEF Crash
    <2> QED
        BY <1>1, <2>1, <2>2
<1>11. CASE UNCHANGED vars
    BY <1>1, <1>11 DEF vars
<1> QED
    BY <1>2, <1>3, <1>4, <1>5, <1>6, <1>7, <1>8, <1>9, <1>10, <1>11 DEF Next

\* A queue that says it is running is served, before the first database error, for any
\* number of processes, stops, starts and crashes.
THEOREM RunningQueuesAreServed == Spec => []RunningHasWorker
<1>1. Init => RunningHasWorker
    BY DEF Init, RunningHasWorker
<1>2. WellFormed /\ LeftBounded /\ [Next]_vars => LeftBounded'
    BY LeftStep
<1>3. QED
    BY <1>1, <1>2, LeftInit, WellFormedAlways, WorkerStep, PTL DEF Spec

-----------------------------------------------------------------------------
(***************************************************************************)
(* One worker, when one thread of a process starts and stops its queue.    *)
(* The worker that is alive is the one that _thread refers to; it outlives *)
(* the flag only while the stop() that cleared it waits for it.            *)
(***************************************************************************)
OneController == \A c, d \in Controllers : Home[c] = Home[d] => c = d

Alive(w) == pc[w] # "dead"

Referred == \A w \in Workers : Alive(w) => thread[Home[w]] = w

Stopping ==
    \A c \in Clients : pc[c] = "join" =>
        c \in Controllers /\ joining[c] = thread[Home[c]] /\ ~running[Home[c]]

Winding ==
    \A w \in Workers : Alive(w) /\ ~running[Home[w]] =>
        \E c \in Controllers : Home[c] = Home[w] /\ pc[c] = "join"

Single == Spared("timeout") => Referred /\ Stopping /\ Winding

LEMMA SingleStep ==
    ASSUME OneController
    PROVE  WellFormed /\ LeftBounded /\ Single /\ [Next]_vars => Single'
<1> SUFFICES ASSUME WellFormed, LeftBounded, Single, [Next]_vars, Spared("timeout")'
             PROVE  Referred' /\ Stopping' /\ Winding'
    BY DEF Single
<1>0. /\ left'["timeout"] = left["timeout"] /\ left["timeout"] \in Nat
      /\ Referred /\ Stopping /\ Winding
    BY LeftStep DEF Single, FaultKinds, WellFormed, TypeOK
<1> USE <1>0, ThreadsAssumption DEF WellFormed, TypeOK, Roles, Threads, Alive
\* What wakes no worker and ends no join.
<1>1. ASSUME UNCHANGED <<running, thread, joining>>,
             \A w \in Workers : pc[w] = "dead" => pc'[w] = "dead",
             \A c \in Clients : pc'[c] = "join" <=> pc[c] = "join"
      PROVE  Referred' /\ Stopping' /\ Winding'
    BY <1>1 DEF Referred, Stopping, Winding
<1>2. ASSUME NEW c \in Clients, Enqueue(c) \/ Replay(c) PROVE Referred' /\ Stopping' /\ Winding'
    BY <1>1, <1>2 DEF Enqueue, Replay
<1>3. ASSUME NEW c \in Clients, NEW i \in Jobs, CancelRead(c, i)
      PROVE  Referred' /\ Stopping' /\ Winding'
    BY <1>1, <1>3 DEF CancelRead
<1>4. ASSUME NEW c \in Clients, CancelWrite(c) \/ CancelDatabaseError(c)
      PROVE  Referred' /\ Stopping' /\ Winding'
    BY <1>1, <1>4 DEF CancelWrite, CancelDatabaseError, Leave
<1>5. ASSUME NEW c \in Controllers, Start(c) PROVE Referred' /\ Stopping' /\ Winding'
    <2>1. PICK w \in Workers :
            /\ Home[w] = Home[c]
            /\ pc' = [pc EXCEPT ![w] = "loop"] /\ thread' = [thread EXCEPT ![Home[c]] = w]
        BY <1>5 DEF Start
    <2>2. pc[c] = "idle" /\ ~running[Home[c]] /\ Home[c] \in Procs
          /\ running' = [running EXCEPT ![Home[c]] = TRUE] /\ joining' = joining
        BY <1>5 DEF Start
    <2>3. \A d \in Controllers : Home[d] = Home[c] => d = c
        BY DEF OneController
    <2>4. \A v \in Workers : Home[v] = Home[c] => pc[v] = "dead"
        BY <2>2, <2>3 DEF Winding
    <2>5. \A d \in Clients : pc'[d] = pc[d]
        BY <2>1
    <2>6. Referred'
        BY <2>1, <2>2, <2>4 DEF Referred
    <2>7. Stopping'
        BY <2>1, <2>2, <2>3, <2>5 DEF Stopping
    <2>8. Winding'
        BY <2>1, <2>2, <2>5 DEF Winding
    <2> QED
        BY <2>6, <2>7, <2>8
<1>6. ASSUME NEW c \in Controllers, StopRequest(c) PROVE Referred' /\ Stopping' /\ Winding'
    <2>1. /\ pc[c] = "idle" /\ Home[c] \in Procs
          /\ running' = [running EXCEPT ![Home[c]] = FALSE]
          /\ joining' = [joining EXCEPT ![c] = thread[Home[c]]]
          /\ pc' = [pc EXCEPT ![c] = "join"] /\ thread' = thread
        BY <1>6 DEF StopRequest
    <2>2. \A w \in Workers : pc'[w] = pc[w]
        BY <2>1
    <2>3. Referred'
        BY <2>1, <2>2 DEF Referred
    <2>4. Stopping'
        BY <2>1 DEF Stopping
    <2>5. Winding'
        BY <2>1, <2>2 DEF Winding
    <2> QED
        BY <2>3, <2>4, <2>5
<1>7. ASSUME NEW c \in Controllers, StopReturn(c) PROVE Referred' /\ Stopping' /\ Winding'
    <2>1. /\ pc[c] = "join" /\ Home[c] \in Procs
          /\ thread' = [thread EXCEPT ![Home[c]] = None]
          /\ joining' = [joining EXCEPT ![c] = None]
          /\ pc' = [pc EXCEPT ![c] = "idle"] /\ running' = running
        BY <1>7 DEF StopReturn
    <2>2. ~TimedOut(c)
        BY DEF TimedOut, FaultKinds
    <2>3. joining[c] # None => pc[joining[c]] = "dead"
        BY <1>7, <2>2 DEF StopReturn, Joined
    <2>4. joining[c] = thread[Home[c]]
        BY <2>1 DEF Stopping
    <2>5. \A w \in Workers : Home[w] = Home[c] => pc[w] = "dead"
        BY <2>3, <2>4 DEF Referred
    <2>6. \A w \in Workers : pc'[w] = pc[w]
        BY <2>1
    <2>7. Referred'
        BY <2>1, <2>5, <2>6 DEF Referred
    <2>8. Stopping'
        BY <2>1 DEF Stopping, OneController
    <2>9. Winding'
        BY <2>1, <2>5, <2>6 DEF Winding
    <2> QED
        BY <2>7, <2>8, <2>9
<1>8. ASSUME NEW w \in Workers,
             \/ Exit(w) \/ ClaimRead(w) \/ ClaimWrite(w) \/ ExecDone(w) \/ RecordWrite(w)
             \/ WorkerDatabaseError(w)
      PROVE  Referred' /\ Stopping' /\ Winding'
    <2>1. /\ UNCHANGED <<running, thread, joining>> /\ pc[w] # "dead"
          /\ \A t \in Threads : t # w => pc'[t] = pc[t]
        BY <1>8 DEF Exit, ClaimRead, ClaimWrite, ExecDone, RecordWrite, WorkerDatabaseError, Leave
    <2> QED
        BY <2>1, <1>1
<1>9. ASSUME NEW p \in Procs, Crash(p) PROVE Referred' /\ Stopping' /\ Winding'
    <2>1. /\ \A w \in Workers : pc'[w] = IF Home[w] # p THEN pc[w] ELSE "dead"
          /\ \A c \in Clients : /\ pc'[c] = IF Home[c] # p THEN pc[c] ELSE "idle"
                                /\ joining'[c] = IF Home[c] # p THEN joining[c] ELSE None
          /\ running' = [running EXCEPT ![p] = FALSE] /\ thread' = [thread EXCEPT ![p] = None]
        BY <1>9 DEF Crash
    <2>2. \A t \in Threads : Home[t] \in Procs
        OBVIOUS
    <2>3. Referred'
        BY <2>1, <2>2 DEF Referred
    <2>4. Stopping'
        BY <2>1, <2>2 DEF Stopping
    <2>5. Winding'
        BY <2>1, <2>2 DEF Winding
    <2> QED
        BY <2>3, <2>4, <2>5
<1>10. CASE UNCHANGED vars
    BY <1>1, <1>10 DEF vars
<1> QED
    BY <1>2, <1>3, <1>4, <1>5, <1>6, <1>7, <1>8, <1>9, <1>10 DEF Next

\* Until a join times out, at most one worker of a process is alive.
THEOREM WorkersAreSingle ==
    ASSUME OneController
    PROVE  Spec => []OneWorker
<1>1. Init => Single
    BY ThreadsAssumption DEF Init, Single, Referred, Stopping, Winding, Alive, Threads
<1>2. WellFormed /\ LeftBounded /\ [Next]_vars => LeftBounded'
    BY LeftStep
<1>3. Single => OneWorker
    BY DEF Single, Referred, OneWorker, Alive
<1>4. QED
    BY <1>1, <1>2, <1>3, LeftInit, WellFormedAlways, SingleStep, PTL DEF Spec

-----------------------------------------------------------------------------
(***************************************************************************)
(* The queue of one process implements AttemptLedger.                      *)
(***************************************************************************)

Phases == [j \in Jobs |-> PhaseOf(j)]
RowLimits == [j \in Jobs |-> row[j].max]

\* A step that neither starts nor ends an attempt of a job, nor rewrites the
\* row of a job without an open attempt, is a stutter.
LEMMA LedgerStutter ==
    ASSUME UNCHANGED <<row, starts>>, \A j \in Jobs : Live(j)' <=> Live(j)
    PROVE  UNCHANGED Ledger!vars
BY DEF Ledger!vars, PhaseOf, StatusPhase

\* A step that changes the phase of one job.
LEMMA PhaseMove ==
    ASSUME NEW j \in Jobs, NEW to, PhaseOf(j)' = to,
           \A i \in Jobs \ {j} : PhaseOf(i)' = PhaseOf(i)
    PROVE  Phases' = [Phases EXCEPT ![j] = to]
BY DEF Phases

\* A thread that moves between two program points that are no attempt leaves
\* the open attempts as they are.
LEMMA LiveUnchanged ==
    ASSUME \A w \in Workers, j \in Jobs : Attempting(w, j)' <=> Attempting(w, j)
    PROVE  \A j \in Jobs : Live(j)' <=> Live(j)
BY DEF Live

LEMMA LedgerInit == Init => Ledger!Init
BY ThreadsAssumption
DEF Init, Ledger!Init, PhaseOf, StatusPhase, Live, Attempting, Threads, NoRow

LEMMA LedgerStep ==
    ASSUME OneProcess, WellFormed, Exclusion, Current, RowCounts, [Next]_vars
    PROVE  [Ledger!Next]_(Ledger!vars)
<1> USE ThreadsAssumption DEF WellFormed, TypeOK, Roles, JobInHand, Threads
<1>quiet. ASSUME UNCHANGED <<row, starts>>,
                 \A w \in Workers, j \in Jobs : Attempting(w, j)' <=> Attempting(w, j)
          PROVE  UNCHANGED Ledger!vars
    BY <1>quiet, LiveUnchanged, LedgerStutter
<1>1. ASSUME NEW c \in Clients, NEW j \in Jobs, NEW m \in AttemptLimits,
             row[j].status = "absent",
             row' = [row EXCEPT ![j] = [status |-> "queued", attempts |-> 0, max |-> m]],
             UNCHANGED <<pc, at, starts>>
      PROVE  Ledger!Post(j, m)
    <2>1. ~Live(j) /\ \A i \in Jobs : Live(i)' <=> Live(i)
        BY <1>1 DEF Exclusion, LiveAttemptVisible, Live, Attempting
    <2>2. PhaseOf(j) = "none" /\ PhaseOf(j)' = "ready"
        BY <1>1, <2>1 DEF PhaseOf, StatusPhase
    <2>3. \A i \in Jobs \ {j} : PhaseOf(i)' = PhaseOf(i)
        BY <1>1, <2>1 DEF PhaseOf
    <2>4. Phases' = [Phases EXCEPT ![j] = "ready"]
        BY <2>2, <2>3, PhaseMove
    <2>5. RowLimits' = [RowLimits EXCEPT ![j] = m]
        BY <1>1 DEF RowLimits
    <2>6. QED
        BY <1>1, <2>2, <2>4, <2>5 DEF Ledger!Post, Ledger!Move, Phases, RowLimits
<1>2. ASSUME NEW c \in Clients, Enqueue(c) PROVE Ledger!Next
    BY <1>2, <1>1, LimitFacts DEF Enqueue, Ledger!Next
<1>3. ASSUME NEW c \in Clients, Replay(c) PROVE Ledger!Next
    <2>1. PICK old \in Jobs, j \in Jobs :
             /\ row[old].status # "absent" /\ row[j].status = "absent"
             /\ row' = [row EXCEPT ![j] = [status |-> "queued", attempts |-> 0,
                                           max |-> AtLeastOne(row[old].max)]]
             /\ UNCHANGED <<pc, at, starts>>
        BY <1>3 DEF Replay
    <2>2. PICK m \in AttemptLimits : m = AtLeastOne(row[old].max)
        BY <2>1, LimitFacts DEF RowCounts
    <2>3. QED
        BY <1>1, <2>1, <2>2 DEF Ledger!Next
<1>4. ASSUME NEW c \in Clients, CancelWrite(c) PROVE Ledger!Next \/ UNCHANGED Ledger!vars
    <2>0. PICK j \in Jobs : j = at[c]
        BY <1>4 DEF CancelWrite
    <2>1. /\ row[j].status \in {"queued", "running"}
          /\ row' = [row EXCEPT ![j] = [row[j] EXCEPT !.status = "cancelled"]]
        BY <1>4, <2>0 DEF CancelWrite, Current, CancelIsCurrent
    <2>2. \A i \in Jobs : Live(i)' <=> Live(i)
        BY <1>4 DEF CancelWrite, Leave, Live, Attempting
    <2>3. RowLimits' = RowLimits /\ UNCHANGED starts
        BY <1>4, <2>1 DEF CancelWrite, RowLimits, Rows
    <2>4. \A i \in Jobs \ {j} : PhaseOf(i)' = PhaseOf(i)
        BY <2>1, <2>2 DEF PhaseOf
    <2>5. CASE Live(j)
        <3>1. Phases' = Phases
            BY <2>1, <2>2, <2>4, <2>5 DEF PhaseOf, Phases
        <3>2. QED
            BY <2>3, <3>1 DEF Ledger!vars, Phases, RowLimits
    <2>6. CASE ~Live(j)
        <3>1. PhaseOf(j) \in {"ready", "lost"} /\ PhaseOf(j)' = "withdrawn"
            BY <2>1, <2>2, <2>6 DEF PhaseOf, StatusPhase
        <3>2. Phases' = [Phases EXCEPT ![j] = "withdrawn"]
            BY <2>1, <2>4, <3>1, PhaseMove
        <3>3. Ledger!Withdraw(j)
            BY <2>1, <2>3, <3>1, <3>2
            DEF Ledger!Withdraw, Ledger!Move, Phases, RowLimits
        <3>4. QED
            BY <2>1, <3>3 DEF Ledger!Next
    <2>7. QED
        BY <2>5, <2>6
<1>5. ASSUME NEW w \in Workers, ClaimWrite(w) PROVE Ledger!Next
    <2>0. PICK j \in Jobs : j = at[w]
        BY <1>5 DEF ClaimWrite
    <2>1. /\ row[j].status = "queued"
          /\ row' = [row EXCEPT ![j] = Claimed(row[j])]
        BY <1>5, <2>0 DEF ClaimWrite, Current, ClaimIsCurrent
    <2>2. ~Live(j) /\ Live(j)' /\ \A i \in Jobs \ {j} : Live(i)' <=> Live(i)
        BY <1>5, <2>0, <2>1
        DEF ClaimWrite, Leave, Live, Attempting, Exclusion, ClaimIsFresh
    <2>3. PhaseOf(j) = "ready" /\ PhaseOf(j)' = "open"
        BY <2>1, <2>2 DEF PhaseOf, StatusPhase
    <2>4. \A i \in Jobs \ {j} : PhaseOf(i)' = PhaseOf(i)
        BY <2>1, <2>2 DEF PhaseOf
    <2>5. Phases' = [Phases EXCEPT ![j] = "open"]
        BY <2>1, <2>3, <2>4, PhaseMove
    <2>6. RowLimits' = RowLimits /\ starts[j] < row[j].max
        BY <2>1 DEF RowLimits, Claimed, RowCounts, Rows
    <2>7. Ledger!Begin(j)
        BY <1>5, <2>0, <2>3, <2>5, <2>6
        DEF ClaimWrite, Ledger!Begin, Ledger!Move, Phases, RowLimits
    <2>8. QED
        BY <2>1, <2>7 DEF Ledger!Next
<1>6. ASSUME NEW w \in Workers, RecordWrite(w) PROVE Ledger!Next
    <2>0. PICK j \in Jobs : j = at[w]
        BY <1>6 DEF RecordWrite
    <2>1. PICK ok \in BOOLEAN : row' = [row EXCEPT ![j] = Settled(row[j], ok)]
        BY <1>6, <2>0 DEF RecordWrite, Current, RecordIsCurrent
    <2>2. Live(j) /\ ~Live(j)' /\ \A i \in Jobs \ {j} : Live(i)' <=> Live(i)
        BY <1>6, <2>0
        DEF RecordWrite, Leave, Live, Attempting, Exclusion, ExclusiveAttempt
    <2>3. \A i \in Jobs \ {j} : PhaseOf(i)' = PhaseOf(i)
        BY <2>1, <2>2 DEF PhaseOf
    <2>4. RowLimits' = RowLimits /\ UNCHANGED starts
        BY <1>6, <2>1 DEF RecordWrite, RowLimits, Settled, Rows
    <2>5. PhaseOf(j) = "open"
        BY <2>2 DEF PhaseOf
    <2>6. \/ PhaseOf(j)' = "succeeded"
          \/ PhaseOf(j)' = "ready" /\ starts[j] < row[j].max
          \/ PhaseOf(j)' = "exhausted" /\ starts[j] = row[j].max
        BY <2>1, <2>2 DEF PhaseOf, StatusPhase, Settled, RowCounts, Rows
    <2>7. Phases' = [Phases EXCEPT ![j] = PhaseOf(j)']
        <3>1. PICK to : to = PhaseOf(j)'
            OBVIOUS
        <3>2. QED
            BY <2>3, <3>1, PhaseMove
    <2>8. Ledger!Succeed(j) \/ Ledger!Retry(j) \/ Ledger!Exhaust(j)
        BY <2>1, <2>4, <2>5, <2>6, <2>7
        DEF Ledger!Succeed, Ledger!Retry, Ledger!Exhaust, Ledger!Move, Phases, RowLimits
    <2>9. QED
        BY <2>1, <2>8 DEF Ledger!Next
<1>7. ASSUME NEW w \in Workers, WorkerDatabaseError(w)
      PROVE  Ledger!Next \/ UNCHANGED Ledger!vars
    <2>1. CASE pc[w] \in {"loop", "claim"}
        BY <1>7, <1>quiet, <2>1 DEF WorkerDatabaseError, Leave, Attempting
    <2>2. CASE pc[w] \in {"exec", "record"}
        <3>0. PICK j \in Jobs : j = at[w]
            BY <1>7, <2>2 DEF WorkerDatabaseError
        <3>1. UNCHANGED <<row, starts>>
            BY <1>7 DEF WorkerDatabaseError
        <3>2. Live(j) /\ ~Live(j)' /\ \A i \in Jobs \ {j} : Live(i)' <=> Live(i)
            BY <1>7, <2>2, <3>0
            DEF WorkerDatabaseError, Leave, Live, Attempting, Exclusion, ExclusiveAttempt
        <3>3. row[j].status \in {"running", "cancelled"}
            BY <3>1, <3>2 DEF Exclusion, LiveAttemptVisible
        <3>4. PhaseOf(j) = "open" /\ PhaseOf(j)' \in {"lost", "withdrawn"}
            BY <3>1, <3>2, <3>3 DEF PhaseOf, StatusPhase
        <3>5. \A i \in Jobs \ {j} : PhaseOf(i)' = PhaseOf(i)
            BY <3>1, <3>2 DEF PhaseOf
        <3>6. PICK to \in {"lost", "withdrawn"} : to = PhaseOf(j)'
            BY <3>4
        <3>7. Phases' = [Phases EXCEPT ![j] = to]
            BY <3>5, <3>6, PhaseMove
        <3>8. Ledger!Move(j, {"open"}, to)
            BY <3>4, <3>7 DEF Ledger!Move, Phases
        <3>9. RowLimits' = RowLimits
            BY <3>1 DEF RowLimits
        <3>10. Ledger!InterruptOne(j)
            BY <3>1, <3>8, <3>9 DEF Ledger!InterruptOne, RowLimits
        <3>11. QED
            BY <3>10 DEF Ledger!Next
    <2>3. QED
        BY <1>7, <2>1, <2>2 DEF WorkerDatabaseError
<1>8. ASSUME NEW p \in Procs, Crash(p) PROVE Ledger!Next \/ UNCHANGED Ledger!vars
    <2>1. UNCHANGED <<row, starts>>
        BY <1>8 DEF Crash
    <2>2. CASE \E t \in Threads : Home[t] = p
        <3>1. \A j \in Jobs : ~Live(j)'
            BY <1>8, <2>2 DEF Crash, OneProcess, Live, Attempting
        <3>2. \A j \in Jobs : Live(j) => row[j].status \in {"running", "cancelled"}
            BY DEF Exclusion, LiveAttemptVisible
        <3> DEFINE gone == {j \in Jobs : Live(j) /\ row[j].status = "cancelled"}
        <3>3. \A j \in Jobs :
                PhaseOf(j)' = IF j \in gone THEN "withdrawn"
                              ELSE IF PhaseOf(j) = "open" THEN "lost" ELSE PhaseOf(j)
            BY <2>1, <3>1, <3>2 DEF PhaseOf, StatusPhase
        <3>4. gone \in SUBSET {j \in Jobs : Phases[j] = "open"}
            BY DEF Phases, PhaseOf
        <3>5. RowLimits' = RowLimits
            BY <2>1 DEF RowLimits
        <3>6. Phases' = [j \in Jobs |-> IF j \in gone THEN "withdrawn"
                                        ELSE IF Phases[j] = "open" THEN "lost"
                                        ELSE Phases[j]]
            BY <3>3 DEF Phases
        <3>7. Ledger!Interrupt
            BY <2>1, <3>4, <3>5, <3>6 DEF Ledger!Interrupt, Phases, RowLimits
        <3>8. QED
            BY <3>7 DEF Ledger!Next
    <2>3. CASE \A t \in Threads : Home[t] # p
        BY <1>8, <1>quiet, <2>1, <2>3 DEF Crash, Attempting
    <2>4. QED
        BY <2>2, <2>3
<1>9. ASSUME NEW c \in Clients,
             CancelDatabaseError(c) \/ \E j \in Jobs : CancelRead(c, j)
      PROVE  UNCHANGED Ledger!vars
    BY <1>9, <1>quiet DEF CancelDatabaseError, CancelRead, Leave, Attempting
<1>10. ASSUME NEW c \in Controllers, Start(c) \/ StopRequest(c) \/ StopReturn(c)
       PROVE  UNCHANGED Ledger!vars
    BY <1>10, <1>quiet DEF Start, StopRequest, StopReturn, Attempting
<1>11. ASSUME NEW w \in Workers, Exit(w) \/ ClaimRead(w) \/ ExecDone(w)
       PROVE  UNCHANGED Ledger!vars
    BY <1>11, <1>quiet DEF Exit, ClaimRead, ExecDone, Queued, Attempting
<1>12. CASE UNCHANGED vars
    BY <1>12, <1>quiet DEF vars, Attempting
<1>13. QED
    BY <1>2, <1>3, <1>4, <1>5, <1>6, <1>7, <1>8, <1>9, <1>10, <1>11, <1>12
       DEF Next

\* Every behaviour of the queue of one process is a behaviour of the ledger.
THEOREM QueueImplementsLedger ==
    ASSUME OneProcess
    PROVE  Spec => ImplementsLedger
<1>1. WellFormed /\ Exclusion /\ Current /\ RowCounts /\ [Next]_vars
        => [Ledger!Next]_(Ledger!vars)
    BY LedgerStep
<1>2. QED
    BY CountingAlways, LedgerInit, <1>1, PTL DEF Spec, ImplementsLedger, Ledger!Spec

=============================================================================
