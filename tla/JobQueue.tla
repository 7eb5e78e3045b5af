------------------------------ MODULE JobQueue ------------------------------
(***************************************************************************)
(* The durable operator job queue: PersistentJobQueue of core/job_queue.py *)
(* over the jobs table of core/_database_fallback.py.                      *)
(*                                                                         *)
(* A process of Procs has one PersistentJobQueue object: its _running      *)
(* flag, its _thread reference and its RLock live in memory, while the     *)
(* rows of the table are shared by every process that opens the database   *)
(* file.  Workers are the threads that start() creates to run _run_loop,   *)
(* Clients the threads that call the public methods (API handlers, or the  *)
(* main thread of `run.py jobs`), Controllers the ones that also start and *)
(* stop the queue.                                                         *)
(*                                                                         *)
(* A job is numbered by its rank in the order (created_at, job_id) that    *)
(* list_jobs sorts by.  enqueue() stamps the record before it takes the    *)
(* lock, so the row inserted next may have any rank that is still unused.  *)
(*                                                                         *)
(* Every call of the DatabaseManager is one SQLite transaction and one     *)
(* atomic step here.  claim, cancel and record each make two of them: they *)
(* read a row, compute the record to write, and upsert the WHOLE row.      *)
(*                                                                         *)
(* A definition whose name starts with Slip is a mistake the code could    *)
(* have made in the definition after it; no run uses it unless it is put   *)
(* in that definition's place to see a property fail.                      *)
(***************************************************************************)
EXTENDS Naturals, FiniteSets

CONSTANTS
    Jobs,         \* ranks of the job records that may be created
    Procs,        \* operating-system processes that open the database
    Workers,      \* thread identities available for _run_loop
    Clients,      \* threads that call the public methods
    Controllers,  \* the clients that also call start() and stop()
    Home,         \* Home[t] is the process that thread t belongs to
    MaxTry,       \* bound: the largest max_attempts a caller asks for
    MaxStarts,    \* bound: executor calls per job (binds with several processes)
    Budget,       \* bound: how often each kind of fault may happen
    None

Threads == Workers \cup Clients
FaultKinds == {"crash", "database", "timeout"}
Statuses == {"absent", "queued", "running", "completed", "failed", "cancelled"}
Terminal == {"completed", "failed", "cancelled"}

Rows == [status : Statuses, attempts : Nat, max : Nat]

\* The snapshot a thread holds when it holds none, and the row of a job that
\* was never created.
NoRow == [status |-> "absent", attempts |-> 0, max |-> 0]

ASSUME JobsAssumption == Jobs \subseteq Nat
ASSUME ThreadsAssumption ==
    /\ Workers \cap Clients = {}
    /\ Controllers \subseteq Clients
    /\ Home \in [Threads -> Procs]
    /\ None \notin Threads
ASSUME BoundsAssumption ==
    /\ MaxTry \in Nat
    /\ MaxStarts \in Nat
    /\ Budget \in [FaultKinds -> Nat]

VARIABLES
    row,      \* the jobs table: the row of each job
    running,  \* _running of each process
    thread,   \* _thread of each process: a worker or None
    lock,     \* owner of _lock in each process
    pc,       \* where each thread is
    at,       \* the job a thread works on
    held,     \* the whole-row record a thread is about to upsert
    joining,  \* the thread that a client's stop() waits for
    starts,   \* history: calls of the executor made for each job
    left      \* faults of each kind that may still happen

vars == <<row, running, thread, lock, pc, at, held, joining, starts, left>>

\* The threads that have a lock must release it themselves: Free says that
\* another thread can enter a `with self._lock` block.
Free(p) == lock[p] = None

SlipClaimable == {j \in Jobs : row[j].status \in {"queued", "running"}}

Queued == {j \in Jobs : row[j].status = "queued"}

\* max(1, int(max_attempts))
AtLeastOne(m) == IF m < 1 THEN 1 ELSE m

\* The record _run_loop writes for the job it claims.
Claimed(r) == [status |-> "running", attempts |-> r.attempts + 1, max |-> r.max]

SlipSettledForever(r, ok) ==
    [r EXCEPT !.status = IF ok THEN "completed" ELSE "queued"]

\* The record _execute_job writes over the row it has just re-read.  It does
\* not look at the status of that row.
Settled(r, ok) ==
    [r EXCEPT !.status = IF ok THEN "completed"
                         ELSE IF r.attempts < r.max THEN "queued" ELSE "failed"]

Init ==
    /\ row = [j \in Jobs |-> NoRow]
    /\ running = [p \in Procs |-> FALSE]
    /\ thread = [p \in Procs |-> None]
    /\ lock = [p \in Procs |-> None]
    /\ pc = [t \in Threads |-> IF t \in Workers THEN "dead" ELSE "idle"]
    /\ at = [t \in Threads |-> None]
    /\ held = [t \in Threads |-> NoRow]
    /\ joining = [c \in Clients |-> None]
    /\ starts = [j \in Jobs |-> 0]
    /\ left = Budget

-----------------------------------------------------------------------------
(* Clients: the public methods. *)

\* enqueue(): one insert under the lock.
Enqueue(c) ==
    /\ pc[c] = "idle" /\ Free(Home[c])
    /\ \E j \in Jobs, m \in 0..MaxTry :
        /\ row[j].status = "absent"
        /\ row' = [row EXCEPT ![j] =
                    [status |-> "queued", attempts |-> 0, max |-> AtLeastOne(m)]]
    /\ UNCHANGED <<running, thread, lock, pc, at, held, joining, starts, left>>

SlipReplayInPlace(c) ==
    /\ pc[c] = "idle" /\ Free(Home[c])
    /\ \E old \in Jobs :
        /\ row[old].status \in Terminal
        /\ row' = [row EXCEPT ![old].status = "queued", ![old].attempts = 0]
    /\ UNCHANGED <<running, thread, lock, pc, at, held, joining, starts, left>>

\* replay(): reads a job in any status and enqueues a new one with its
\* max_attempts, which no operation changes.
Replay(c) ==
    /\ pc[c] = "idle" /\ Free(Home[c])
    /\ \E old \in Jobs, j \in Jobs :
        /\ row[old].status # "absent"
        /\ row[j].status = "absent"
        /\ row' = [row EXCEPT ![j] = [status |-> "queued", attempts |-> 0,
                                      max |-> AtLeastOne(row[old].max)]]
    /\ UNCHANGED <<running, thread, lock, pc, at, held, joining, starts, left>>

\* cancel(), up to the upsert: a terminal or missing job returns early and
\* changes nothing.
CancelRead(c, j) ==
    /\ pc[c] = "idle" /\ Free(Home[c])
    /\ row[j].status \in {"queued", "running"}
    /\ lock' = [lock EXCEPT ![Home[c]] = c]
    /\ pc' = [pc EXCEPT ![c] = "cancel"]
    /\ at' = [at EXCEPT ![c] = j]
    /\ held' = [held EXCEPT ![c] = [row[j] EXCEPT !.status = "cancelled"]]
    /\ UNCHANGED <<row, running, thread, joining, starts, left>>

\* The end of a critical section that thread t leaves for program point next.
Leave(t, next) ==
    /\ lock' = [lock EXCEPT ![Home[t]] = None]
    /\ pc' = [pc EXCEPT ![t] = next]
    /\ held' = [held EXCEPT ![t] = NoRow]

CancelWrite(c) ==
    /\ pc[c] = "cancel"
    /\ row' = [row EXCEPT ![at[c]] = held[c]]
    /\ Leave(c, "idle")
    /\ at' = [at EXCEPT ![c] = None]
    /\ UNCHANGED <<running, thread, joining, starts, left>>

SlipStartAgain(c) ==
    LET p == Home[c] IN
    /\ pc[c] = "idle" /\ Free(p)
    /\ \E w \in Workers :
        /\ Home[w] = p /\ pc[w] = "dead"
        /\ pc' = [pc EXCEPT ![w] = "loop"]
        /\ thread' = [thread EXCEPT ![p] = w]
    /\ running' = [running EXCEPT ![p] = TRUE]
    /\ UNCHANGED <<row, lock, at, held, joining, starts, left>>

\* start(): returns early while _running is set, whether or not the worker
\* is still alive.
Start(c) ==
    LET p == Home[c] IN
    /\ pc[c] = "idle" /\ Free(p)
    /\ ~running[p]
    /\ \E w \in Workers :
        /\ Home[w] = p /\ pc[w] = "dead"
        /\ \A d \in Clients : joining[d] # w     \* a thread object is not reused
        /\ pc' = [pc EXCEPT ![w] = "loop"]
        /\ thread' = [thread EXCEPT ![p] = w]
    /\ running' = [running EXCEPT ![p] = TRUE]
    /\ UNCHANGED <<row, lock, at, held, joining, starts, left>>

\* stop(), first block: clear the flag and pick up the thread to join.
StopRequest(c) ==
    LET p == Home[c] IN
    /\ pc[c] = "idle" /\ Free(p)
    /\ running' = [running EXCEPT ![p] = FALSE]
    /\ joining' = [joining EXCEPT ![c] = thread[p]]
    /\ pc' = [pc EXCEPT ![c] = "join"]
    /\ UNCHANGED <<row, thread, lock, at, held, starts, left>>

\* join(timeout=5) ended, because the thread did, ...
Joined(c) ==
    /\ joining[c] # None => pc[joining[c]] = "dead"
    /\ UNCHANGED left

\* ... or because five seconds passed while an executor was still running.
TimedOut(c) ==
    /\ joining[c] # None /\ pc[joining[c]] # "dead"
    /\ left["timeout"] > 0
    /\ left' = [left EXCEPT !["timeout"] = @ - 1]

\* stop(), second block: forget the thread, whichever start() put there.
StopReturn(c) ==
    LET p == Home[c] IN
    /\ pc[c] = "join" /\ Free(p)
    /\ Joined(c) \/ TimedOut(c)
    /\ thread' = [thread EXCEPT ![p] = None]
    /\ joining' = [joining EXCEPT ![c] = None]
    /\ pc' = [pc EXCEPT ![c] = "idle"]
    /\ UNCHANGED <<row, running, lock, at, held, starts>>

-----------------------------------------------------------------------------
(* Workers: _run_loop and _execute_job. *)

SlipExitIdle(w) ==
    /\ pc[w] = "loop" /\ Free(Home[w])
    /\ Queued = {}
    /\ pc' = [pc EXCEPT ![w] = "dead"]
    /\ UNCHANGED <<row, running, thread, lock, at, held, joining, starts, left>>

\* The loop finds _running cleared and returns.
Exit(w) ==
    /\ pc[w] = "loop" /\ Free(Home[w])
    /\ ~running[Home[w]]
    /\ pc' = [pc EXCEPT ![w] = "dead"]
    /\ UNCHANGED <<row, running, thread, lock, at, held, joining, starts, left>>

\* The loop takes the oldest queued job; without one it sleeps and tries
\* again, which changes nothing.
ClaimRead(w) ==
    /\ pc[w] = "loop" /\ Free(Home[w])
    /\ running[Home[w]]
    /\ \E j \in Queued :
        /\ \A i \in Queued : j <= i
        /\ starts[j] < MaxStarts
        /\ at' = [at EXCEPT ![w] = j]
        /\ held' = [held EXCEPT ![w] = Claimed(row[j])]
    /\ lock' = [lock EXCEPT ![Home[w]] = w]
    /\ pc' = [pc EXCEPT ![w] = "claim"]
    /\ UNCHANGED <<row, running, thread, joining, starts, left>>

\* The claim is saved, the lock released and the executor called.
ClaimWrite(w) ==
    /\ pc[w] = "claim"
    /\ row' = [row EXCEPT ![at[w]] = held[w]]
    /\ starts' = [starts EXCEPT ![at[w]] = @ + 1]
    /\ Leave(w, "exec")
    /\ UNCHANGED <<running, thread, at, joining, left>>

\* The executor returns or raises; its outcome is applied to the row as it is
\* now, read under the lock again.
ExecDone(w) ==
    /\ pc[w] = "exec" /\ Free(Home[w])
    /\ \E ok \in BOOLEAN :
        held' = [held EXCEPT ![w] = Settled(row[at[w]], ok)]
    /\ lock' = [lock EXCEPT ![Home[w]] = w]
    /\ pc' = [pc EXCEPT ![w] = "record"]
    /\ UNCHANGED <<row, running, thread, at, joining, starts, left>>

SlipRecordUnlessStopped(w) ==
    /\ pc[w] = "record"
    /\ row' = IF running[Home[w]] THEN [row EXCEPT ![at[w]] = held[w]] ELSE row
    /\ Leave(w, "loop")
    /\ at' = [at EXCEPT ![w] = None]
    /\ UNCHANGED <<running, thread, joining, starts, left>>

RecordWrite(w) ==
    /\ pc[w] = "record"
    /\ row' = [row EXCEPT ![at[w]] = held[w]]
    /\ Leave(w, "loop")
    /\ at' = [at EXCEPT ![w] = None]
    /\ UNCHANGED <<running, thread, joining, starts, left>>

-----------------------------------------------------------------------------
(* Faults. *)

\* A database call raises (SQLite gives up on a locked file, a full disk).
\* Nothing in _run_loop catches it: the worker thread ends, _running stays
\* set, and an outcome not yet recorded is lost with the thread.
WorkerDatabaseError(w) ==
    /\ \/ pc[w] = "loop" /\ running[Home[w]] /\ Free(Home[w])
       \/ pc[w] = "exec" /\ Free(Home[w])
       \/ pc[w] \in {"claim", "record"}
    /\ left["database"] > 0
    /\ left' = [left EXCEPT !["database"] = @ - 1]
    /\ Leave(w, "dead")
    /\ at' = [at EXCEPT ![w] = None]
    /\ UNCHANGED <<row, running, thread, joining, starts>>

\* The same for the upsert of cancel(): the caller sees the exception.
CancelDatabaseError(c) ==
    /\ pc[c] = "cancel"
    /\ left["database"] > 0
    /\ left' = [left EXCEPT !["database"] = @ - 1]
    /\ Leave(c, "idle")
    /\ at' = [at EXCEPT ![c] = None]
    /\ UNCHANGED <<row, running, thread, joining, starts>>

\* A process dies and comes back with a new, stopped queue object.  The rows
\* survive as they are: nothing repairs them when the queue starts.
Crash(p) ==
    /\ left["crash"] > 0
    /\ left' = [left EXCEPT !["crash"] = @ - 1]
    /\ running' = [running EXCEPT ![p] = FALSE]
    /\ thread' = [thread EXCEPT ![p] = None]
    /\ lock' = [lock EXCEPT ![p] = None]
    /\ pc' = [t \in Threads |-> IF Home[t] # p THEN pc[t]
                                ELSE IF t \in Workers THEN "dead" ELSE "idle"]
    /\ at' = [t \in Threads |-> IF Home[t] # p THEN at[t] ELSE None]
    /\ held' = [t \in Threads |-> IF Home[t] # p THEN held[t] ELSE NoRow]
    /\ joining' = [c \in Clients |-> IF Home[c] # p THEN joining[c] ELSE None]
    /\ UNCHANGED <<row, starts>>

Next ==
    \/ \E c \in Clients :
        \/ Enqueue(c) \/ Replay(c)
        \/ \E j \in Jobs : CancelRead(c, j)
        \/ CancelWrite(c) \/ CancelDatabaseError(c)
    \/ \E c \in Controllers : Start(c) \/ StopRequest(c) \/ StopReturn(c)
    \/ \E w \in Workers :
        \/ Exit(w) \/ ClaimRead(w) \/ ClaimWrite(w)
        \/ ExecDone(w) \/ RecordWrite(w) \/ WorkerDatabaseError(w)
    \/ \E p \in Procs : Crash(p)

Spec == Init /\ [][Next]_vars

(***************************************************************************)
(* The scheduler runs every thread that can run, and an executor returns   *)
(* or raises.  Nothing makes a client enqueue, cancel or stop.             *)
(***************************************************************************)
Fairness ==
    /\ \A w \in Workers :
        /\ WF_vars(Exit(w)) /\ WF_vars(ClaimRead(w)) /\ WF_vars(ClaimWrite(w))
        /\ WF_vars(ExecDone(w)) /\ WF_vars(RecordWrite(w))
    /\ \A c \in Clients : WF_vars(CancelWrite(c))

FairSpec == Spec /\ Fairness

-----------------------------------------------------------------------------
(* Properties. *)

Attempting(w, j) == pc[w] \in {"exec", "record"} /\ at[w] = j
Live(j) == \E w \in Workers : Attempting(w, j)

\* Type correctness of the table, of the queue objects and of the threads.
TypeOK ==
    /\ row \in [Jobs -> Rows]
    /\ running \in [Procs -> BOOLEAN]
    /\ thread \in [Procs -> Workers \cup {None}]
    /\ lock \in [Procs -> Threads \cup {None}]
    /\ pc \in [Threads -> {"dead", "loop", "claim", "exec", "record",
                           "idle", "cancel", "join"}]
    /\ at \in [Threads -> Jobs \cup {None}]
    /\ held \in [Threads -> Rows]
    /\ joining \in [Clients -> Workers \cup {None}]
    /\ starts \in [Jobs -> Nat]
    /\ left \in [FaultKinds -> Nat]

\* While one process runs the queue, a job is never executed by two workers at
\* once, not even when stop() gave up on a worker and start() made another, or
\* when a job was cancelled while its executor was running.
ExclusiveAttempt ==
    \A w1, w2 \in Workers, j \in Jobs :
        Attempting(w1, j) /\ Attempting(w2, j) => w1 = w2

\* While every caller shares the queue's process, the executor is called at
\* most max_attempts times for a job, whatever is cancelled, retried, stopped
\* or lost.
StartsWithinMax == \A j \in Jobs : starts[j] <= row[j].max

\* A job whose executor is running is not queued, so that no other worker of
\* the process can claim it, and not settled.
LiveAttemptVisible ==
    \A j \in Jobs : Live(j) => row[j].status \in {"running", "cancelled"}

\* No fault of this kind has happened yet.
Spared(kind) == left[kind] = Budget[kind]

\* Until the first crash or database error, a job listed as running has a worker
\* that is executing it and will record its outcome.
RunningIsOwned ==
    Spared("crash") /\ Spared("database") =>
        \A j \in Jobs : row[j].status = "running" => Live(j)

\* Until the first database error, a queue that says it is running has a thread
\* that serves it, also after a crash or after a stop() that gave up.
RunningHasWorker ==
    Spared("database") =>
        \A p \in Procs :
            running[p] => \E w \in Workers : Home[w] = p /\ pc[w] # "dead"

\* When one thread starts and stops the queue, at most one worker of a process is
\* alive until a join times out.
OneWorker ==
    Spared("timeout") =>
        \A w1, w2 \in Workers :
            pc[w1] # "dead" /\ pc[w2] # "dead" /\ Home[w1] = Home[w2] => w1 = w2

\* A job that completed or failed keeps its row for ever: no late worker and
\* no cancel() of the same process rewrites it.
OutcomeIsFinal ==
    [][\A j \in Jobs : row[j].status \in {"completed", "failed"}
                       => row'[j] = row[j]]_vars

\* Every caller who posted a job gets it settled, as long as the queue is not
\* stopped, does not crash and can write to its database: a job at the head that
\* keeps failing does not block the others.
JobsSettle ==
    /\ \A p \in Procs : <>[]running[p] \/ \A c \in Controllers : Home[c] # p
    /\ [](Spared("crash") /\ Spared("database"))
    => \A j \in Jobs : row[j].status = "queued" ~> row[j].status \in Terminal

\* Claimed by the cancel() operations of the API and of the command line
\* ("Cancel a queued or running job by id"): a cancelled job stays cancelled.
CancelIsFinal ==
    [][\A j \in Jobs : row[j].status = "cancelled"
                       => row'[j].status = "cancelled"]_vars

=============================================================================
