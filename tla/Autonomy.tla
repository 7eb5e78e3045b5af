------------------------------ MODULE Autonomy ------------------------------
(***************************************************************************)
(* The scheduler of maintenance jobs: AutonomyScheduler of                 *)
(* core/autonomy.py, with its loop thread, the API threads that start and  *)
(* stop it or run a job by hand, and the file job_state.json.              *)
(*                                                                         *)
(* The scheduler has no lock.  Times are kept as ages: age[j] is the time  *)
(* since job j's last_run_at, in ticks, or Never for 0.0.  Tick lets one    *)
(* unit of time pass for every age at once.                                *)
(*                                                                         *)
(* A definition whose name starts with Slip is a mistake the code could    *)
(* have made in the definition after it.                                   *)
(***************************************************************************)
EXTENDS Integers, Sequences, FiniteSets

CONSTANTS
    Order,        \* the enabled jobs, in the order of self.jobs
    Interval,     \* interval_seconds of each job, in ticks
    Loops,        \* thread identities available for _run_loop
    Callers,      \* API threads
    Controllers,  \* the callers that start and stop the scheduler
    Runners,      \* the callers that run jobs by hand
    AgeCap,       \* bound: older ages count as this one
    MaxLag,       \* bound: the longest a round of the loop may take, in ticks
    Events,       \* bound: how many kinds of rare events happen, each once
    None

JobNames == {Order[i] : i \in DOMAIN Order}
Threads == Loops \cup Callers
EventKinds == {"overlap", "timeout", "crash", "save", "hand"}

ASSUME ThreadsAssumption ==
    /\ Loops \cap Callers = {} /\ None \notin Threads
    /\ Controllers \subseteq Callers /\ Runners \subseteq Callers
ASSUME JobsAssumption ==
    /\ Order \in Seq(JobNames) /\ None \notin JobNames
    /\ \A i, k \in DOMAIN Order : Order[i] = Order[k] => i = k
    /\ Interval \in [JobNames -> Nat \ {0}]
ASSUME BoundsAssumption ==
    /\ MaxLag \in Nat /\ Events \in Nat
    /\ AgeCap \in Nat
    /\ \A j \in JobNames :
        AgeCap >= Interval[j] + MaxLag /\ 4 * AgeCap >= 5 * Interval[j]

VARIABLES
    age,      \* time since last_run_at
    status,   \* last_status
    file,     \* job_state.json: the age and status of each job
    running,  \* _running
    thread,   \* _thread: a loop or None
    pc,       \* where each thread is
    index,    \* the loop variable of a round, as an index into Order
    lag,      \* time since the loop read `now` at the top of the round
    job,      \* the job a thread is running
    held,     \* the payload a thread is about to save
    joining,  \* the loop a stop() waits for
    happened  \* the kinds of rare events that happened: a start() or stop()
              \* was called during another one, a join gave up, a crash, a
              \* save failed, a job was run by hand

vars == <<age, status, file, running, thread, pc, index, lag, job,
          held, joining, happened>>
jobVars == <<age, status, file>>
loopVars == <<index, lag>>

Never == -1
Ages == {Never} \cup 0..AgeCap
Payloads == [JobNames -> Ages \X {"never", "ok", "error"}]

\* What _save_job_state() takes from memory.
Payload == [j \in JobNames |-> <<age[j], status[j]>>]
NoPayload == [j \in JobNames |-> <<Never, "never">>]

Init ==
    /\ age = [j \in JobNames |-> Never]
    /\ status = [j \in JobNames |-> "never"]
    /\ file = NoPayload
    /\ running = FALSE
    /\ thread = None
    /\ pc = [t \in Threads |-> IF t \in Loops THEN "dead" ELSE "idle"]
    /\ index = [w \in Loops |-> 0]
    /\ lag = [w \in Loops |-> 0]
    /\ job = [t \in Threads |-> None]
    /\ held = [t \in Threads |-> NoPayload]
    /\ joining = [c \in Controllers |-> None]
    /\ happened = {}

Happens(kind) ==
    /\ kind \notin happened /\ Cardinality(happened) < Events
    /\ happened' = happened \cup {kind}

-----------------------------------------------------------------------------
(* start() and stop(). *)

\* A controller calls start() or stop().
Calls(c) ==
    /\ pc[c] = "idle"
    /\ IF \E d \in Controllers : pc[d] \in {"start", "join"}
       THEN Happens("overlap")
       ELSE UNCHANGED happened

SlipStartCheck(c) ==
    /\ Calls(c)
    /\ pc' = [pc EXCEPT ![c] = "start"]
    /\ UNCHANGED <<jobVars, running, thread, loopVars, job, held, joining>>

\* start() looks at _running only, and without a lock.
StartCheck(c) ==
    /\ Calls(c)
    /\ ~running
    /\ pc' = [pc EXCEPT ![c] = "start"]
    /\ UNCHANGED <<jobVars, running, thread, loopVars, job, held, joining>>

Start(c) ==
    /\ pc[c] = "start"
    /\ running' = TRUE
    /\ \E w \in Loops :
        /\ pc[w] = "dead"
        /\ \A d \in Controllers : joining[d] # w   \* a thread object is not reused
        /\ thread' = w
        /\ pc' = [pc EXCEPT ![c] = "idle", ![w] = "top"]
    /\ UNCHANGED <<jobVars, loopVars, job, held, joining, happened>>

StopRequest(c) ==
    /\ Calls(c)
    /\ running' = FALSE
    /\ joining' = [joining EXCEPT ![c] = thread]
    /\ pc' = [pc EXCEPT ![c] = "join"]
    /\ UNCHANGED <<jobVars, thread, loopVars, job, held>>

\* join(timeout=5) returns because the loop ended, or because it gave up on a
\* loop that is still in a job or asleep.
StopReturn(c) ==
    /\ pc[c] = "join"
    /\ IF joining[c] = None \/ pc[joining[c]] = "dead"
       THEN UNCHANGED happened
       ELSE Happens("timeout")
    /\ thread' = None
    /\ joining' = [joining EXCEPT ![c] = None]
    /\ pc' = [pc EXCEPT ![c] = "idle"]
    /\ UNCHANGED <<jobVars, running, loopVars, job, held>>

-----------------------------------------------------------------------------
(* _run_loop(). *)

\* The local variables of a round are not used after it.
EndRound(w) ==
    /\ index' = [index EXCEPT ![w] = 0]
    /\ lag' = [lag EXCEPT ![w] = 0]

Exit(w) ==
    /\ pc[w] = "top" /\ ~running
    /\ pc' = [pc EXCEPT ![w] = "dead"]
    /\ UNCHANGED <<jobVars, running, thread, loopVars, job, held, joining, happened>>

\* now = time.time().
Round(w) ==
    /\ pc[w] = "top" /\ running
    /\ pc' = [pc EXCEPT ![w] = "scan"]
    /\ index' = [index EXCEPT ![w] = 1]
    /\ lag' = [lag EXCEPT ![w] = 0]
    /\ UNCHANGED <<jobVars, running, thread, job, held, joining, happened>>

\* The clock check uses the time at the top of the round.
Due(w, j) == age[j] = Never \/ age[j] - lag[w] >= Interval[j]

\* _should_run_predictive() uses the current time.  Rule 3 only decides between
\* returning False and returning False, so that success_streak is left out.
Failing(j) ==
    status[j] = "error" /\ age[j] # Never /\ 2 * age[j] >= Interval[j]

\* The job the loop looks at is run, or passed over.  Rule 1 never applies: the
\* loop takes the calibration score from the key "avg_confidence" of
\* CausalReasoning.summary(), which has no such key, so it is None.
Chosen(w, j) == Due(w, j) \/ Failing(j)

SlipConsider(w) ==
    /\ pc[w] = "scan" /\ index[w] <= Len(Order)
    /\ LET j == Order[index[w]] IN
        \/ /\ Chosen(w, j)
           /\ pc' = [pc EXCEPT ![w] = "handler"]
           /\ job' = [job EXCEPT ![w] = j]
           /\ index' = [index EXCEPT ![w] = Len(Order) + 1]
        \/ /\ ~Chosen(w, j)
           /\ index' = [index EXCEPT ![w] = @ + 1]
           /\ UNCHANGED <<pc, job>>
    /\ UNCHANGED <<jobVars, running, thread, lag, held, joining, happened>>

\* One round of the inner loop.
Consider(w) ==
    /\ pc[w] = "scan" /\ index[w] <= Len(Order)
    /\ LET j == Order[index[w]] IN
        \/ /\ Chosen(w, j)
           /\ pc' = [pc EXCEPT ![w] = "handler"]
           /\ job' = [job EXCEPT ![w] = j]
        \/ /\ ~Chosen(w, j)
           /\ UNCHANGED <<pc, job>>
    /\ index' = [index EXCEPT ![w] = @ + 1]
    /\ UNCHANGED <<jobVars, running, thread, lag, held, joining, happened>>

\* time.sleep(5), and back to the top.
Sleep(w) ==
    /\ pc[w] = "scan" /\ index[w] > Len(Order)
    /\ pc' = [pc EXCEPT ![w] = "top"]
    /\ EndRound(w)
    /\ UNCHANGED <<jobVars, running, thread, job, held, joining, happened>>

-----------------------------------------------------------------------------
(* run_job(), by the loop or by an API thread. *)

RunJob(c) ==
    /\ pc[c] = "idle"
    /\ Happens("hand")
    /\ job' \in {[job EXCEPT ![c] = j] : j \in JobNames}
    /\ pc' = [pc EXCEPT ![c] = "handler"]
    /\ UNCHANGED <<jobVars, running, thread, loopVars, held, joining>>

SlipHandlerRaises(t) ==
    /\ pc[t] = "handler"
    /\ \E ok \in BOOLEAN :
        /\ status' = [status EXCEPT ![job[t]] = IF ok THEN "ok" ELSE @]
        /\ pc' = [pc EXCEPT ![t] = IF ok THEN "stamp" ELSE
                                   IF t \in Loops THEN "dead" ELSE "idle"]
        /\ job' = [job EXCEPT ![t] = IF ok THEN @ ELSE None]
    /\ UNCHANGED <<age, file, running, thread, loopVars, held, joining, happened>>

\* The handler returned or raised: the outcome is put into the job.
HandlerDone(t) ==
    /\ pc[t] = "handler"
    /\ status' \in {[status EXCEPT ![job[t]] = s] : s \in {"ok", "error"}}
    /\ pc' = [pc EXCEPT ![t] = "stamp"]
    /\ UNCHANGED <<age, file, running, thread, loopVars, job, held, joining, happened>>

SlipStamp(t) ==
    /\ pc[t] = "stamp"
    /\ age' = [age EXCEPT ![job[t]] = 0]
    /\ held' = [held EXCEPT ![t] = Payload]
    /\ pc' = [pc EXCEPT ![t] = "save"]
    /\ UNCHANGED <<status, file, running, thread, loopVars, job, joining, happened>>

\* last_run_at = time.time(); _save_job_state() collects its payload.
Stamp(t) ==
    /\ pc[t] = "stamp"
    /\ age' = [age EXCEPT ![job[t]] = 0]
    /\ held' = [held EXCEPT ![t] = [Payload EXCEPT ![job[t]] = <<0, status[job[t]]>>]]
    /\ pc' = [pc EXCEPT ![t] = "save"]
    /\ UNCHANGED <<status, file, running, thread, loopVars, job, joining, happened>>

\* run_job() is over; what comes next for the thread.
Finish(t, next) ==
    /\ pc' = [pc EXCEPT ![t] = next]
    /\ job' = [job EXCEPT ![t] = None]
    /\ held' = [held EXCEPT ![t] = NoPayload]

\* atomic_write_json() replaces the file.
Save(t) ==
    /\ pc[t] = "save"
    /\ file' = held[t]
    /\ Finish(t, IF t \in Loops THEN "scan" ELSE "idle")
    /\ UNCHANGED <<age, status, running, thread, loopVars, joining, happened>>

\* The save raises.  Nothing in run_job() or _run_loop() catches it: the loop
\* thread ends and _running stays set.
SaveError(t) ==
    /\ pc[t] = "save"
    /\ Happens("save")
    /\ Finish(t, IF t \in Loops THEN "dead" ELSE "idle")
    /\ IF t \in Loops THEN EndRound(t) ELSE UNCHANGED loopVars
    /\ UNCHANGED <<jobVars, running, thread, joining>>

\* The process dies and comes back: _restore_job_state() reads the file.
Crash ==
    /\ Happens("crash")
    /\ age' = [j \in JobNames |-> file[j][1]]
    /\ status' = [j \in JobNames |-> file[j][2]]
    /\ running' = FALSE /\ thread' = None
    /\ pc' = [t \in Threads |-> IF t \in Loops THEN "dead" ELSE "idle"]
    /\ index' = [w \in Loops |-> 0]
    /\ lag' = [w \in Loops |-> 0]
    /\ job' = [t \in Threads |-> None]
    /\ held' = [t \in Threads |-> NoPayload]
    /\ joining' = [c \in Controllers |-> None]
    /\ UNCHANGED file

-----------------------------------------------------------------------------
Older(a) == IF a \in 0..AgeCap - 1 THEN a + 1 ELSE a

\* Time passes.  A round of the loop takes at most MaxLag, and a tick is longer
\* than the few statements between the end of a handler and the save.
Tick ==
    /\ \A w \in Loops : lag[w] < MaxLag
    /\ \A t \in Threads : pc[t] \notin {"stamp", "save"}
    /\ age' = [j \in JobNames |-> Older(age[j])]
    /\ file' = [j \in JobNames |-> <<Older(file[j][1]), file[j][2]>>]
    /\ lag' = [w \in Loops |->
                IF pc[w] \in {"scan", "handler"} THEN lag[w] + 1 ELSE 0]
    /\ UNCHANGED <<status, running, thread, pc, index, job, held, joining, happened>>

Running(t) == HandlerDone(t) \/ Stamp(t) \/ Save(t)
Looping(w) == Exit(w) \/ Round(w) \/ Consider(w) \/ Sleep(w)

Next ==
    \/ \E c \in Controllers : StartCheck(c) \/ Start(c) \/ StopRequest(c) \/ StopReturn(c)
    \/ \E w \in Loops : Exit(w) \/ Round(w) \/ Consider(w) \/ Sleep(w)
    \/ \E c \in Runners : RunJob(c)
    \/ \E t \in Threads : HandlerDone(t) \/ Stamp(t) \/ Save(t) \/ SaveError(t)
    \/ Crash
    \/ Tick

Spec == Init /\ [][Next]_vars

(***************************************************************************)
(* Time passes, threads that can run do, and handlers return.  Nothing     *)
(* makes an API thread start the scheduler or run a job.                   *)
(***************************************************************************)
FairSpec ==
    /\ Spec
    /\ WF_vars(Tick)
    /\ \A w \in Loops : WF_vars(Looping(w)) /\ WF_vars(Running(w))
    /\ \A c \in Callers : WF_vars(Running(c))

-----------------------------------------------------------------------------
(* Properties. *)

\* Type correctness of the jobs, the file, the scheduler and its threads.
TypeOK ==
    /\ age \in [JobNames -> Ages]
    /\ status \in [JobNames -> {"never", "ok", "error"}]
    /\ file \in Payloads
    /\ running \in BOOLEAN
    /\ thread \in Loops \cup {None}
    /\ pc \in [Threads -> {"dead", "top", "scan", "handler", "stamp", "save",
                           "idle", "start", "join"}]
    /\ index \in [Loops -> 0..Len(Order) + 1]
    /\ lag \in [Loops -> 0..MaxLag]
    /\ job \in [Threads -> JobNames \cup {None}]
    /\ held \in [Threads -> Payloads]
    /\ joining \in [Controllers -> Loops \cup {None}]
    /\ happened \subseteq EventKinds

\* Until a join gives up or two calls of start() or stop() overlap, there is no
\* second loop, which would run the jobs twice.
OneLoop ==
    happened \cap {"timeout", "overlap"} = {} =>
        \A w1, w2 \in Loops : pc[w1] # "dead" /\ pc[w2] # "dead" => w1 = w2

\* Until a save fails, a scheduler that says it is running has its loop.
RunningHasLoop ==
    "save" \notin happened => (running => \E w \in Loops : pc[w] # "dead")

\* As long as one loop runs all jobs and no save fails, the file agrees with
\* memory whenever no job is between its handler and its save: a restart then
\* repeats no job and forgets no failure.
SavedIsCurrent ==
    /\ happened \cap {"save", "hand", "timeout", "overlap"} = {}
    /\ \A t \in Threads : pc[t] \notin {"stamp", "save"}
    => file = Payload

\* While the scheduler runs and saves succeed, every job runs again and again: a
\* job that is due in every round, or fails in every round, does not starve those
\* after it, nor do jobs run by hand or a loop that a join gave up on.
JobsKeepRunning ==
    <>[]running /\ []("save" \notin happened)
        => \A j \in JobNames : []<>(\E w \in Loops : job[w] = j)
=============================================================================
