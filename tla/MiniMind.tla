------------------------------ MODULE MiniMind ------------------------------
(***************************************************************************)
(* MiniMindService of core/minimind_service.py: it starts and stops        *)
(* training processes and a model server, keeps a record of each training  *)
(* job in memory and in a manifest file, and reports which of them run.    *)
(* The threads of the HTTP server call it at the same time.  The training  *)
(* processes outlive it.                                                   *)
(*                                                                         *)
(* A step is what a thread does from one wait to the next: a wait for      *)
(* `_lock`, for a process or for the disk.  threading.Lock is not          *)
(* reentrant: a thread that owns it and wants it again waits for ever.     *)
(*                                                                         *)
(* A definition whose name starts with Slip is a mistake the code could    *)
(* have made in the definition after it.                                   *)
(***************************************************************************)
EXTENDS Naturals, FiniteSets

CONSTANTS
    Threads,     \* the threads that call the service
    Trainers,    \* processes that train, by their pids
    Servers,     \* processes that serve the model
    Seconds,     \* bound: the clock stops at this second
    Restarts,    \* bound on how often the service is started again
    Starts,      \* bound on how many processes are started
    NoThread, NoProcess

ASSUME ProcessesAssumption ==
    /\ NoThread \notin Threads
    /\ Trainers \cup Servers \subseteq Nat
    /\ NoProcess \notin Trainers \cup Servers
    /\ Trainers \cap Servers = {}
ASSUME BoundsAssumption == Seconds \in Nat \ {0} /\ Restarts \in Nat /\ Starts \in Nat

VARIABLES
    lock,      \* owner of _lock
    pc,        \* where a thread is
    hand,      \* the process it has started or is to stop
    at,        \* the job it works on
    draft,     \* the records it is about to write to the manifest
    jobs,      \* _training_jobs
    handle,    \* _training_processes
    server,    \* _server_process
    manifest,  \* the records in the job manifest, a file
    os,        \* the processes, as the operating system knows them
    second,    \* the second in which the last job was started
    restarts,
    given,     \* history: the job id that a training process was started with, or 0
    behind,    \* history: threads whose write of the manifest overlaps another one
    unsaved,   \* history: the last write of the manifest failed, or overlapped another
    mixed      \* history: "servers", calls for the server have overlapped, or it outlived
               \* a kill, or the service died; "records", the service died with a record
               \* still to write, or unsaved

vars == <<lock, pc, hand, at, draft, jobs, handle, server, manifest, os, second, restarts,
          given, behind, unsaved, mixed>>
thread == <<pc, hand, at, draft>>
records == <<jobs, handle>>
world == <<os, second, restarts, given>>
saves == <<behind, unsaved>>
history == <<saves, mixed>>

JobIds == 1..Seconds
Processes == Trainers \cup Servers

\* The ends of a job that are recorded.  "completed" and "failed" are for a process that
\* has ended by itself, and a call that finds one never comes to record it (see Block).
Over == {"stopped", "abandoned"}
NoJob == [status |-> "none", pid |-> NoProcess]
NoJobs == [j \in JobIds |-> NoJob]
NoHandles == [j \in JobIds |-> NoProcess]

Init ==
    /\ lock = NoThread
    /\ pc = [t \in Threads |-> "idle"] /\ hand = [t \in Threads |-> NoProcess]
    /\ at = [t \in Threads |-> 1] /\ draft = [t \in Threads |-> NoJobs]
    /\ jobs = NoJobs /\ handle = NoHandles /\ server = NoProcess /\ manifest = NoJobs
    /\ os = [p \in Processes |-> "unused"]
    /\ second = 1 /\ restarts = 0
    /\ given = [p \in Trainers |-> 0] /\ behind = {} /\ unsaved = FALSE /\ mixed = {}

Runs(p) == p \in Processes /\ os[p] = "runs"
Ended(p) == p \in Processes /\ os[p] = "ended"

Free == lock = NoThread
Goto(t, where) == pc' = [pc EXCEPT ![t] = where]

\* The thread goes on, and is done with the process and the records it had at hand.
Leave(t, where) ==
    /\ Goto(t, where)
    /\ hand' = [hand EXCEPT ![t] = NoProcess]
    /\ at' = [at EXCEPT ![t] = 1]
    /\ draft' = [draft EXCEPT ![t] = NoJobs]

\* The call returns or raises.
Return(t) == Leave(t, "idle")

\* Popen(): a process that was not there before.  Pids are given in ascending order.
Popen(t, kind) ==
    /\ Cardinality({p \in Processes : os[p] # "unused"}) < Starts
    /\ \E p \in kind :
        /\ os[p] = "unused" /\ \A q \in kind : q < p => os[q] # "unused"
        /\ os' = [os EXCEPT ![p] = "runs"]
        /\ hand' = [hand EXCEPT ![t] = p]

\* terminate() or kill(), and wait(): the process is over, if it was not before.
Kill(p) == os' = [os EXCEPT ![p] = IF @ = "runs" THEN "ended" ELSE @]

-----------------------------------------------------------------------------
(* start_training_job() and stop_training_job(). *)

\* `int(time.time())`: the clock is read nowhere else.
StartTraining(t) ==
    /\ pc[t] = "idle"
    /\ Popen(t, Trainers)
    /\ \E now \in second..Seconds :
        /\ second' = now
        /\ at' = [at EXCEPT ![t] = now]
        /\ given' = [given EXCEPT ![hand'[t]] = now]
    /\ Goto(t, "register")
    /\ UNCHANGED <<lock, draft, records, server, manifest, restarts, history>>

Register(t) ==
    /\ pc[t] = "register" /\ Free
    /\ handle' = [handle EXCEPT ![at[t]] = hand[t]]
    /\ jobs' = [jobs EXCEPT ![at[t]] = [status |-> "running", pid |-> hand[t]]]
    /\ Leave(t, "persist")
    /\ UNCHANGED <<lock, server, manifest, world, history>>

StopTraining(t) ==
    /\ pc[t] = "idle" /\ Free
    /\ \E j \in JobIds :
        /\ handle[j] # NoProcess
        /\ at' = [at EXCEPT ![t] = j]
        /\ hand' = [hand EXCEPT ![t] = handle[j]]
    /\ Goto(t, "terminate")
    /\ UNCHANGED <<lock, draft, records, server, manifest, world, history>>

Terminate(t) ==
    /\ pc[t] = "terminate"
    /\ Kill(hand[t])
    /\ Goto(t, "finalize")
    /\ UNCHANGED <<lock, hand, at, draft, records, server, manifest, second, restarts, given, history>>

\* The process is still there five seconds after kill(): wait() raises TimeoutExpired.
TerminateFails(t) ==
    /\ pc[t] = "terminate" /\ Runs(hand[t])
    /\ Return(t)
    /\ UNCHANGED <<lock, records, server, manifest, world, history>>

\* _finalize_training_job(forced=True).
Finalize(t) ==
    /\ pc[t] = "finalize" /\ Free
    /\ handle' = [handle EXCEPT ![at[t]] = NoProcess]
    /\ jobs' = [jobs EXCEPT ![at[t]].status = "stopped"]
    /\ Leave(t, "persist")
    /\ UNCHANGED <<lock, server, manifest, world, history>>

Writing == {t \in Threads : pc[t] = "replace"}

\* _persist_training_jobs() outside of the lock: the records are serialised, then
\* the file is replaced.
Serialise(t) ==
    /\ pc[t] = "persist"
    /\ draft' = [draft EXCEPT ![t] = jobs]
    /\ behind' = IF Writing = {} THEN behind ELSE behind \cup Writing \cup {t}
    /\ Goto(t, "replace")
    /\ UNCHANGED <<lock, hand, at, records, server, manifest, world, unsaved, mixed>>

Replace(t) ==
    /\ pc[t] = "replace"
    /\ manifest' = draft[t]
    /\ unsaved' = (t \in behind) /\ behind' = behind \ {t}
    /\ Return(t)
    /\ UNCHANGED <<lock, records, server, world, mixed>>

\* Another thread adds a job while the records are serialised, which raises RuntimeError,
\* or the disk fails: the call raises, and what it has done stays done.
WriteFails(t) ==
    /\ pc[t] \in {"persist", "replace"}
    /\ unsaved' = TRUE /\ behind' = (behind \cup Writing) \ {t}
    /\ Return(t)
    /\ UNCHANGED <<lock, records, server, manifest, world, mixed>>

-----------------------------------------------------------------------------
(* get_runtime_status(), which owns the lock throughout. *)

Ask(t) ==
    /\ pc[t] = "idle"
    /\ Goto(t, "status")
    /\ UNCHANGED <<lock, hand, at, draft, records, server, manifest, world, history>>

ForgetEndedServer == server' = IF Ended(server) THEN NoProcess ELSE server

\* A training process has ended.  _finalize_training_job() takes the lock, which
\* this thread owns.
Block(t) ==
    /\ pc[t] = "status" /\ Free
    /\ \E j \in JobIds : Ended(handle[j])
    /\ lock' = t
    /\ ForgetEndedServer
    /\ Goto(t, "blocked")
    /\ UNCHANGED <<hand, at, draft, records, manifest, world, history>>

SlipStale == {j \in JobIds : jobs[j].status = "running" /\ handle[j] = NoProcess}

\* The jobs that are not in _training_processes and whose process is gone.
Stale == {j \in JobIds : jobs[j].status = "running" /\ handle[j] = NoProcess /\ ~Runs(jobs[j].pid)}

\* _reconcile_persisted_jobs().  The pid of a process that is gone may meanwhile
\* belong to another one, so that the job seems to run.
Abandon(gone) ==
    jobs' = [j \in JobIds |-> [jobs[j] EXCEPT !.status = IF j \in gone THEN "abandoned" ELSE @]]

Reconcile ==
    \E gone \in SUBSET Stale :
        /\ Abandon(gone)
        /\ IF gone = {} THEN UNCHANGED <<manifest, saves>>
           ELSE manifest' = jobs' /\ behind' = behind \cup Writing /\ unsaved' = FALSE

SlipReport(t) ==
    /\ pc[t] = "status" /\ Free
    /\ \A j \in JobIds : ~Ended(handle[j])
    /\ lock' = IF Ended(server) THEN t ELSE NoThread
    /\ ForgetEndedServer
    /\ Goto(t, IF Ended(server) THEN "blocked" ELSE "health")
    /\ UNCHANGED <<hand, at, draft, records, manifest, world, history>>

Report(t) ==
    /\ pc[t] = "status" /\ Free
    /\ \A j \in JobIds : ~Ended(handle[j])
    /\ Reconcile
    /\ ForgetEndedServer
    /\ Goto(t, "health")
    /\ UNCHANGED <<lock, hand, at, draft, handle, world, mixed>>

\* ... cannot write the manifest: the jobs are abandoned in memory, the call raises.
ReportFails(t) ==
    /\ pc[t] = "status" /\ Free
    /\ \A j \in JobIds : ~Ended(handle[j])
    /\ \E gone \in SUBSET Stale : gone # {} /\ Abandon(gone)
    /\ behind' = behind \cup Writing /\ unsaved' = TRUE
    /\ ForgetEndedServer
    /\ Return(t)
    /\ UNCHANGED <<lock, handle, manifest, world, mixed>>

\* _api_is_healthy() looks at the server once more, and asks it.
Health(t) ==
    /\ pc[t] = "health" /\ Free
    /\ ForgetEndedServer
    /\ Return(t)
    /\ UNCHANGED <<lock, records, manifest, world, history>>

-----------------------------------------------------------------------------
(* start_server() and stop_server(). *)

ServerCall == {"launch", "install", "endserver", "clear", "forget"}
Overlap(t) ==
    /\ mixed' = mixed \cup (IF \E u \in Threads : pc[u] \in ServerCall THEN {"servers"} ELSE {})
    /\ UNCHANGED saves

SlipStartServer(t) ==
    /\ pc[t] = "idle" /\ Free
    /\ Overlap(t)
    /\ Goto(t, "launch")
    /\ UNCHANGED <<lock, hand, at, draft, records, server, manifest, world>>

\* _is_server_running() is false.
StartServer(t) ==
    /\ pc[t] = "idle" /\ Free
    /\ ~Runs(server)
    /\ server' = NoProcess
    /\ Overlap(t)
    /\ Goto(t, "launch")
    /\ UNCHANGED <<lock, hand, at, draft, records, manifest, world>>

Launch(t) ==
    /\ pc[t] = "launch"
    /\ Popen(t, Servers)
    /\ Goto(t, "install")
    /\ UNCHANGED <<lock, at, draft, records, server, manifest, second, restarts, given, history>>

\* The modules are missing, or Popen() fails.
LaunchFails(t) ==
    /\ pc[t] = "launch"
    /\ Return(t)
    /\ UNCHANGED <<lock, records, server, manifest, world, history>>

\* _write_runtime_manifest() asks for the status, unless it cannot make the directory.
WriteRuntime(t) == Leave(t, "status") \/ Return(t)

Install(t) ==
    /\ pc[t] = "install" /\ Free
    /\ server' = hand[t]
    /\ WriteRuntime(t)
    /\ UNCHANGED <<lock, records, manifest, world, history>>

StopServer(t) ==
    /\ pc[t] = "idle" /\ Free
    /\ hand' = [hand EXCEPT ![t] = server]
    /\ Overlap(t)
    /\ Goto(t, IF Runs(server) THEN "endserver" ELSE "forget")
    /\ UNCHANGED <<lock, at, draft, records, server, manifest, world>>

\* `self._server_process = None`, without the lock.
Forget(t) ==
    /\ pc[t] = "forget"
    /\ server' = NoProcess
    /\ Return(t)
    /\ UNCHANGED <<lock, records, manifest, world, history>>

EndServer(t) ==
    /\ pc[t] = "endserver"
    /\ Kill(hand[t])
    /\ Goto(t, "clear")
    /\ UNCHANGED <<lock, hand, at, draft, records, server, manifest, second, restarts, given, history>>

\* The process is still there five seconds after kill(); the finally clause forgets it.
EndServerFails(t) ==
    /\ pc[t] = "endserver" /\ Runs(hand[t])
    /\ mixed' = mixed \cup {"servers"}
    /\ Goto(t, "clear")
    /\ UNCHANGED <<lock, hand, at, draft, records, server, manifest, world, saves>>

Clear(t) ==
    /\ pc[t] = "clear" /\ Free
    /\ server' = NoProcess
    /\ WriteRuntime(t)
    /\ UNCHANGED <<lock, records, manifest, world, history>>

-----------------------------------------------------------------------------
(* The world. *)

\* A process ends by itself.
ProcessEnds ==
    /\ \E p \in Processes : Runs(p) /\ Kill(p)
    /\ UNCHANGED <<lock, thread, records, server, manifest, second, restarts, given, history>>

\* The service dies, with all its threads, ...
Die ==
    /\ restarts < Restarts
    /\ restarts' = restarts + 1
    /\ mixed' = mixed \cup {"servers"} \cup
         (IF unsaved \/ \E t \in Threads : pc[t] \in {"register", "persist", "replace"}
          THEN {"records"} ELSE {})
    /\ behind' = {} /\ unsaved' = FALSE
    /\ lock' = NoThread
    /\ pc' = [t \in Threads |-> "idle"] /\ hand' = [t \in Threads |-> NoProcess]
    /\ at' = [t \in Threads |-> 1] /\ draft' = [t \in Threads |-> NoJobs]
    /\ UNCHANGED <<manifest, os, second, given>>

SlipRestart == Die /\ jobs' = NoJobs /\ handle' = NoHandles /\ server' = NoProcess

\* ... and is started again: it loads the manifest and has no handles.
Restart == Die /\ jobs' = manifest /\ handle' = NoHandles /\ server' = NoProcess

GoOn(t) ==
    \/ Register(t) \/ Terminate(t) \/ TerminateFails(t) \/ Finalize(t)
    \/ Serialise(t) \/ Replace(t) \/ WriteFails(t)
    \/ Block(t) \/ Report(t) \/ ReportFails(t) \/ Health(t)
    \/ Launch(t) \/ LaunchFails(t) \/ Install(t)
    \/ Forget(t) \/ EndServer(t) \/ EndServerFails(t) \/ Clear(t)

Call(t) == StartTraining(t) \/ StopTraining(t) \/ Ask(t) \/ StartServer(t) \/ StopServer(t)

Next ==
    \/ \E t \in Threads : Call(t) \/ GoOn(t)
    \/ ProcessEnds \/ Restart

Spec == Init /\ [][Next]_vars

\* A thread that can go on does.  Nothing makes a caller call or a process end.
FairSpec == Spec /\ \A t \in Threads : WF_vars(GoOn(t))

-----------------------------------------------------------------------------
(* Properties. *)

Records == [JobIds -> [status : {"none", "running"} \cup Over, pid : Trainers \cup {NoProcess}]]

\* Every variable has a value of its kind; handles and records are of training
\* processes, and the server is a server.
TypeOK ==
    /\ lock \in Threads \cup {NoThread}
    /\ pc \in [Threads -> {"idle", "register", "terminate", "finalize", "persist", "replace",
                           "status", "blocked", "health"} \cup ServerCall]
    /\ hand \in [Threads -> Processes \cup {NoProcess}]
    /\ at \in [Threads -> JobIds]
    /\ draft \in [Threads -> Records]
    /\ jobs \in Records /\ manifest \in Records
    /\ handle \in [JobIds -> Trainers \cup {NoProcess}]
    /\ server \in Servers \cup {NoProcess}
    /\ os \in [Processes -> {"unused", "runs", "ended"}]
    /\ second \in JobIds
    /\ restarts \in 0..Restarts
    /\ given \in [Trainers -> 0..Seconds]
    /\ behind \subseteq Threads /\ unsaved \in BOOLEAN
    /\ mixed \subseteq {"servers", "records"}

\* No other job was given the id of the job that p was started for.
Alone(p) == \A q \in Trainers : given[q] = given[p] => q = p

\* A training process that runs has a record under its id that says so, or a thread is
\* about to make one, unless another job got the same id.  This stays so when writes of
\* the manifest fail or overlap, and after restarts, unless the service died with a
\* record still to write or with the last write failed or overlapped.
TrainingIsKnown ==
    "records" \notin mixed =>
        \A p \in Trainers : Runs(p) /\ Alone(p) =>
            \/ jobs[given[p]] = [status |-> "running", pid |-> p]
            \/ \E t \in Threads : pc[t] = "register" /\ hand[t] = p

\* A job that counts as over has no process that still runs, unless another job got its
\* id.  Training goes on when the service is restarted, whatever reached the manifest,
\* and the next report must not call it abandoned.
OverMeansEnded ==
    \A j \in JobIds :
        jobs[j].status \in Over /\ Alone(jobs[j].pid) => ~Runs(jobs[j].pid)

\* A server process that runs is the one the service knows, so that there is only
\* one, unless calls that start and stop it overlapped, it outlived a kill, or the
\* service was restarted.
ServerIsKnown ==
    "servers" \notin mixed =>
        \A p \in Servers : Runs(p) =>
            server = p \/ \E t \in Threads : pc[t] = "install" /\ hand[t] = p

\* The manifest holds the records whenever no thread is about to write it, unless the
\* last write failed or overlapped another one.
ManifestIsCurrent ==
    (~unsaved /\ \A t \in Threads : pc[t] \notin {"persist", "replace"})
        => manifest = jobs

\* Every call returns, as long as no training process ends.
CallsReturn ==
    (\A t \in Threads : (pc[t] # "idle") ~> (pc[t] = "idle"))
        \/ <>(\E p \in Trainers : Ended(p))

\* A call that asks for the status returns.
StatusReturns == \A t \in Threads : (pc[t] = "status") ~> (pc[t] = "idle")
=============================================================================
