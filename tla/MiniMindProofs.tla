--------------------------- MODULE MiniMindProofs ---------------------------
(***************************************************************************)
(* What the records of the MiniMind service say of its processes, for any  *)
(* number of threads, processes, jobs and restarts.                        *)
(***************************************************************************)
EXTENDS MiniMind, TLAPS

-----------------------------------------------------------------------------
(* Processes. *)

LEMMA ProcessFacts ==
    /\ NoProcess \notin Processes /\ Trainers \subseteq Processes /\ Servers \subseteq Processes
    /\ NoProcess \notin Trainers /\ NoProcess \notin Servers
    /\ \A p \in Trainers : p \notin Servers
    /\ 1 \in JobIds
  BY ProcessesAssumption, BoundsAssumption DEF Processes, JobIds

\* A process that was started ends once and stays so.
OsGrows ==
    \A q \in Processes :
        /\ os[q] # "unused" => os'[q] # "unused"
        /\ os[q] = "ended" => os'[q] = "ended"
        /\ (os[q] # "unused" /\ Runs(q)') => Runs(q)

LEMMA PopenFacts ==
    ASSUME TypeOK, NEW t \in Threads, NEW kind, kind \subseteq Processes, Popen(t, kind)
    PROVE  \E p \in kind : /\ os[p] = "unused"
                           /\ os' = [os EXCEPT ![p] = "runs"] /\ hand' = [hand EXCEPT ![t] = p]
  BY DEF Popen

LEMMA PopenGrows ==
    ASSUME TypeOK, NEW t \in Threads, NEW kind, kind \subseteq Processes, Popen(t, kind)
    PROVE  OsGrows /\ os' \in [Processes -> {"unused", "runs", "ended"}]
  BY PopenFacts DEF OsGrows, Runs, TypeOK

LEMMA KillFacts ==
    ASSUME TypeOK, NEW p, Kill(p)
    PROVE  /\ OsGrows /\ os' \in [Processes -> {"unused", "runs", "ended"}]
           /\ \A q \in Processes : Runs(q)' => Runs(q)
           /\ (p \in Processes /\ os[p] # "unused") => os'[p] = "ended"
           /\ \A q \in Processes : os[q] = "unused" => os'[q] = "unused"
  BY DEF Kill, OsGrows, Runs, TypeOK

-----------------------------------------------------------------------------
(* Types. *)

\* The process a thread is about to install or to end is of the right kind.
HandTyped ==
    \A t \in Threads :
        /\ pc[t] \in {"register", "terminate"} => hand[t] \in Trainers
        /\ pc[t] \in {"install", "endserver"} => hand[t] \in Servers

Typed == TypeOK /\ HandTyped

LEMMA NoJobTyped == NoJobs \in Records
  BY ProcessFacts DEF NoJobs, NoJob, Records, Over

LEMMA InitTyped == Init => Typed
  <1> SUFFICES ASSUME Init PROVE Typed
    OBVIOUS
  <1>1. given \in [Trainers -> 0..Seconds] /\ restarts \in 0..Restarts
    BY BoundsAssumption DEF Init
  <1>2. unsaved \in BOOLEAN /\ behind \subseteq Threads /\ mixed \subseteq {"servers", "records"}
    BY DEF Init
  <1>3. /\ jobs \in Records /\ manifest \in Records /\ draft \in [Threads -> Records]
        /\ handle \in [JobIds -> Trainers \cup {NoProcess}]
    BY NoJobTyped DEF Init, NoHandles
  <1> QED
    BY <1>1, <1>2, <1>3, ProcessFacts DEF Init, Typed, TypeOK, HandTyped, ServerCall

\* What a thread has left when it is done with its process and its records.
LEMMA LeaveFacts ==
    ASSUME Typed, NEW t \in Threads, NEW where, Leave(t, where)
    PROVE  /\ pc' = [pc EXCEPT ![t] = where]
           /\ hand' \in [Threads -> Processes \cup {NoProcess}] /\ at' \in [Threads -> JobIds]
           /\ draft' \in [Threads -> Records]
           /\ pc'[t] = where /\ draft'[t] = NoJobs
           /\ \A u \in Threads : u # t => /\ pc'[u] = pc[u] /\ hand'[u] = hand[u]
                                          /\ at'[u] = at[u] /\ draft'[u] = draft[u]
  BY NoJobTyped, ProcessFacts DEF Leave, Goto, Typed, TypeOK

\* A status report changes nothing but the status of jobs whose process is gone.
LEMMA AbandonFacts ==
    ASSUME Typed, NEW gone \in SUBSET Stale, Abandon(gone)
    PROVE  /\ jobs' \in Records
           /\ \A j \in JobIds : /\ jobs'[j].pid = jobs[j].pid
                                /\ j \in gone => jobs'[j].status = "abandoned"
                                /\ j \notin gone => jobs'[j] = jobs[j]
           /\ gone = {} => jobs' = jobs
  <1> DEFINE Kind == [status : {"none", "running"} \cup Over, pid : Trainers \cup {NoProcess}]
  <1> DEFINE Given(r) == [r EXCEPT !.status = "abandoned"]
  <1>1. jobs' = [j \in JobIds |-> [jobs[j] EXCEPT !.status = IF j \in gone THEN "abandoned" ELSE @]]
    BY DEF Abandon
  <1>2. \A j \in JobIds : jobs[j] \in Kind
    BY DEF Typed, TypeOK, Records
  <1>3. \A r \in Kind : /\ Given(r) \in Kind /\ Given(r).pid = r.pid
                        /\ Given(r).status = "abandoned"
                        /\ [r EXCEPT !.status = r.status] = r
    BY DEF Over
  <1>4. \A j \in JobIds : /\ j \in gone => jobs'[j] = Given(jobs[j])
                          /\ j \notin gone => jobs'[j] = jobs[j]
    BY <1>1, <1>2, <1>3
  <1> HIDE DEF Kind, Given
  <1>5. jobs' \in Records
    <2>1. \A j \in JobIds : jobs'[j] \in Kind
      BY <1>2, <1>3, <1>4
    <2>2. jobs' = [j \in JobIds |-> jobs'[j]]
      BY <1>1
    <2>3. jobs' \in [JobIds -> Kind]
      BY <2>1, <2>2
    <2> QED
      BY <2>3 DEF Kind, Records
  <1>6. gone = {} => jobs' = jobs
    <2>1. jobs \in [JobIds -> Kind]
      BY DEF Typed, TypeOK, Records, Kind
    <2>2. jobs = [j \in JobIds |-> jobs[j]]
      BY <2>1
    <2>3. jobs' = [j \in JobIds |-> jobs'[j]]
      BY <1>1
    <2> QED
      BY <1>4, <2>2, <2>3
  <1>7. \A j \in JobIds : /\ jobs'[j].pid = jobs[j].pid
                          /\ j \in gone => jobs'[j].status = "abandoned"
    BY <1>2, <1>3, <1>4
  <1> QED
    BY <1>4, <1>5, <1>6, <1>7

\* It writes the manifest when there are any such jobs.
LEMMA ReconcileFacts ==
    ASSUME Typed, Reconcile
    PROVE  \E gone \in SUBSET Stale :
               /\ Abandon(gone)
               /\ gone = {} => UNCHANGED <<manifest, behind, unsaved>>
               /\ gone # {} => manifest' = jobs' /\ behind' = behind \cup Writing /\ unsaved' = FALSE
  BY DEF Reconcile, saves

LEMMA ReconcileTyped ==
    ASSUME Typed, Reconcile
    PROVE  /\ jobs' \in Records /\ manifest' \in Records
           /\ behind' \subseteq Threads /\ unsaved' \in BOOLEAN
  BY ReconcileFacts, AbandonFacts DEF Writing, Typed, TypeOK

LEMMA StatusOverTyped ==
    ASSUME Typed, NEW j \in JobIds
    PROVE  [jobs EXCEPT ![j].status = "stopped"] \in Records
  <1>1. jobs[j] \in [status : {"none", "running"} \cup Over, pid : Trainers \cup {NoProcess}]
    BY DEF Typed, TypeOK, Records
  <1>2. [jobs[j] EXCEPT !.status = "stopped"]
            \in [status : {"none", "running"} \cup Over, pid : Trainers \cup {NoProcess}]
    BY <1>1 DEF Over
  <1> QED
    BY <1>2 DEF Typed, TypeOK, Records

LEMMA StepTyped == Typed /\ [Next]_vars => Typed'
  <1> SUFFICES ASSUME Typed, [Next]_vars PROVE Typed'
    OBVIOUS
  <1> USE ProcessFacts DEF history, saves
  <1>1. ASSUME NEW t \in Threads, StartTraining(t) PROVE Typed'
    <2>1. PICK p \in Trainers : os' = [os EXCEPT ![p] = "runs"] /\ hand' = [hand EXCEPT ![t] = p]
      BY <1>1 DEF StartTraining, Popen
    <2>2. PICK now \in second..Seconds : second' = now /\ at' = [at EXCEPT ![t] = now]
                 /\ given' = [given EXCEPT ![hand'[t]] = now]
      BY <1>1 DEF StartTraining
    <2>3. now \in JobIds /\ now \in 0..Seconds
      BY <2>2, BoundsAssumption DEF JobIds, Typed, TypeOK
    <2> QED
      BY <1>1, <2>1, <2>2, <2>3 DEF StartTraining, Goto, records, Typed, TypeOK, HandTyped
  <1>2. ASSUME NEW t \in Threads, Register(t) PROVE Typed'
    <2>1. hand[t] \in Trainers
      BY <1>2 DEF Register, Typed, HandTyped
    <2>2. jobs' \in Records /\ handle' \in [JobIds -> Trainers \cup {NoProcess}]
      BY <1>2, <2>1 DEF Register, Typed, TypeOK, Records
    <2> QED
      BY <1>2, <2>2, LeaveFacts DEF Register, world, Typed, TypeOK, HandTyped
  <1>3. ASSUME NEW t \in Threads, StopTraining(t) PROVE Typed'
    BY <1>3 DEF StopTraining, Goto, records, world, Typed, TypeOK, HandTyped
  <1>4. ASSUME NEW t \in Threads, Terminate(t) PROVE Typed'
    BY <1>4, KillFacts DEF Terminate, Goto, records, Typed, TypeOK, HandTyped
  <1>5. ASSUME NEW t \in Threads, Finalize(t) PROVE Typed'
    <2>1. at[t] \in JobIds
      BY DEF Typed, TypeOK
    <2>2. jobs' \in Records /\ handle' \in [JobIds -> Trainers \cup {NoProcess}]
      BY <1>5, <2>1, StatusOverTyped DEF Finalize, Typed, TypeOK
    <2> QED
      BY <1>5, <2>2, LeaveFacts DEF Finalize, world, Typed, TypeOK, HandTyped
  <1>6. ASSUME NEW t \in Threads, Serialise(t) PROVE Typed'
    BY <1>6 DEF Serialise, Writing, Goto, records, world, Typed, TypeOK, HandTyped
  <1>7. ASSUME NEW t \in Threads, Replace(t) PROVE Typed'
    BY <1>7, LeaveFacts DEF Replace, Return, records, world, Typed, TypeOK, HandTyped
  <1>8. ASSUME NEW t \in Threads, WriteFails(t) PROVE Typed'
    BY <1>8, LeaveFacts DEF WriteFails, Writing, Return, records, world, Typed, TypeOK, HandTyped
  <1>9. ASSUME NEW t \in Threads, Ask(t) PROVE Typed'
    BY <1>9 DEF Ask, Goto, records, world, Typed, TypeOK, HandTyped
  <1>10. ASSUME NEW t \in Threads, Block(t) PROVE Typed'
    BY <1>10 DEF Block, ForgetEndedServer, Goto, records, world, Typed, TypeOK, HandTyped
  <1>11. ASSUME NEW t \in Threads, Report(t) PROVE Typed'
    <2>1. /\ jobs' \in Records /\ manifest' \in Records
          /\ behind' \subseteq Threads /\ unsaved' \in BOOLEAN
      BY <1>11, ReconcileTyped DEF Report
    <2> QED
      BY <1>11, <2>1 DEF Report, ForgetEndedServer, Goto, world, Typed, TypeOK, HandTyped
  <1>12. ASSUME NEW t \in Threads, ReportFails(t) PROVE Typed'
    <2>1. jobs' \in Records /\ behind' \subseteq Threads
      BY <1>12, AbandonFacts DEF ReportFails, Writing, Typed, TypeOK
    <2> QED
      BY <1>12, <2>1, LeaveFacts
         DEF ReportFails, Return, ForgetEndedServer, world, Typed, TypeOK, HandTyped
  <1>13. ASSUME NEW t \in Threads, Health(t) PROVE Typed'
    BY <1>13, LeaveFacts DEF Health, Return, ForgetEndedServer, records, world, Typed, TypeOK, HandTyped
  <1>14. ASSUME NEW t \in Threads, StartServer(t) PROVE Typed'
    BY <1>14 DEF StartServer, Overlap, Goto, records, world, Typed, TypeOK, HandTyped, ServerCall
  <1>15. ASSUME NEW t \in Threads, Launch(t) PROVE Typed'
    <2>1. PICK p \in Servers : os' = [os EXCEPT ![p] = "runs"] /\ hand' = [hand EXCEPT ![t] = p]
      BY <1>15 DEF Launch, Popen
    <2> QED
      BY <1>15, <2>1 DEF Launch, Goto, records, Typed, TypeOK, HandTyped, ServerCall
  <1>16. ASSUME NEW t \in Threads, LaunchFails(t) \/ TerminateFails(t) PROVE Typed'
    <2>1. /\ UNCHANGED <<lock, jobs, handle, server, manifest, os, second, restarts, given, behind,
                         unsaved, mixed>>
          /\ Leave(t, "idle")
      BY <1>16 DEF LaunchFails, TerminateFails, Return, records, world
    <2> QED
      BY <2>1, LeaveFacts DEF Typed, TypeOK, HandTyped
  <1>17. ASSUME NEW t \in Threads, Install(t) \/ Clear(t) PROVE Typed'
    <2>1. server' \in Servers \cup {NoProcess}
      BY <1>17 DEF Install, Clear, Typed, HandTyped
    <2>2. /\ UNCHANGED <<lock, jobs, handle, manifest, os, second, restarts, given, behind,
                         unsaved, mixed>>
          /\ \E where \in {"status", "idle"} : Leave(t, where)
      BY <1>17 DEF Install, Clear, WriteRuntime, Return, records, world
    <2> QED
      BY <2>1, <2>2, LeaveFacts DEF Typed, TypeOK, HandTyped
  <1>18. ASSUME NEW t \in Threads, StopServer(t) PROVE Typed'
    BY <1>18 DEF StopServer, Runs, Overlap, Goto, records, world, Typed, TypeOK, HandTyped, ServerCall
  <1>19. ASSUME NEW t \in Threads, Forget(t) PROVE Typed'
    BY <1>19, LeaveFacts DEF Forget, Return, records, world, Typed, TypeOK, HandTyped
  <1>20. ASSUME NEW t \in Threads, EndServer(t) PROVE Typed'
    BY <1>20, KillFacts DEF EndServer, Goto, records, Typed, TypeOK, HandTyped, ServerCall
  <1>21. ASSUME NEW t \in Threads, EndServerFails(t) PROVE Typed'
    BY <1>21 DEF EndServerFails, Goto, records, world, Typed, TypeOK, HandTyped, ServerCall
  <1>22. CASE ProcessEnds
    BY <1>22, KillFacts DEF ProcessEnds, thread, records, Typed, TypeOK, HandTyped
  <1>23. CASE Restart
    <2>1. restarts' \in 0..Restarts /\ mixed' \subseteq {"servers", "records"}
      BY <1>23, BoundsAssumption DEF Restart, Die, Typed, TypeOK
    <2>2. /\ UNCHANGED <<manifest, os, second, given>> /\ lock' = NoThread
          /\ pc' = [t \in Threads |-> "idle"] /\ hand' = [t \in Threads |-> NoProcess]
          /\ at' = [t \in Threads |-> 1] /\ draft' = [t \in Threads |-> NoJobs]
          /\ jobs' = manifest /\ handle' = NoHandles /\ server' = NoProcess
          /\ behind' = {} /\ unsaved' = FALSE
      BY <1>23 DEF Restart, Die
    <2> QED
      BY <2>1, <2>2, NoJobTyped DEF NoHandles, Typed, TypeOK, HandTyped
  <1>24. CASE UNCHANGED vars
    BY <1>24 DEF vars, thread, records, world, Typed, TypeOK, HandTyped
  <1> QED
    BY <1>1, <1>2, <1>3, <1>4, <1>5, <1>6, <1>7, <1>8, <1>9, <1>10, <1>11, <1>12, <1>13, <1>14,
       <1>15, <1>16, <1>17, <1>18, <1>19, <1>20, <1>21, <1>22, <1>23, <1>24 DEF Next, Call, GoOn

LEMMA TypedAlways == Spec => []Typed
  <1>1. Init => Typed
    BY InitTyped
  <1>2. Typed /\ [Next]_vars => Typed'
    BY StepTyped
  <1> QED
    BY <1>1, <1>2, PTL DEF Spec

\* The service stays well typed: only training processes are recorded as jobs, and
\* only a server is installed as the server.
THEOREM TypeCorrect == Spec => []TypeOK
  <1>1. Typed => TypeOK
    BY DEF Typed
  <1> QED
    BY <1>1, TypedAlways, PTL

-----------------------------------------------------------------------------
(* Steps that leave the jobs alone. *)

\* The places of a thread that works on a job; in the last three, others rely on it.
Busy == {"terminate", "finalize", "register", "persist", "replace"}
Relied == {"register", "persist", "replace"}

Quiet ==
    /\ UNCHANGED <<jobs, handle, manifest, given, behind, unsaved>>
    /\ \A u \in Threads :
          \/ /\ pc'[u] = pc[u] /\ hand'[u] = hand[u] /\ at'[u] = at[u] /\ draft'[u] = draft[u]
          \/ /\ pc[u] \notin Relied /\ pc'[u] \notin Busy
             /\ draft'[u] = draft[u] \/ draft'[u] = NoJobs
    /\ OsGrows
    /\ \A p \in Trainers : /\ Runs(p)' => Runs(p)
                           /\ os[p] = "unused" => os'[p] = "unused"

Aside(t) ==
    \/ Ask(t) \/ Block(t) \/ Health(t) \/ StartServer(t) \/ Launch(t) \/ LaunchFails(t)
    \/ Install(t) \/ StopServer(t) \/ Forget(t) \/ EndServer(t) \/ EndServerFails(t) \/ Clear(t)
    \/ TerminateFails(t)

LEMMA SameOs ==
    ASSUME Typed, UNCHANGED os
    PROVE  OsGrows /\ \A p \in Processes : Runs(p)' => Runs(p)
  BY DEF OsGrows, Runs

LEMMA AsideIsQuiet ==
    ASSUME Typed, NEW t \in Threads, Aside(t)
    PROVE  Quiet
  <1>0. pc[t] \in {"idle", "status", "health", "launch", "install", "forget", "endserver", "clear",
                   "terminate"}
    BY DEF Aside, Ask, Block, Health, StartServer, Launch, LaunchFails, Install, StopServer,
           Forget, EndServer, EndServerFails, Clear, TerminateFails
  <1>1. UNCHANGED <<jobs, handle, manifest, given, behind, unsaved>>
    BY DEF Aside, Ask, Block, Health, StartServer, Launch, LaunchFails, Install, StopServer,
           Forget, EndServer, EndServerFails, Clear, TerminateFails, Overlap, records, world,
           history, saves
  <1>2. OsGrows /\ \A p \in Trainers : /\ Runs(p)' => Runs(p)
                                       /\ os[p] = "unused" => os'[p] = "unused"
    <2>1. CASE Launch(t)
      <3>1. Popen(t, Servers)
        BY <2>1 DEF Launch
      <3>2. PICK p \in Servers : os' = [os EXCEPT ![p] = "runs"]
        BY <3>1 DEF Popen
      <3>3. \A q \in Trainers : q # p
        BY ProcessFacts, <3>2
      <3> QED
        BY <3>1, <3>2, <3>3, PopenGrows, ProcessFacts DEF Runs, Typed, TypeOK
    <2>2. CASE EndServer(t)
      BY <2>2, KillFacts, ProcessFacts DEF EndServer, Typed
    <2>3. CASE ~Launch(t) /\ ~EndServer(t)
      <3>1. UNCHANGED os
        BY <2>3 DEF Aside, Ask, Block, Health, StartServer, LaunchFails, Install, StopServer,
                    Forget, EndServerFails, Clear, TerminateFails, world
      <3> QED
        BY <3>1, SameOs, ProcessFacts
    <2> QED
      BY <2>1, <2>2, <2>3
  <1>3. \/ /\ UNCHANGED <<at, draft>> /\ \A u \in Threads : u # t => hand'[u] = hand[u]
           /\ \E where \in {"status", "blocked", "launch", "install", "endserver", "forget", "clear"} :
                pc' = [pc EXCEPT ![t] = where]
        \/ \E where \in {"idle", "status"} : Leave(t, where)
    <2>1. CASE Launch(t)
      BY <2>1 DEF Launch, Popen, Goto, Typed, TypeOK
    <2>2. CASE StopServer(t)
      BY <2>2 DEF StopServer, Goto, Typed, TypeOK
    <2>3. CASE ~Launch(t) /\ ~StopServer(t)
      BY <2>3 DEF Aside, Ask, Block, Health, StartServer, LaunchFails, Install, Forget, EndServer,
                  EndServerFails, Clear, TerminateFails, WriteRuntime, Return, Goto
    <2> QED
      BY <2>1, <2>2, <2>3
  <1>4. ASSUME NEW u \in Threads
        PROVE  \/ /\ pc'[u] = pc[u] /\ hand'[u] = hand[u] /\ at'[u] = at[u] /\ draft'[u] = draft[u]
               \/ /\ pc[u] \notin Relied /\ pc'[u] \notin Busy
                  /\ draft'[u] = draft[u] \/ draft'[u] = NoJobs
    <2>1. CASE \E where \in {"idle", "status"} : Leave(t, where)
      BY <1>0, <2>1, LeaveFacts DEF Busy, Relied
    <2>2. CASE ~\E where \in {"idle", "status"} : Leave(t, where)
      BY <1>0, <1>3, <2>2 DEF Busy, Relied, Typed, TypeOK
    <2> QED
      BY <2>1, <2>2
  <1> QED
    BY <1>1, <1>2, <1>4 DEF Quiet

LEMMA OthersAreQuiet ==
    ASSUME Typed, ProcessEnds \/ UNCHANGED vars
    PROVE  Quiet
  <1>1. UNCHANGED <<jobs, handle, manifest, given, behind, unsaved, pc, hand, at, draft>>
    BY DEF ProcessEnds, vars, thread, records, history, saves
  <1>2. OsGrows /\ \A p \in Trainers : /\ Runs(p)' => Runs(p)
                                       /\ os[p] = "unused" => os'[p] = "unused"
    <2>1. CASE ProcessEnds
      BY <2>1, KillFacts, ProcessFacts DEF ProcessEnds, Typed
    <2>2. CASE UNCHANGED vars
      BY <2>2, SameOs, ProcessFacts DEF vars
    <2> QED
      BY <2>1, <2>2
  <1> QED
    BY <1>1, <1>2 DEF Quiet

\* What has gone wrong is not forgotten.
LEMMA MixedGrows == Typed /\ [Next]_vars => mixed \subseteq mixed'
  <1> SUFFICES ASSUME Typed, [Next]_vars PROVE mixed \subseteq mixed'
    OBVIOUS
  <1>1. ASSUME NEW t \in Threads, Call(t) PROVE mixed \subseteq mixed'
    BY <1>1 DEF Call, StartTraining, StopTraining, Ask, StartServer, StopServer, Overlap, history
  <1>2. ASSUME NEW t \in Threads, GoOn(t) PROVE mixed \subseteq mixed'
    BY <1>2 DEF GoOn, Register, Terminate, TerminateFails, Finalize, Serialise, Replace, WriteFails,
         Block, Report, ReportFails, Health, Launch, LaunchFails, Install, Forget, EndServer,
         EndServerFails, Clear, history
  <1>3. CASE ProcessEnds \/ Restart \/ UNCHANGED vars
    BY <1>3 DEF ProcessEnds, Restart, Die, vars, history
  <1> QED
    BY <1>1, <1>2, <1>3 DEF Next

\* The steps that matter to the jobs, and the others.
LEMMA StepCases ==
    ASSUME Typed, [Next]_vars
    PROVE  \/ Quiet \/ Restart
           \/ \E t \in Threads :
                 \/ StartTraining(t) \/ Register(t) \/ StopTraining(t) \/ Terminate(t)
                 \/ Finalize(t) \/ Serialise(t) \/ Replace(t) \/ WriteFails(t)
                 \/ Report(t) \/ ReportFails(t)
  BY AsideIsQuiet, OthersAreQuiet DEF Next, Call, GoOn, Aside

-----------------------------------------------------------------------------
(* Records and the processes they name. *)

\* Each record of r is of the process that was started for its id, or of one of them.
Named(r, g) ==
    \A j \in JobIds : r[j].status # "none" => r[j].pid \in Trainers /\ g[r[j].pid] = j

\* A record of r that is over names a process that has ended, if no other process was
\* started for its id.
Finished(r, g, o) ==
    \A j \in JobIds :
        (r[j].status \in Over /\ \A q \in Trainers : g[q] = j => q = r[j].pid)
            => o[r[j].pid] = "ended"

\* Records, handles and threads agree on the process of each job: so a job that a thread
\* is about to call stopped is one whose process it has ended.
JobInv ==
    /\ \A p \in Trainers : given[p] = 0 <=> os[p] = "unused"
    /\ Named(jobs, given) /\ Named(manifest, given) /\ \A t \in Threads : Named(draft[t], given)
    /\ /\ Finished(jobs, given, os) /\ Finished(manifest, given, os)
       /\ \A t \in Threads : Finished(draft[t], given, os)
    /\ \A t \in Threads : pc[t] \in {"register", "terminate", "finalize"} =>
          hand[t] \in Trainers /\ given[hand[t]] = at[t]
    /\ \A t \in Threads : pc[t] \in {"terminate", "finalize"} => jobs[at[t]].status # "none"
    /\ \A t \in Threads : pc[t] = "finalize" => os[hand[t]] = "ended"
    /\ \A j \in JobIds : handle[j] # NoProcess =>
          handle[j] \in Trainers /\ given[handle[j]] = j /\ jobs[j].status # "none"

LEMMA NoJobsFacts ==
    ASSUME NEW g, NEW o
    PROVE  Named(NoJobs, g) /\ Finished(NoJobs, g, o)
  BY DEF Named, Finished, NoJobs, NoJob, Over

\* A process keeps the id it was started for.
GivenGrows == \A q \in Trainers : given[q] # 0 => given'[q] = given[q]

LEMMA NamesStay ==
    ASSUME Typed, OsGrows, GivenGrows, NEW r, Named(r, given)
    PROVE  /\ Named(r, given')
           /\ Finished(r, given, os) => Finished(r, given', os')
  <1>1. \A j \in JobIds : j # 0
    BY BoundsAssumption DEF JobIds
  <1>2. ASSUME NEW j \in JobIds, r[j].status # "none"
        PROVE  r[j].pid \in Trainers /\ given'[r[j].pid] = j
    BY <1>1, <1>2 DEF Named, GivenGrows
  <1>3. ASSUME Finished(r, given, os), NEW j \in JobIds, r[j].status \in Over,
               \A q \in Trainers : given'[q] = j => q = r[j].pid
        PROVE  os'[r[j].pid] = "ended"
    <2>1. \A q \in Trainers : given[q] = j => q = r[j].pid
      BY <1>1, <1>3 DEF GivenGrows
    <2>2. os[r[j].pid] = "ended" /\ r[j].pid \in Trainers
      BY <1>3, <2>1 DEF Finished, Named, Over
    <2> QED
      BY <2>2, ProcessFacts DEF OsGrows
  <1> QED
    BY <1>2, <1>3 DEF Named, Finished

LEMMA JobInit == Init => JobInv
  BY NoJobsFacts, ProcessFacts DEF Init, JobInv, NoHandles

LEMMA FinalizeFacts ==
    ASSUME Typed, NEW t \in Threads, Finalize(t)
    PROVE  /\ at[t] \in JobIds
           /\ \A j \in JobIds : jobs'[j].pid = jobs[j].pid
           /\ \A j \in JobIds : j # at[t] => jobs'[j] = jobs[j]
           /\ jobs'[at[t]].status = "stopped"
  <1>1. at[t] \in JobIds /\ jobs' = [jobs EXCEPT ![at[t]].status = "stopped"]
    BY DEF Finalize, Typed, TypeOK
  <1>2. \A j \in JobIds : jobs[j] \in [status : {"none", "running"} \cup Over, pid : Trainers \cup {NoProcess}]
    BY DEF Typed, TypeOK, Records
  <1>3. \A j \in JobIds : j # at[t] => jobs'[j] = jobs[j]
    BY <1>1 DEF Typed, TypeOK, Records
  <1>4. jobs'[at[t]] = [jobs[at[t]] EXCEPT !.status = "stopped"]
    BY <1>1 DEF Typed, TypeOK, Records
  <1>5. jobs'[at[t]].pid = jobs[at[t]].pid /\ jobs'[at[t]].status = "stopped"
    BY <1>1, <1>2, <1>4
  <1> QED
    BY <1>1, <1>3, <1>5

\* Jobs that are abandoned have a process that has ended.
LEMMA AbandonKeeps ==
    ASSUME Typed, JobInv, NEW gone \in SUBSET Stale, Abandon(gone)
    PROVE  /\ Named(jobs', given) /\ Finished(jobs', given, os)
           /\ \A j \in JobIds : jobs[j].status # "none" => jobs'[j].status # "none"
  <1>1. /\ \A j \in JobIds : /\ jobs'[j].pid = jobs[j].pid
                             /\ j \in gone => jobs'[j].status = "abandoned"
                             /\ j \notin gone => jobs'[j] = jobs[j]
    BY AbandonFacts
  <1>2. \A j \in gone : /\ j \in JobIds /\ jobs[j].status = "running"
                        /\ jobs[j].pid \in Trainers /\ os[jobs[j].pid] = "ended"
    <2>1. ASSUME NEW j \in gone
          PROVE  /\ j \in JobIds /\ jobs[j].status = "running"
                 /\ jobs[j].pid \in Trainers /\ os[jobs[j].pid] = "ended"
      <3>1. j \in JobIds /\ jobs[j].status = "running" /\ ~Runs(jobs[j].pid)
        BY DEF Stale
      <3>2. jobs[j].pid \in Trainers /\ given[jobs[j].pid] = j
        BY <3>1 DEF JobInv, Named
      <3>3. given[jobs[j].pid] # 0
        BY <3>1, <3>2, BoundsAssumption DEF JobIds
      <3>4. os[jobs[j].pid] # "unused" /\ os[jobs[j].pid] # "runs"
        BY <3>1, <3>2, <3>3, ProcessFacts DEF JobInv, Runs
      <3> QED
        BY <3>1, <3>2, <3>4, ProcessFacts DEF Typed, TypeOK
    <2> QED
      BY <2>1
  <1>3. Named(jobs', given)
    BY <1>1, <1>2 DEF JobInv, Named
  <1>4. Finished(jobs', given, os)
    BY <1>1, <1>2 DEF JobInv, Finished
  <1> QED
    BY <1>1, <1>2, <1>3, <1>4

\* Steps that leave the records and the processes alone keep JobInv, if the threads agree
\* with them.
LEMMA RecordsKept ==
    ASSUME Typed, JobInv, OsGrows, GivenGrows,
           UNCHANGED <<jobs, handle, manifest>>,
           \A p \in Trainers : given'[p] = 0 <=> os'[p] = "unused",
           \A t \in Threads : draft'[t] \in {draft[t], NoJobs, jobs},
           \A t \in Threads : pc'[t] \in {"register", "terminate", "finalize"} =>
               hand'[t] \in Trainers /\ given'[hand'[t]] = at'[t],
           \A t \in Threads : pc'[t] \in {"terminate", "finalize"} => jobs[at'[t]].status # "none",
           \A t \in Threads : pc'[t] = "finalize" => os'[hand'[t]] = "ended"
    PROVE  JobInv'
  <1>1. /\ Named(jobs, given)' /\ Named(manifest, given)'
        /\ Finished(jobs, given, os)' /\ Finished(manifest, given, os)'
    BY NamesStay DEF JobInv
  <1>2. ASSUME NEW t \in Threads PROVE Named(draft[t], given)' /\ Finished(draft[t], given, os)'
    <2>1. CASE draft'[t] = draft[t]
      BY <2>1, NamesStay DEF JobInv
    <2>2. CASE draft'[t] = NoJobs
      BY <2>2, NoJobsFacts
    <2>3. CASE draft'[t] = jobs
      BY <2>3, NamesStay DEF JobInv
    <2> QED
      BY <2>1, <2>2, <2>3
  <1>3. \A j \in JobIds : handle'[j] # NoProcess =>
          handle'[j] \in Trainers /\ given'[handle'[j]] = j /\ jobs'[j].status # "none"
    <2>1. \A j \in JobIds : j # 0
      BY BoundsAssumption DEF JobIds
    <2> QED
      BY <2>1 DEF JobInv, GivenGrows
  <1> QED
    BY <1>1, <1>2, <1>3 DEF JobInv

LEMMA GivenSame == UNCHANGED given => GivenGrows
  BY DEF GivenGrows

LEMMA JobStep == Typed /\ JobInv /\ [Next]_vars => JobInv'
  <1> SUFFICES ASSUME Typed, JobInv, [Next]_vars PROVE JobInv'
    OBVIOUS
  <1> USE ProcessFacts
  <1>1. CASE Quiet
    <2>1. /\ OsGrows /\ GivenGrows /\ UNCHANGED <<jobs, handle, manifest, given>>
          /\ \A t \in Threads : draft'[t] \in {draft[t], NoJobs, jobs}
      BY <1>1, GivenSame DEF Quiet
    <2>2. \A p \in Trainers : given'[p] = 0 <=> os'[p] = "unused"
      BY <1>1 DEF Quiet, OsGrows, JobInv
    <2>3. \A t \in Threads : pc'[t] \in {"register", "terminate", "finalize"} =>
             /\ pc'[t] = pc[t] /\ hand'[t] = hand[t] /\ at'[t] = at[t]
      BY <1>1 DEF Quiet, Busy
    <2>4. \A t \in Threads : pc'[t] \in {"register", "terminate", "finalize"} =>
             hand'[t] \in Trainers /\ given'[hand'[t]] = at'[t]
      BY <2>1, <2>3 DEF JobInv
    <2>5. \A t \in Threads : pc'[t] \in {"terminate", "finalize"} => jobs[at'[t]].status # "none"
      BY <2>3 DEF JobInv
    <2>6. \A t \in Threads : pc'[t] = "finalize" => os'[hand'[t]] = "ended"
      BY <2>1, <2>3 DEF JobInv, OsGrows
    <2> QED
      BY <2>1, <2>2, <2>4, <2>5, <2>6, RecordsKept
  <1>2. CASE Restart
    <2>1. UNCHANGED <<os, given, manifest>> /\ jobs' = manifest /\ handle' = NoHandles
          /\ \A t \in Threads : pc'[t] = "idle" /\ draft'[t] = NoJobs
      BY <1>2 DEF Restart, Die
    <2> QED
      BY <2>1, NoJobsFacts DEF NoHandles, JobInv
  <1>3. ASSUME NEW t \in Threads, StartTraining(t) PROVE JobInv'
    <2>1. OsGrows
      BY <1>3, PopenGrows DEF StartTraining, Typed
    <2>2. PICK p \in Trainers : /\ os[p] = "unused" /\ os' = [os EXCEPT ![p] = "runs"]
                                /\ hand' = [hand EXCEPT ![t] = p]
      BY <1>3, PopenFacts DEF StartTraining, Typed
    <2>3. PICK now \in second..Seconds : at' = [at EXCEPT ![t] = now]
                                       /\ given' = [given EXCEPT ![hand'[t]] = now]
      BY <1>3 DEF StartTraining
    <2>4. UNCHANGED <<jobs, handle, manifest, draft>> /\ pc' = [pc EXCEPT ![t] = "register"]
      BY <1>3 DEF StartTraining, Goto, records
    <2>5. hand'[t] = p /\ at'[t] = now /\ pc'[t] = "register"
          /\ \A u \in Threads : u # t => hand'[u] = hand[u] /\ at'[u] = at[u] /\ pc'[u] = pc[u]
      BY <2>2, <2>3, <2>4 DEF Typed, TypeOK
    <2>6. given'[p] = now /\ \A q \in Trainers : q # p => given'[q] = given[q]
      BY <2>3, <2>5 DEF Typed, TypeOK
    <2>7. given[p] = 0 /\ now # 0
      BY <2>2, <2>3, BoundsAssumption DEF JobInv, Typed, TypeOK, JobIds
    <2>8. GivenGrows
      BY <2>6, <2>7 DEF GivenGrows
    <2>9. \A q \in Trainers : given'[q] = 0 <=> os'[q] = "unused"
      BY <2>2, <2>6, <2>7 DEF JobInv, Typed, TypeOK
    <2>10. \A u \in Threads : at[u] \in JobIds /\ at[u] # 0
      BY BoundsAssumption DEF Typed, TypeOK, JobIds
    <2>11. \A u \in Threads : pc'[u] \in {"register", "terminate", "finalize"} =>
             hand'[u] \in Trainers /\ given'[hand'[u]] = at'[u]
      BY <2>5, <2>6, <2>8, <2>10 DEF JobInv, GivenGrows
    <2>12. \A u \in Threads : pc'[u] \in {"terminate", "finalize"} => jobs[at'[u]].status # "none"
      BY <2>5 DEF JobInv
    <2>13. \A u \in Threads : pc'[u] = "finalize" => os'[hand'[u]] = "ended"
      BY <2>1, <2>5 DEF JobInv, OsGrows
    <2> QED
      BY <2>1, <2>4, <2>8, <2>9, <2>11, <2>12, <2>13, RecordsKept
  <1>4. ASSUME NEW t \in Threads, Register(t) PROVE JobInv'
    <2>1. hand[t] \in Trainers /\ given[hand[t]] = at[t] /\ at[t] \in JobIds
      BY <1>4 DEF Register, JobInv, Typed, TypeOK
    <2>2. /\ UNCHANGED <<os, given, manifest>> /\ Leave(t, "persist")
          /\ handle' = [handle EXCEPT ![at[t]] = hand[t]]
          /\ jobs' = [jobs EXCEPT ![at[t]] = [status |-> "running", pid |-> hand[t]]]
      BY <1>4 DEF Register, world
    <2>3. /\ jobs'[at[t]].status = "running" /\ jobs'[at[t]].pid = hand[t]
          /\ \A j \in JobIds : j # at[t] => jobs'[j] = jobs[j]
      BY <2>1, <2>2 DEF Typed, TypeOK, Records
    <2>4. handle'[at[t]] = hand[t] /\ \A j \in JobIds : j # at[t] => handle'[j] = handle[j]
      BY <2>1, <2>2 DEF Typed, TypeOK
    <2>5. Named(jobs', given) /\ Finished(jobs', given, os)
      BY <2>1, <2>3 DEF JobInv, Named, Finished, Over
    <2>6. /\ \A u \in Threads : /\ draft'[u] \in {draft[u], NoJobs}
                                /\ u # t => pc'[u] = pc[u] /\ hand'[u] = hand[u] /\ at'[u] = at[u]
          /\ pc'[t] = "persist"
      BY <2>2, LeaveFacts
    <2>7. \A u \in Threads : Named(draft'[u], given) /\ Finished(draft'[u], given, os)
      BY <2>6, NoJobsFacts DEF JobInv
    <2>8. \A u \in Threads : pc'[u] \in {"terminate", "finalize"} => jobs'[at'[u]].status # "none"
      BY <2>3, <2>6 DEF JobInv, Typed, TypeOK
    <2>9. \A j \in JobIds : handle'[j] # NoProcess =>
             handle'[j] \in Trainers /\ given[handle'[j]] = j /\ jobs'[j].status # "none"
      BY <2>1, <2>3, <2>4 DEF JobInv
    <2>10. \A u \in Threads : pc'[u] \in {"register", "terminate", "finalize"} =>
             hand'[u] \in Trainers /\ given[hand'[u]] = at'[u]
      BY <2>6 DEF JobInv
    <2>11. \A u \in Threads : pc'[u] = "finalize" => os[hand'[u]] = "ended"
      BY <2>6 DEF JobInv
    <2> QED
      BY <2>2, <2>5, <2>7, <2>8, <2>9, <2>10, <2>11 DEF JobInv
  <1>5. ASSUME NEW t \in Threads, StopTraining(t) PROVE JobInv'
    <2>1. PICK j \in JobIds : handle[j] # NoProcess /\ at' = [at EXCEPT ![t] = j]
                           /\ hand' = [hand EXCEPT ![t] = handle[j]]
      BY <1>5 DEF StopTraining
    <2>2. /\ UNCHANGED <<jobs, handle, manifest, os, given, draft>>
          /\ pc' = [pc EXCEPT ![t] = "terminate"]
      BY <1>5 DEF StopTraining, Goto, records, world
    <2>3. /\ pc'[t] = "terminate" /\ at'[t] = j /\ hand'[t] = handle[j]
          /\ \A u \in Threads : u # t => pc'[u] = pc[u] /\ at'[u] = at[u] /\ hand'[u] = hand[u]
      BY <2>1, <2>2 DEF Typed, TypeOK
    <2>4. OsGrows /\ GivenGrows /\ \A p \in Trainers : given'[p] = 0 <=> os'[p] = "unused"
      BY <2>2, SameOs, GivenSame DEF JobInv
    <2>5. \A u \in Threads : pc'[u] \in {"register", "terminate", "finalize"} =>
             hand'[u] \in Trainers /\ given'[hand'[u]] = at'[u]
      BY <2>1, <2>2, <2>3 DEF JobInv
    <2>6. \A u \in Threads : pc'[u] \in {"terminate", "finalize"} => jobs[at'[u]].status # "none"
      BY <2>1, <2>3 DEF JobInv
    <2>7. \A u \in Threads : pc'[u] = "finalize" => os'[hand'[u]] = "ended"
      BY <2>2, <2>3 DEF JobInv
    <2> QED
      BY <2>2, <2>4, <2>5, <2>6, <2>7, RecordsKept
  <1>6. ASSUME NEW t \in Threads, Terminate(t) PROVE JobInv'
    <2>1. /\ UNCHANGED <<jobs, handle, manifest, given, draft, hand, at>>
          /\ pc' = [pc EXCEPT ![t] = "finalize"] /\ pc[t] = "terminate"
      BY <1>6 DEF Terminate, Goto, records
    <2>2. hand[t] \in Trainers /\ given[hand[t]] = at[t] /\ at[t] # 0
      BY <2>1, BoundsAssumption DEF JobInv, Typed, TypeOK, JobIds
    <2>3. /\ OsGrows /\ os'[hand[t]] = "ended"
          /\ \A q \in Processes : os[q] = "unused" => os'[q] = "unused"
      BY <1>6, <2>2, KillFacts DEF Terminate, Typed, JobInv
    <2>4. pc'[t] = "finalize" /\ \A u \in Threads : u # t => pc'[u] = pc[u]
      BY <2>1 DEF Typed, TypeOK
    <2>5. GivenGrows /\ \A p \in Trainers : given'[p] = 0 <=> os'[p] = "unused"
      BY <2>1, <2>3, GivenSame DEF JobInv, OsGrows
    <2>6. \A u \in Threads : pc'[u] \in {"register", "terminate", "finalize"} =>
             hand'[u] \in Trainers /\ given'[hand'[u]] = at'[u]
      BY <2>1, <2>4 DEF JobInv
    <2>7. \A u \in Threads : pc'[u] \in {"terminate", "finalize"} => jobs[at'[u]].status # "none"
      BY <2>1, <2>4 DEF JobInv
    <2>8. \A u \in Threads : pc'[u] = "finalize" => os'[hand'[u]] = "ended"
      BY <2>1, <2>3, <2>4 DEF JobInv, OsGrows
    <2> QED
      BY <2>1, <2>3, <2>5, <2>6, <2>7, <2>8, RecordsKept
  <1>7. ASSUME NEW t \in Threads, Finalize(t) PROVE JobInv'
    <2>1. /\ \A j \in JobIds : jobs'[j].pid = jobs[j].pid
          /\ \A j \in JobIds : j # at[t] => jobs'[j] = jobs[j]
          /\ jobs'[at[t]].status = "stopped"
          /\ jobs[at[t]].status # "none" /\ at[t] \in JobIds /\ given[hand[t]] = at[t]
          /\ os[hand[t]] = "ended" /\ hand[t] \in Trainers
      BY <1>7, FinalizeFacts DEF JobInv, Finalize
    <2>2. /\ UNCHANGED <<os, given, manifest>> /\ Leave(t, "persist")
          /\ handle' = [handle EXCEPT ![at[t]] = NoProcess]
      BY <1>7 DEF Finalize, world
    <2>3. Named(jobs', given)
      BY <2>1 DEF JobInv, Named
    <2>4. Finished(jobs', given, os)
      <3>1. ASSUME \A q \in Trainers : given[q] = at[t] => q = jobs'[at[t]].pid
            PROVE  os[jobs'[at[t]].pid] = "ended"
        BY <2>1, <3>1
      <3> QED
        BY <2>1, <3>1 DEF JobInv, Finished
    <2>5. \A j \in JobIds : /\ j # at[t] => handle'[j] = handle[j]
                            /\ j = at[t] => handle'[j] = NoProcess
      BY <2>2 DEF Typed, TypeOK
    <2>6. /\ \A u \in Threads : /\ draft'[u] \in {draft[u], NoJobs}
                                /\ u # t => pc'[u] = pc[u] /\ hand'[u] = hand[u] /\ at'[u] = at[u]
          /\ pc'[t] = "persist"
      BY <2>2, LeaveFacts
    <2>7. \A u \in Threads : Named(draft'[u], given) /\ Finished(draft'[u], given, os)
      BY <2>6, NoJobsFacts DEF JobInv
    <2>8. \A u \in Threads : pc'[u] \in {"terminate", "finalize"} => jobs'[at'[u]].status # "none"
      BY <2>1, <2>6 DEF JobInv, Typed, TypeOK
    <2>9. \A j \in JobIds : handle'[j] # NoProcess =>
             handle'[j] \in Trainers /\ given[handle'[j]] = j /\ jobs'[j].status # "none"
      BY <2>1, <2>5 DEF JobInv
    <2>10. \A u \in Threads : pc'[u] \in {"register", "terminate", "finalize"} =>
             hand'[u] \in Trainers /\ given[hand'[u]] = at'[u]
      BY <2>6 DEF JobInv
    <2>11. \A u \in Threads : pc'[u] = "finalize" => os[hand'[u]] = "ended"
      BY <2>6 DEF JobInv
    <2> QED
      BY <2>2, <2>3, <2>4, <2>7, <2>8, <2>9, <2>10, <2>11 DEF JobInv
  <1>8. ASSUME NEW t \in Threads, Serialise(t) PROVE JobInv'
    <2>1. /\ UNCHANGED <<jobs, handle, manifest, os, given, hand, at>>
          /\ pc' = [pc EXCEPT ![t] = "replace"] /\ draft' = [draft EXCEPT ![t] = jobs]
      BY <1>8 DEF Serialise, Goto, records, world
    <2>2. \A u \in Threads : /\ pc'[u] \in {"register", "terminate", "finalize"} => pc'[u] = pc[u]
                             /\ draft'[u] \in {draft[u], NoJobs, jobs}
      BY <2>1 DEF Typed, TypeOK
    <2>3. OsGrows /\ GivenGrows /\ \A p \in Trainers : given'[p] = 0 <=> os'[p] = "unused"
      BY <2>1, SameOs, GivenSame DEF JobInv
    <2>4. \A u \in Threads : pc'[u] \in {"register", "terminate", "finalize"} =>
             hand'[u] \in Trainers /\ given'[hand'[u]] = at'[u]
      BY <2>1, <2>2 DEF JobInv
    <2>5. \A u \in Threads : pc'[u] \in {"terminate", "finalize"} => jobs[at'[u]].status # "none"
      BY <2>1, <2>2 DEF JobInv
    <2>6. \A u \in Threads : pc'[u] = "finalize" => os'[hand'[u]] = "ended"
      BY <2>1, <2>2 DEF JobInv
    <2> QED
      BY <2>1, <2>2, <2>3, <2>4, <2>5, <2>6, RecordsKept
  <1>9. ASSUME NEW t \in Threads, Replace(t) \/ WriteFails(t) PROVE JobInv'
    <2>1. /\ UNCHANGED <<jobs, handle, os, given>> /\ manifest' \in {manifest, draft[t]}
          /\ Leave(t, "idle")
      BY <1>9 DEF Replace, WriteFails, Return, records, world
    <2>2. /\ \A u \in Threads : /\ draft'[u] \in {draft[u], NoJobs}
                                /\ u # t => pc'[u] = pc[u] /\ hand'[u] = hand[u] /\ at'[u] = at[u]
          /\ pc'[t] = "idle"
      BY <2>1, LeaveFacts
    <2>3. \A u \in Threads : Named(draft'[u], given) /\ Finished(draft'[u], given, os)
      BY <2>2, NoJobsFacts DEF JobInv
    <2>4. Named(manifest', given) /\ Finished(manifest', given, os)
      BY <2>1 DEF JobInv
    <2> QED
      BY <2>1, <2>2, <2>3, <2>4 DEF JobInv
  <1>10. ASSUME NEW t \in Threads, Report(t) \/ ReportFails(t) PROVE JobInv'
    <2>1. PICK gone \in SUBSET Stale : Abandon(gone) /\ manifest' \in {manifest, jobs'}
      BY <1>10, ReconcileFacts DEF Report, ReportFails
    <2>2. /\ Named(jobs', given) /\ Finished(jobs', given, os)
          /\ \A j \in JobIds : jobs[j].status # "none" => jobs'[j].status # "none"
      BY <2>1, AbandonKeeps
    <2>3. /\ UNCHANGED <<os, given, handle>>
          /\ \/ pc' = [pc EXCEPT ![t] = "health"] /\ UNCHANGED <<hand, at, draft>>
             \/ Leave(t, "idle")
      BY <1>10 DEF Report, ReportFails, Return, Goto, world
    <2>4. \A u \in Threads : /\ draft'[u] \in {draft[u], NoJobs}
                             /\ pc'[u] \in {"register", "terminate", "finalize"} =>
                                  pc'[u] = pc[u] /\ hand'[u] = hand[u] /\ at'[u] = at[u]
      BY <2>3, LeaveFacts DEF Typed, TypeOK
    <2>5. \A u \in Threads : Named(draft'[u], given) /\ Finished(draft'[u], given, os)
      BY <2>4, NoJobsFacts DEF JobInv
    <2>6. Named(manifest', given) /\ Finished(manifest', given, os)
      BY <2>1, <2>2 DEF JobInv
    <2>7. \A u \in Threads : pc'[u] \in {"terminate", "finalize"} => jobs'[at'[u]].status # "none"
      BY <2>2, <2>4 DEF JobInv, Typed, TypeOK
    <2>8. \A j \in JobIds : handle'[j] # NoProcess =>
             handle'[j] \in Trainers /\ given[handle'[j]] = j /\ jobs'[j].status # "none"
      BY <2>2, <2>3 DEF JobInv
    <2>9. \A u \in Threads : pc'[u] \in {"register", "terminate", "finalize"} =>
             hand'[u] \in Trainers /\ given[hand'[u]] = at'[u]
      BY <2>4 DEF JobInv
    <2>10. \A u \in Threads : pc'[u] = "finalize" => os[hand'[u]] = "ended"
      BY <2>4 DEF JobInv
    <2> QED
      BY <2>2, <2>3, <2>5, <2>6, <2>7, <2>8, <2>9, <2>10 DEF JobInv
  <1> QED
    BY StepCases, <1>1, <1>2, <1>3, <1>4, <1>5, <1>6, <1>7, <1>8, <1>9, <1>10

LEMMA JobsAlways == Spec => [](Typed /\ JobInv)
  <1>1. Init => Typed /\ JobInv
    BY InitTyped, JobInit
  <1>2. (Typed /\ JobInv) /\ [Next]_vars => (Typed /\ JobInv)'
    BY StepTyped, JobStep
  <1> QED
    BY <1>1, <1>2, PTL DEF Spec

\* A job that counts as over has no process that still runs, unless another job got its
\* id: also after restarts, and whichever writes of the manifest fail or overlap.
THEOREM OverJobsHaveEnded == Spec => []OverMeansEnded
  <1>1. ASSUME Typed, JobInv, NEW j \in JobIds, jobs[j].status \in Over, Alone(jobs[j].pid)
        PROVE  ~Runs(jobs[j].pid)
    <2>1. given[jobs[j].pid] = j
      BY <1>1 DEF JobInv, Named, Over
    <2>2. os[jobs[j].pid] = "ended"
      BY <1>1, <2>1 DEF JobInv, Finished, Alone
    <2> QED
      BY <2>2 DEF Runs
  <1>2. Typed /\ JobInv => OverMeansEnded
    BY <1>1 DEF OverMeansEnded
  <1> QED
    BY <1>2, JobsAlways, PTL

-----------------------------------------------------------------------------
(* The manifest, and what it is good for after a restart. *)

\* A thread that is about to replace the manifest, and does not overlap another one, has
\* the current records, or another thread is still to write.
SaveInv ==
    /\ (\A t \in Threads : pc[t] # "persist") =>
           \A t \in Threads : (pc[t] = "replace" /\ t \notin behind) => draft[t] = jobs
    /\ (~unsaved /\ \A t \in Threads : pc[t] \notin {"persist", "replace"}) => manifest = jobs

LEMMA SaveInit == Init => SaveInv
  BY DEF Init, SaveInv

LEMMA SaveStep == Typed /\ SaveInv /\ [Next]_vars => SaveInv'
  <1> SUFFICES ASSUME Typed, SaveInv, [Next]_vars PROVE SaveInv'
    OBVIOUS
  <1> USE DEF SaveInv
  <1>1. CASE Quiet
    <2>1. \A u \in Threads : (pc'[u] \in {"persist", "replace"} \/ pc[u] \in {"persist", "replace"}) =>
             pc'[u] = pc[u] /\ draft'[u] = draft[u]
      BY <1>1 DEF Quiet, Busy, Relied
    <2>2. UNCHANGED <<jobs, manifest, behind, unsaved>>
      BY <1>1 DEF Quiet
    <2> QED
      BY <2>1, <2>2
  <1>2. CASE Restart
    BY <1>2 DEF Restart, Die
  <1>3. ASSUME NEW t \in Threads, StartTraining(t) \/ StopTraining(t) \/ Terminate(t) PROVE SaveInv'
    <2>1. /\ UNCHANGED <<jobs, manifest, draft, behind, unsaved>>
          /\ pc[t] \in {"idle", "terminate"}
          /\ \E where \in {"register", "terminate", "finalize"} : pc' = [pc EXCEPT ![t] = where]
      BY <1>3 DEF StartTraining, StopTraining, Terminate, Goto, records, history, saves
    <2>2. /\ pc'[t] \notin {"persist", "replace"} /\ pc[t] \notin {"persist", "replace"}
          /\ \A u \in Threads : u # t => pc'[u] = pc[u]
      BY <2>1 DEF Typed, TypeOK
    <2> QED
      BY <2>1, <2>2
  <1>4. ASSUME NEW t \in Threads, Register(t) \/ Finalize(t) PROVE SaveInv'
    <2>1. pc'[t] = "persist"
      BY <1>4, LeaveFacts DEF Register, Finalize
    <2> QED
      BY <2>1
  <1>5. ASSUME NEW t \in Threads, Serialise(t) PROVE SaveInv'
    <2>1. /\ UNCHANGED <<jobs, manifest>> /\ pc' = [pc EXCEPT ![t] = "replace"]
          /\ draft' = [draft EXCEPT ![t] = jobs] /\ Writing \subseteq behind'
      BY <1>5 DEF Serialise, Goto, records
    <2>2. pc'[t] = "replace" /\ draft'[t] = jobs
      BY <2>1 DEF Typed, TypeOK
    <2>3. \A u \in Threads : (u # t /\ pc'[u] = "replace") => u \in behind'
      BY <2>1 DEF Writing, Typed, TypeOK
    <2> QED
      BY <2>1, <2>2, <2>3
  <1>6. ASSUME NEW t \in Threads, Replace(t) PROVE SaveInv'
    <2>1. /\ UNCHANGED jobs /\ manifest' = draft[t] /\ Leave(t, "idle") /\ pc[t] = "replace"
          /\ (~unsaved' => t \notin behind) /\ behind' = behind \ {t}
      BY <1>6 DEF Replace, Return, records
    <2>2. /\ pc'[t] = "idle"
          /\ \A u \in Threads : u # t => pc'[u] = pc[u] /\ draft'[u] = draft[u]
      BY <2>1, LeaveFacts
    <2>3. (\A u \in Threads : pc'[u] # "persist") => \A u \in Threads : pc[u] # "persist"
      BY <2>1, <2>2
    <2> QED
      BY <2>1, <2>2, <2>3
  <1>7. ASSUME NEW t \in Threads, WriteFails(t) PROVE SaveInv'
    <2>1. unsaved' = TRUE /\ behind' = (behind \cup Writing) \ {t} /\ Leave(t, "idle")
      BY <1>7 DEF WriteFails, Return
    <2>2. \A u \in Threads : pc'[u] = "replace" => u \in behind'
      BY <2>1, LeaveFacts DEF Writing
    <2> QED
      BY <2>1, <2>2
  <1>8. ASSUME NEW t \in Threads, Report(t) PROVE SaveInv'
    <2>1. /\ UNCHANGED draft /\ pc' = [pc EXCEPT ![t] = "health"] /\ pc[t] = "status"
      BY <1>8 DEF Report, Goto
    <2>2. /\ pc'[t] \notin {"persist", "replace"}
          /\ \A u \in Threads : u # t => pc'[u] = pc[u]
      BY <2>1 DEF Typed, TypeOK
    <2>3. PICK gone \in SUBSET Stale :
            /\ Abandon(gone)
            /\ gone = {} => UNCHANGED <<manifest, behind, unsaved>>
            /\ gone # {} => manifest' = jobs' /\ behind' = behind \cup Writing
      BY <1>8, ReconcileFacts DEF Report
    <2>4. CASE gone = {}
      <3>1. UNCHANGED <<jobs, manifest, behind, unsaved>>
        BY <2>3, <2>4, AbandonFacts
      <3> QED
        BY <2>1, <2>2, <3>1
    <2>5. CASE gone # {}
      <3>1. \A u \in Threads : pc'[u] = "replace" => u \in behind'
        BY <2>2, <2>3, <2>5 DEF Writing
      <3> QED
        BY <2>3, <2>5, <3>1
    <2> QED
      BY <2>4, <2>5
  <1>9. ASSUME NEW t \in Threads, ReportFails(t) PROVE SaveInv'
    <2>1. unsaved' = TRUE /\ behind' = behind \cup Writing /\ Leave(t, "idle")
      BY <1>9 DEF ReportFails, Return
    <2>2. \A u \in Threads : pc'[u] = "replace" => u \in behind'
      BY <2>1, LeaveFacts DEF Writing
    <2> QED
      BY <2>1, <2>2
  <1> QED
    BY StepCases, <1>1, <1>2, <1>3, <1>4, <1>5, <1>6, <1>7, <1>8, <1>9

\* Who is alone with an id was alone with it before.
LEMMA AloneBefore ==
    ASSUME Typed, JobInv, GivenGrows, NEW p \in Trainers, Runs(p), Alone(p)'
    PROVE  Alone(p) /\ given'[p] = given[p] /\ given[p] \in JobIds
  <1>1. os[p] # "unused"
    BY DEF Runs
  <1>2. given[p] # 0 /\ given[p] \in 0..Seconds
    BY <1>1 DEF JobInv, Typed, TypeOK
  <1>3. given[p] \in JobIds
    BY <1>2, BoundsAssumption DEF JobIds
  <1>4. given'[p] = given[p]
    BY <1>2 DEF GivenGrows
  <1>5. ASSUME NEW q \in Trainers, given[q] = given[p] PROVE q = p
    BY <1>2, <1>4, <1>5 DEF GivenGrows, Alone
  <1> QED
    BY <1>3, <1>4, <1>5 DEF Alone

LEMMA KnownStep ==
    Typed /\ JobInv /\ SaveInv /\ TrainingIsKnown /\ [Next]_vars => TrainingIsKnown'
  <1> SUFFICES ASSUME Typed, JobInv, SaveInv, TrainingIsKnown, [Next]_vars, "records" \notin mixed',
                      NEW p \in Trainers, Runs(p)', Alone(p)'
               PROVE  \/ jobs'[given'[p]] = [status |-> "running", pid |-> p]
                      \/ \E t \in Threads : pc'[t] = "register" /\ hand'[t] = p
    BY DEF TrainingIsKnown
  <1> DEFINE Recorded == jobs[given[p]] = [status |-> "running", pid |-> p]
             Coming == \E t \in Threads : pc[t] = "register" /\ hand[t] = p
  <1>0. Runs(p) /\ Alone(p) => Recorded \/ Coming
    BY MixedGrows DEF TrainingIsKnown
  <1> HIDE DEF Recorded, Coming
  <1> USE ProcessFacts
  <1>1. ASSUME UNCHANGED given, Runs(p)
        PROVE  (Recorded \/ Coming) /\ given'[p] = given[p] /\ given[p] \in JobIds /\ Alone(p)
    BY <1>0, <1>1, GivenSame, AloneBefore
  <1>2. CASE Quiet
    <2>1. Runs(p) /\ UNCHANGED <<given, jobs>>
      BY <1>2 DEF Quiet
    <2>2. \A u \in Threads : pc[u] = "register" => pc'[u] = "register" /\ hand'[u] = hand[u]
      BY <1>2 DEF Quiet, Busy, Relied
    <2> QED
      BY <1>1, <2>1, <2>2 DEF Recorded, Coming
  <1>3. CASE Restart
    <2>1. /\ \A t \in Threads : pc[t] \notin {"register", "persist", "replace"}
          /\ ~unsaved /\ jobs' = manifest /\ UNCHANGED <<os, given>>
      BY <1>3 DEF Restart, Die
    <2>2. manifest = jobs
      BY <2>1 DEF SaveInv
    <2>3. Runs(p) /\ ~Coming
      BY <2>1 DEF Runs, Coming
    <2> QED
      BY <1>1, <2>1, <2>2, <2>3 DEF Recorded
  <1>4. ASSUME NEW t \in Threads, StartTraining(t)
        PROVE  \/ jobs'[given'[p]] = [status |-> "running", pid |-> p]
               \/ \E u \in Threads : pc'[u] = "register" /\ hand'[u] = p
    <2>1. PICK q \in Trainers : /\ os[q] = "unused" /\ os' = [os EXCEPT ![q] = "runs"]
                                /\ hand' = [hand EXCEPT ![t] = q]
      BY <1>4, PopenFacts DEF StartTraining, Typed
    <2>2. /\ UNCHANGED jobs /\ pc' = [pc EXCEPT ![t] = "register"] /\ pc[t] = "idle"
          /\ \E now \in second..Seconds : given' = [given EXCEPT ![hand'[t]] = now]
      BY <1>4 DEF StartTraining, Goto, records
    <2>3. /\ pc'[t] = "register" /\ hand'[t] = q
          /\ \A u \in Threads : u # t => pc'[u] = pc[u] /\ hand'[u] = hand[u]
      BY <2>1, <2>2 DEF Typed, TypeOK
    <2>4. CASE p = q
      BY <2>3, <2>4
    <2>5. CASE p # q
      <3>1. Runs(p)
        BY <2>1, <2>5 DEF Runs, Typed, TypeOK
      <3>2. given[q] = 0
        BY <2>1 DEF JobInv
      <3>3. GivenGrows
        BY <2>2, <2>3, <3>2 DEF GivenGrows, Typed, TypeOK
      <3>4. Alone(p) /\ given'[p] = given[p]
        BY <3>1, <3>3, AloneBefore
      <3> QED
        BY <1>0, <2>2, <2>3, <3>1, <3>4 DEF Recorded, Coming
    <2> QED
      BY <2>4, <2>5
  <1>5. ASSUME NEW t \in Threads, Register(t)
        PROVE  \/ jobs'[given'[p]] = [status |-> "running", pid |-> p]
               \/ \E u \in Threads : pc'[u] = "register" /\ hand'[u] = p
    <2>1. hand[t] \in Trainers /\ given[hand[t]] = at[t] /\ at[t] \in JobIds
      BY <1>5 DEF Register, JobInv, Typed, TypeOK
    <2>2. /\ UNCHANGED <<os, given>> /\ Leave(t, "persist")
          /\ jobs' = [jobs EXCEPT ![at[t]] = [status |-> "running", pid |-> hand[t]]]
      BY <1>5 DEF Register, world
    <2>3. /\ jobs'[at[t]] = [status |-> "running", pid |-> hand[t]]
          /\ \A j \in JobIds : j # at[t] => jobs'[j] = jobs[j]
      BY <2>1, <2>2 DEF Typed, TypeOK, Records
    <2>4. \A u \in Threads : u # t => pc'[u] = pc[u] /\ hand'[u] = hand[u]
      BY <2>2, LeaveFacts
    <2>5. /\ Recorded \/ Coming
          /\ given'[p] = given[p] /\ given[p] \in JobIds /\ Alone(p)
      BY <1>1, <2>2 DEF Runs
    <2>6. CASE p = hand[t]
      BY <2>1, <2>3, <2>5, <2>6
    <2>7. CASE p # hand[t]
      <3>1. given[p] # at[t]
        BY <2>1, <2>5, <2>7 DEF Alone
      <3> QED
        BY <2>3, <2>4, <2>5, <2>7, <3>1 DEF Recorded, Coming
    <2> QED
      BY <2>6, <2>7
  <1>6. ASSUME NEW t \in Threads, StopTraining(t) \/ Terminate(t) \/ Serialise(t)
        PROVE  \/ jobs'[given'[p]] = [status |-> "running", pid |-> p]
               \/ \E u \in Threads : pc'[u] = "register" /\ hand'[u] = p
    <2>1. Runs(p) /\ UNCHANGED <<given, jobs>>
      BY <1>6, KillFacts DEF StopTraining, Terminate, Serialise, records, world, Runs, Typed
    <2>2. \A u \in Threads : pc[u] = "register" => pc'[u] = "register" /\ hand'[u] = hand[u]
      BY <1>6 DEF StopTraining, Terminate, Serialise, Goto, Typed, TypeOK
    <2> QED
      BY <1>1, <2>1, <2>2 DEF Recorded, Coming
  <1>7. ASSUME NEW t \in Threads, Finalize(t)
        PROVE  \/ jobs'[given'[p]] = [status |-> "running", pid |-> p]
               \/ \E u \in Threads : pc'[u] = "register" /\ hand'[u] = p
    <2>1. /\ \A j \in JobIds : j # at[t] => jobs'[j] = jobs[j]
          /\ hand[t] \in Trainers /\ given[hand[t]] = at[t] /\ os[hand[t]] = "ended"
      BY <1>7, FinalizeFacts DEF JobInv, Finalize
    <2>2. UNCHANGED <<os, given>> /\ Leave(t, "persist") /\ pc[t] = "finalize"
      BY <1>7 DEF Finalize, world
    <2>3. Runs(p) /\ p # hand[t]
      BY <2>1, <2>2 DEF Runs
    <2>4. /\ Recorded \/ Coming
          /\ given'[p] = given[p] /\ given[p] \in JobIds /\ Alone(p)
      BY <1>1, <2>2, <2>3
    <2>5. given[p] # at[t]
      BY <2>1, <2>3, <2>4 DEF Alone
    <2>6. \A u \in Threads : u # t => pc'[u] = pc[u] /\ hand'[u] = hand[u]
      BY <2>2, LeaveFacts
    <2> QED
      BY <2>1, <2>2, <2>4, <2>5, <2>6 DEF Recorded, Coming
  <1>8. ASSUME NEW t \in Threads, Replace(t) \/ WriteFails(t)
        PROVE  \/ jobs'[given'[p]] = [status |-> "running", pid |-> p]
               \/ \E u \in Threads : pc'[u] = "register" /\ hand'[u] = p
    <2>1. UNCHANGED <<jobs, os, given>> /\ Leave(t, "idle") /\ pc[t] \in {"persist", "replace"}
      BY <1>8 DEF Replace, WriteFails, Return, records, world
    <2>2. Runs(p) /\ \A u \in Threads : u # t => pc'[u] = pc[u] /\ hand'[u] = hand[u]
      BY <2>1, LeaveFacts DEF Runs
    <2> QED
      BY <1>1, <2>1, <2>2 DEF Recorded, Coming
  <1>9. ASSUME NEW t \in Threads, Report(t) \/ ReportFails(t)
        PROVE  \/ jobs'[given'[p]] = [status |-> "running", pid |-> p]
               \/ \E u \in Threads : pc'[u] = "register" /\ hand'[u] = p
    <2>1. PICK gone \in SUBSET Stale : Abandon(gone)
      BY <1>9, ReconcileFacts DEF Report, ReportFails
    <2>2. \A j \in JobIds : j \notin gone => jobs'[j] = jobs[j]
      BY <2>1, AbandonFacts
    <2>3. /\ UNCHANGED <<os, given>> /\ pc[t] = "status"
          /\ \/ pc' = [pc EXCEPT ![t] = "health"] /\ UNCHANGED hand
             \/ Leave(t, "idle")
      BY <1>9 DEF Report, ReportFails, Return, Goto, world
    <2>4. Runs(p) /\ \A u \in Threads : u # t => pc'[u] = pc[u] /\ hand'[u] = hand[u]
      BY <2>3, LeaveFacts DEF Runs, Typed, TypeOK
    <2>5. /\ Recorded \/ Coming
          /\ given'[p] = given[p] /\ given[p] \in JobIds
      BY <1>1, <2>3, <2>4
    <2>6. Recorded => given[p] \notin gone
      BY <2>4 DEF Recorded, Stale
    <2> QED
      BY <2>2, <2>3, <2>4, <2>5, <2>6 DEF Recorded, Coming
  <1> QED
    BY StepCases, <1>2, <1>3, <1>4, <1>5, <1>6, <1>7, <1>8, <1>9

LEMMA RecordsAlways == Spec => [](Typed /\ JobInv /\ SaveInv /\ TrainingIsKnown)
  <1>1. Init => Typed /\ JobInv /\ SaveInv /\ TrainingIsKnown
    <2>1. Init => TrainingIsKnown
      BY ProcessFacts DEF Init, TrainingIsKnown, Runs
    <2> QED
      BY <2>1, InitTyped, JobInit, SaveInit
  <1>2. (Typed /\ JobInv /\ SaveInv /\ TrainingIsKnown) /\ [Next]_vars
            => (Typed /\ JobInv /\ SaveInv /\ TrainingIsKnown)'
    BY StepTyped, JobStep, SaveStep, KnownStep
  <1> QED
    BY <1>1, <1>2, PTL DEF Spec

\* When no thread is about to write it, the manifest holds the records, unless the last
\* write failed or overlapped another one.
THEOREM ManifestHoldsTheRecords == Spec => []ManifestIsCurrent
  <1>1. SaveInv => ManifestIsCurrent
    BY DEF SaveInv, ManifestIsCurrent
  <1> QED
    BY <1>1, RecordsAlways, PTL

\* A training process that runs is on record under its own id, unless another job got
\* that id: while the service runs whichever writes fail or overlap, and after restarts
\* unless it died with a record still to write, or with the last write failed or
\* overlapped.
THEOREM TrainingStaysKnown == Spec => []TrainingIsKnown
  BY RecordsAlways, PTL

-----------------------------------------------------------------------------
(* The server. *)

\* Calls that do not overlap: one thread at most is starting or stopping the server,
\* and what it knows of it.
ServerInv ==
    "servers" \notin mixed =>
        /\ \A t, u \in Threads : (pc[t] \in ServerCall /\ pc[u] \in ServerCall) => t = u
        /\ \A p \in Servers : Runs(p) =>
              server = p \/ \E t \in Threads : pc[t] = "install" /\ hand[t] = p
        /\ \A t \in Threads :
              /\ pc[t] \in {"launch", "install"} => server = NoProcess
              /\ pc[t] = "launch" => \A p \in Servers : ~Runs(p)
              /\ pc[t] \in {"endserver", "clear"} => server \in {hand[t], NoProcess}
              /\ pc[t] = "clear" => hand[t] \in Servers /\ ~Runs(hand[t])
              /\ pc[t] = "forget" => ~Runs(server)

\* Steps in which no thread begins, ends or goes on with a call that starts or stops it.
ServerQuiet ==
    /\ server' = server \/ (server' = NoProcess /\ Ended(server))
    /\ \A u \in Threads : \/ pc'[u] = pc[u] /\ hand'[u] = hand[u]
                          \/ pc[u] \notin ServerCall /\ pc'[u] \notin ServerCall
    /\ \A p \in Servers : Runs(p)' => Runs(p)
    /\ mixed \subseteq mixed'

LEMMA ServerQuietKeeps == Typed /\ ServerInv /\ ServerQuiet => ServerInv'
  <1> SUFFICES ASSUME Typed, ServerInv, ServerQuiet, ("servers" \notin mixed)'
               PROVE  ServerInv'
    BY DEF ServerInv
  <1>0. "servers" \notin mixed
    BY DEF ServerQuiet
  <1>1. \A u \in Threads : (pc'[u] \in ServerCall \/ pc[u] \in ServerCall) =>
            pc'[u] = pc[u] /\ hand'[u] = hand[u]
    BY DEF ServerQuiet
  <1>2. server \in Servers \cup {NoProcess} /\ ~Runs(NoProcess)'
    BY ProcessFacts DEF Runs, Typed, TypeOK
  <1>3. \A t, u \in Threads : (pc'[t] \in ServerCall /\ pc'[u] \in ServerCall) => t = u
    BY <1>0, <1>1 DEF ServerInv
  <1>4. \A p \in Servers : Runs(p)' =>
            server' = p \/ \E t \in Threads : pc'[t] = "install" /\ hand'[t] = p
    BY <1>0, <1>1 DEF ServerInv, ServerQuiet, ServerCall, Runs, Ended
  <1>5. ASSUME NEW t \in Threads
        PROVE  /\ pc'[t] \in {"launch", "install"} => server' = NoProcess
               /\ pc'[t] = "launch" => \A p \in Servers : ~Runs(p)'
               /\ pc'[t] \in {"endserver", "clear"} => server' \in {hand'[t], NoProcess}
               /\ pc'[t] = "clear" => hand'[t] \in Servers /\ ~Runs(hand[t])'
               /\ pc'[t] = "forget" => ~Runs(server)'
    BY <1>0, <1>1, <1>2 DEF ServerInv, ServerQuiet, ServerCall
  <1> QED
    BY <1>1, <1>3, <1>4, <1>5 DEF ServerInv, ServerCall

LEMMA OthersLeaveTheServer ==
    ASSUME Typed, [Next]_vars
    PROVE  \/ ServerQuiet \/ "servers" \in mixed'
           \/ \E t \in Threads :
                 \/ StartServer(t) \/ Launch(t) \/ LaunchFails(t) \/ Install(t)
                 \/ StopServer(t) \/ Forget(t) \/ EndServer(t) \/ Clear(t)
  <1> USE ProcessFacts
  <1>0. mixed \subseteq mixed'
    BY MixedGrows
  <1>1. ASSUME NEW t \in Threads, StartTraining(t) PROVE ServerQuiet
    <2>1. PICK p \in Trainers : os' = [os EXCEPT ![p] = "runs"] /\ hand' = [hand EXCEPT ![t] = p]
      BY <1>1 DEF StartTraining, Popen
    <2>2. UNCHANGED server /\ pc' = [pc EXCEPT ![t] = "register"] /\ pc[t] = "idle"
      BY <1>1 DEF StartTraining, Goto
    <2> QED
      BY <1>0, <2>1, <2>2 DEF ServerQuiet, ServerCall, Runs, Typed, TypeOK
  <1>2. ASSUME NEW t \in Threads, Terminate(t) PROVE ServerQuiet
    <2>1. \A q \in Processes : Runs(q)' => Runs(q)
      BY <1>2, KillFacts DEF Terminate, Typed
    <2> QED
      BY <1>0, <1>2, <2>1 DEF Terminate, Goto, ServerQuiet, ServerCall, Typed, TypeOK
  <1>3. CASE ProcessEnds
    <2>1. \A q \in Processes : Runs(q)' => Runs(q)
      BY <1>3, KillFacts DEF ProcessEnds, Typed
    <2> QED
      BY <1>0, <1>3, <2>1 DEF ProcessEnds, thread, ServerQuiet
  <1>4. ASSUME NEW t \in Threads,
               \/ Register(t) \/ StopTraining(t) \/ TerminateFails(t) \/ Finalize(t)
               \/ Serialise(t) \/ Replace(t) \/ WriteFails(t)
        PROVE  ServerQuiet
    <2>1. UNCHANGED <<server, os>>
      BY <1>4 DEF Register, StopTraining, TerminateFails, Finalize, Serialise, Replace, WriteFails, world
    <2>2. \/ \E where \in {"idle", "persist"} : Leave(t, where)
          \/ /\ \A u \in Threads : u # t => hand'[u] = hand[u]
             /\ \E where \in {"terminate", "replace"} : pc' = [pc EXCEPT ![t] = where]
      BY <1>4 DEF Register, StopTraining, TerminateFails, Finalize, Serialise, Replace, WriteFails,
                  Return, Goto, Typed, TypeOK
    <2>3. /\ \A u \in Threads : u # t => pc'[u] = pc[u] /\ hand'[u] = hand[u]
          /\ pc'[t] \notin ServerCall
      BY <2>2, LeaveFacts DEF ServerCall, Typed, TypeOK
    <2>4. pc[t] \notin ServerCall
      BY <1>4 DEF Register, StopTraining, TerminateFails, Finalize, Serialise, Replace, WriteFails, ServerCall
    <2> QED
      BY <1>0, <2>1, <2>3, <2>4 DEF ServerQuiet, Runs
  <1>5. ASSUME NEW t \in Threads, Ask(t) \/ Block(t) \/ Report(t) \/ ReportFails(t) \/ Health(t)
        PROVE  ServerQuiet
    <2>1. UNCHANGED os /\ (server' = server \/ (server' = NoProcess /\ Ended(server)))
      BY <1>5 DEF Ask, Block, Report, ReportFails, Health, ForgetEndedServer, world
    <2>2. \/ Leave(t, "idle")
          \/ UNCHANGED hand /\ \E where \in {"status", "blocked", "health"} : pc' = [pc EXCEPT ![t] = where]
      BY <1>5 DEF Ask, Block, Report, ReportFails, Health, Return, Goto
    <2>3. /\ \A u \in Threads : u # t => pc'[u] = pc[u] /\ hand'[u] = hand[u]
          /\ pc'[t] \notin ServerCall
      BY <2>2, LeaveFacts DEF ServerCall, Typed, TypeOK
    <2>4. pc[t] \notin ServerCall
      BY <1>5 DEF Ask, Block, Report, ReportFails, Health, ServerCall
    <2> QED
      BY <1>0, <2>1, <2>3, <2>4 DEF ServerQuiet, Runs
  <1>6. CASE Restart \/ \E t \in Threads : EndServerFails(t)
    BY <1>6 DEF Restart, Die, EndServerFails
  <1>7. CASE UNCHANGED vars
    BY <1>0, <1>7 DEF vars, ServerQuiet, Runs
  <1> QED
    BY <1>1, <1>2, <1>3, <1>4, <1>5, <1>6, <1>7 DEF Next, Call, GoOn

LEMMA ServerStep == Typed /\ ServerInv /\ [Next]_vars => ServerInv'
  <1> SUFFICES ASSUME Typed, ServerInv, [Next]_vars, ("servers" \notin mixed)'
               PROVE  ServerInv'
    BY DEF ServerInv
  <1> USE ProcessFacts
  <1>0. "servers" \notin mixed /\ server \in Servers \cup {NoProcess}
    BY MixedGrows DEF Typed, TypeOK
  <1>1. CASE ServerQuiet
    BY <1>1, ServerQuietKeeps
  <1>2. ASSUME NEW t \in Threads, StartServer(t) PROVE ServerInv'
    <2>1. \A u \in Threads : pc[u] \notin ServerCall
      BY <1>2 DEF StartServer, Overlap
    <2>2. /\ server' = NoProcess /\ UNCHANGED <<os, hand>> /\ ~Runs(server)
          /\ pc' = [pc EXCEPT ![t] = "launch"]
      BY <1>2 DEF StartServer, Goto, world
    <2>3. \A p \in Servers : ~Runs(p)
      BY <1>0, <2>1, <2>2 DEF ServerInv, ServerCall
    <2> QED
      BY <2>1, <2>2, <2>3 DEF ServerInv, ServerCall, Runs, Typed, TypeOK
  <1>3. ASSUME NEW t \in Threads, Launch(t) PROVE ServerInv'
    <2>1. PICK p \in Servers : os' = [os EXCEPT ![p] = "runs"] /\ hand' = [hand EXCEPT ![t] = p]
      BY <1>3 DEF Launch, Popen
    <2>2. UNCHANGED server /\ pc[t] = "launch" /\ pc' = [pc EXCEPT ![t] = "install"]
      BY <1>3 DEF Launch, Goto
    <2>3. \A u \in Threads : u # t => pc[u] \notin ServerCall /\ pc'[u] = pc[u]
      BY <1>0, <2>2 DEF ServerInv, ServerCall, Typed, TypeOK
    <2>4. server = NoProcess /\ \A q \in Servers : ~Runs(q)
      BY <1>0, <2>2 DEF ServerInv
    <2>5. pc'[t] = "install" /\ hand'[t] = p /\ \A q \in Servers : Runs(q)' => q = p
      BY <2>1, <2>2, <2>4 DEF Runs, Typed, TypeOK
    <2> QED
      BY <2>2, <2>3, <2>4, <2>5 DEF ServerInv, ServerCall
  <1>4. ASSUME NEW t \in Threads, LaunchFails(t) PROVE ServerInv'
    <2>1. UNCHANGED <<server, os>> /\ pc[t] = "launch" /\ Leave(t, "idle")
      BY <1>4 DEF LaunchFails, Return, world
    <2>2. pc'[t] = "idle" /\ \A u \in Threads : u # t => pc'[u] = pc[u]
      BY <2>1, LeaveFacts
    <2>3. \A u \in Threads : pc'[u] \notin ServerCall
      BY <1>0, <2>1, <2>2 DEF ServerInv, ServerCall
    <2>4. \A q \in Servers : ~Runs(q)
      BY <1>0, <2>1 DEF ServerInv
    <2> QED
      BY <2>1, <2>3, <2>4 DEF ServerInv, ServerCall, Runs
  <1>5. ASSUME NEW t \in Threads, Install(t) PROVE ServerInv'
    <2>1. /\ UNCHANGED os /\ pc[t] = "install" /\ server' = hand[t]
          /\ \E where \in {"status", "idle"} : Leave(t, where)
      BY <1>5 DEF Install, WriteRuntime, Return, world
    <2>2. pc'[t] \in {"status", "idle"} /\ \A u \in Threads : u # t => pc'[u] = pc[u]
      BY <2>1, LeaveFacts
    <2>3. \A u \in Threads : pc'[u] \notin ServerCall /\ (pc[u] = "install" => u = t)
      BY <1>0, <2>1, <2>2 DEF ServerInv, ServerCall
    <2>4. server = NoProcess
      BY <1>0, <2>1 DEF ServerInv
    <2>5. \A q \in Servers : Runs(q) => q = hand[t]
      BY <1>0, <2>3, <2>4 DEF ServerInv
    <2> QED
      BY <2>1, <2>3, <2>5 DEF ServerInv, ServerCall, Runs
  <1>6. ASSUME NEW t \in Threads, StopServer(t) PROVE ServerInv'
    <2>1. \A u \in Threads : pc[u] \notin ServerCall
      BY <1>6 DEF StopServer, Overlap
    <2>2. UNCHANGED <<os, server>> /\ hand' = [hand EXCEPT ![t] = server]
      BY <1>6 DEF StopServer, world
    <2>3. /\ Runs(server) => pc' = [pc EXCEPT ![t] = "endserver"]
          /\ ~Runs(server) => pc' = [pc EXCEPT ![t] = "forget"]
      BY <1>6 DEF StopServer, Goto
    <2>4. \A u \in Threads : u # t => pc'[u] \notin ServerCall
      BY <2>1, <2>3 DEF Typed, TypeOK
    <2>5. /\ Runs(server) => pc'[t] = "endserver"
          /\ ~Runs(server) => pc'[t] = "forget"
          /\ hand'[t] = server
      BY <2>2, <2>3 DEF Typed, TypeOK
    <2>6. \A q \in Servers : Runs(q) => server = q
      BY <1>0, <2>1, <2>2 DEF ServerInv, ServerCall
    <2> QED
      BY <2>2, <2>4, <2>5, <2>6 DEF ServerInv, ServerCall, Runs
  <1>7. ASSUME NEW t \in Threads, Forget(t) PROVE ServerInv'
    <2>1. UNCHANGED os /\ pc[t] = "forget" /\ server' = NoProcess /\ Leave(t, "idle")
      BY <1>7 DEF Forget, Return, world
    <2>2. pc'[t] = "idle" /\ \A u \in Threads : u # t => pc'[u] = pc[u]
      BY <2>1, LeaveFacts
    <2>3. \A u \in Threads : pc'[u] \notin ServerCall /\ pc[u] # "install"
      BY <1>0, <2>1, <2>2 DEF ServerInv, ServerCall
    <2>4. ~Runs(server)
      BY <1>0, <2>1 DEF ServerInv
    <2>5. \A q \in Servers : ~Runs(q)
      BY <1>0, <2>3, <2>4 DEF ServerInv
    <2> QED
      BY <2>1, <2>3, <2>5 DEF ServerInv, ServerCall, Runs
  <1>8. ASSUME NEW t \in Threads, EndServer(t) PROVE ServerInv'
    <2>1. UNCHANGED <<server, hand>> /\ pc[t] = "endserver"
          /\ pc' = [pc EXCEPT ![t] = "clear"]
      BY <1>8 DEF EndServer, Goto
    <2>2. \A u \in Threads : u # t => pc[u] \notin ServerCall /\ pc'[u] = pc[u]
      BY <1>0, <2>1 DEF ServerInv, ServerCall, Typed, TypeOK
    <2>3. hand[t] \in Servers /\ pc'[t] = "clear" /\ server \in {hand[t], NoProcess}
      BY <1>0, <2>1 DEF ServerInv, HandTyped, Typed, TypeOK
    <2>4. ~Runs(hand[t])' /\ \A q \in Processes : Runs(q)' => Runs(q)
      BY <1>8, <2>1, <2>3 DEF EndServer, Kill, Runs, Typed, TypeOK
    <2>5. \A q \in Servers : ~Runs(q)'
      BY <1>0, <2>1, <2>2, <2>3, <2>4 DEF ServerInv, ServerCall
    <2> QED
      BY <2>1, <2>2, <2>3, <2>4, <2>5 DEF ServerInv, ServerCall
  <1>9. ASSUME NEW t \in Threads, Clear(t) PROVE ServerInv'
    <2>1. /\ UNCHANGED os /\ pc[t] = "clear" /\ server' = NoProcess
          /\ \E where \in {"status", "idle"} : Leave(t, where)
      BY <1>9 DEF Clear, WriteRuntime, Return, world
    <2>2. pc'[t] \in {"status", "idle"} /\ \A u \in Threads : u # t => pc'[u] = pc[u]
      BY <2>1, LeaveFacts
    <2>3. \A u \in Threads : pc'[u] \notin ServerCall /\ pc[u] # "install"
      BY <1>0, <2>1, <2>2 DEF ServerInv, ServerCall
    <2>4. server \in {hand[t], NoProcess} /\ ~Runs(hand[t])
      BY <1>0, <2>1 DEF ServerInv
    <2>5. \A q \in Servers : ~Runs(q)
      BY <1>0, <2>3, <2>4 DEF ServerInv
    <2> QED
      BY <2>1, <2>3, <2>5 DEF ServerInv, ServerCall, Runs
  <1> QED
    BY OthersLeaveTheServer, <1>1, <1>2, <1>3, <1>4, <1>5, <1>6, <1>7, <1>8, <1>9

\* Without overlapping calls, survived kills and restarts, the server that runs is the
\* one on record.
THEOREM ServerStaysKnown == Spec => []ServerIsKnown
  <1>1. Init => Typed /\ ServerInv
    <2>1. Init => ServerInv
      BY ProcessFacts DEF Init, ServerInv, ServerCall, Runs
    <2> QED
      BY <2>1, InitTyped
  <1>2. (Typed /\ ServerInv) /\ [Next]_vars => (Typed /\ ServerInv)'
    BY StepTyped, ServerStep
  <1>3. ServerInv => ServerIsKnown
    BY DEF ServerInv, ServerIsKnown
  <1> QED
    BY <1>1, <1>2, <1>3, PTL DEF Spec

-----------------------------------------------------------------------------
(* Calls return, or wait for a lock that is never released. *)

\* The lock is taken between two steps only by a thread that waits for it itself, and
\* this thread has found a training process that has ended.
BlockedInv ==
    /\ \A t \in Threads : pc[t] = "blocked" <=> lock = t
    /\ lock # NoThread => \E j \in JobIds : Ended(handle[j])

LEMMA BlockedInit == Init => BlockedInv
  BY ProcessesAssumption DEF Init, BlockedInv

\* What leaves the lock, the handles and the blocked threads alone.
LEMMA StillBlocked ==
    ASSUME Typed, BlockedInv, OsGrows, UNCHANGED <<lock, handle>>,
           \A t \in Threads : pc[t] = "blocked" <=> pc'[t] = "blocked"
    PROVE  BlockedInv'
  <1>1. ASSUME NEW j \in JobIds, Ended(handle[j]) PROVE Ended(handle[j])'
    BY <1>1 DEF Ended, OsGrows
  <1> QED
    BY <1>1 DEF BlockedInv

LEMMA SameOsGrows == UNCHANGED os => OsGrows
  BY DEF OsGrows, Runs

\* What is done with the lock in hand, or while nobody has it.
LEMMA StillFree ==
    ASSUME BlockedInv, lock' = NoThread,
           \A t \in Threads : pc[t] # "blocked" => pc'[t] # "blocked", Free
    PROVE  BlockedInv'
  BY ProcessesAssumption DEF BlockedInv, Free

LEMMA BlockedStep == Typed /\ BlockedInv /\ [Next]_vars => BlockedInv'
  <1> SUFFICES ASSUME Typed, BlockedInv, [Next]_vars PROVE BlockedInv'
    OBVIOUS
  <1> USE ProcessFacts
  <1>1. ASSUME NEW t \in Threads, StartTraining(t) \/ Launch(t) PROVE BlockedInv'
    <2>1. OsGrows
      BY <1>1, PopenGrows DEF StartTraining, Launch, Typed
    <2>2. UNCHANGED <<lock, handle>> /\ \A u \in Threads : pc[u] = "blocked" <=> pc'[u] = "blocked"
      BY <1>1 DEF StartTraining, Launch, Goto, records, Typed, TypeOK
    <2> QED
      BY <2>1, <2>2, StillBlocked
  <1>2. ASSUME NEW t \in Threads, Terminate(t) \/ EndServer(t) PROVE BlockedInv'
    <2>1. OsGrows
      BY <1>2, KillFacts DEF Terminate, EndServer, Typed
    <2>2. UNCHANGED <<lock, handle>> /\ \A u \in Threads : pc[u] = "blocked" <=> pc'[u] = "blocked"
      BY <1>2 DEF Terminate, EndServer, Goto, records, Typed, TypeOK
    <2> QED
      BY <2>1, <2>2, StillBlocked
  <1>3. ASSUME NEW t \in Threads,
               \/ StopTraining(t) \/ TerminateFails(t) \/ Serialise(t) \/ Replace(t) \/ WriteFails(t)
               \/ Ask(t) \/ Report(t) \/ ReportFails(t) \/ Health(t) \/ StartServer(t) \/ LaunchFails(t)
               \/ Install(t) \/ StopServer(t) \/ Forget(t) \/ EndServerFails(t) \/ Clear(t)
        PROVE  BlockedInv'
    <2>1. UNCHANGED <<lock, handle, os>>
      BY <1>3 DEF StopTraining, TerminateFails, Serialise, Replace, WriteFails, Ask, Report, ReportFails,
                  Health, StartServer, LaunchFails, Install, StopServer, Forget, EndServerFails, Clear,
                  records, world
    <2>2. \/ \E where \in {"idle", "status"} : Leave(t, where)
          \/ \E where \in {"terminate", "replace", "status", "health"} \cup ServerCall :
                pc' = [pc EXCEPT ![t] = where]
      BY <1>3 DEF StopTraining, TerminateFails, Serialise, Replace, WriteFails, Ask, Report, ReportFails,
                  Health, StartServer, LaunchFails, Install, StopServer, Forget, EndServerFails, Clear,
                  WriteRuntime, Return, Goto, ServerCall
    <2>3. pc[t] # "blocked"
      BY <1>3 DEF StopTraining, TerminateFails, Serialise, Replace, WriteFails, Ask, Report, ReportFails,
                  Health, StartServer, LaunchFails, Install, StopServer, Forget, EndServerFails, Clear
    <2>4. \A u \in Threads : pc[u] = "blocked" <=> pc'[u] = "blocked"
      BY <2>2, <2>3, LeaveFacts DEF ServerCall, Typed, TypeOK
    <2> QED
      BY <2>1, <2>4, SameOsGrows, StillBlocked
  <1>4. ASSUME NEW t \in Threads, Register(t) \/ Finalize(t) PROVE BlockedInv'
    <2>1. /\ Free /\ lock' = NoThread /\ Leave(t, "persist")
      BY <1>4 DEF Register, Finalize, Free
    <2>2. \A u \in Threads : pc[u] # "blocked" => pc'[u] # "blocked"
      BY <2>1, LeaveFacts
    <2> QED
      BY <2>1, <2>2, StillFree
  <1>5. ASSUME NEW t \in Threads, Block(t) PROVE BlockedInv'
    <2>1. \A u \in Threads : pc[u] # "blocked"
      BY <1>5, ProcessesAssumption DEF Block, Free, BlockedInv
    <2>2. pc' = [pc EXCEPT ![t] = "blocked"] /\ lock' = t /\ UNCHANGED <<handle, os>>
      BY <1>5 DEF Block, Goto, records, world
    <2>3. \E j \in JobIds : Ended(handle[j])'
      BY <1>5, <2>2 DEF Block, Ended
    <2> QED
      BY <2>1, <2>2, <2>3 DEF BlockedInv, Typed, TypeOK
  <1>6. CASE ProcessEnds
    <2>1. OsGrows
      BY <1>6, KillFacts DEF ProcessEnds, Typed
    <2> QED
      BY <1>6, <2>1, StillBlocked DEF ProcessEnds, thread, records
  <1>7. CASE Restart
    BY <1>7, ProcessesAssumption DEF Restart, Die, BlockedInv
  <1>8. CASE UNCHANGED vars
    BY <1>8, SameOsGrows, StillBlocked DEF vars, thread, records, world
  <1> QED
    BY <1>1, <1>2, <1>3, <1>4, <1>5, <1>6, <1>7, <1>8 DEF Next, Call, GoOn

\* A thread owns the lock from one step to the next only if it waits for the lock
\* itself, with a training process that has ended still in the table: nothing else
\* makes other calls wait for ever.
THEOREM OnlyEndedTrainingBlocks ==
    Spec => [](lock # NoThread => pc[lock] = "blocked" /\ \E j \in JobIds : Ended(handle[j]))
  <1>1. Typed /\ BlockedInv
          => (lock # NoThread => pc[lock] = "blocked" /\ \E j \in JobIds : Ended(handle[j]))
    BY DEF Typed, TypeOK, BlockedInv
  <1> QED
    BY <1>1, InitTyped, StepTyped, BlockedInit, BlockedStep, PTL DEF Spec

\* The steps that a call has still to make, at most.
Remaining ==
    [idle |-> 0, blocked |-> 0,
     register |-> 3, persist |-> 2, replace |-> 1, terminate |-> 4, finalize |-> 3,
     status |-> 2, health |-> 1,
     launch |-> 4, install |-> 3, endserver |-> 4, clear |-> 3, forget |-> 1]

\* A call makes at most four steps after its first one, each of which brings it closer
\* to its end, and it is not delayed by what others do but for the lock.
THEOREM CallsEndSoon ==
    Spec => /\ [](\A t \in Threads : Remaining[pc[t]] \in 0..4)
            /\ [][\A t \in Threads :
                    /\ GoOn(t) => Remaining[pc'[t]] < Remaining[pc[t]]
                    /\ ~Call(t) => Remaining[pc'[t]] <= Remaining[pc[t]]]_vars
  <1>1. Typed => \A t \in Threads : Remaining[pc[t]] \in 0..4
    BY DEF Typed, TypeOK, ServerCall, Remaining
  <1>2. ASSUME Typed, NEW t \in Threads, GoOn(t)
        PROVE  /\ Remaining[pc'[t]] < Remaining[pc[t]]
               /\ \A u \in Threads \ {t} : pc'[u] = pc[u]
    <2> USE DEF GoOn, Register, Terminate, TerminateFails, Finalize, Serialise, Replace, WriteFails,
                Block, Report, ReportFails, Health, Launch, LaunchFails, Install, Forget, EndServer,
                EndServerFails, Clear, WriteRuntime, Return, Leave, Goto
    <2>1. \/ pc[t] = "register" /\ pc'[t] = "persist"
          \/ pc[t] = "terminate" /\ pc'[t] \in {"finalize", "idle"}
          \/ pc[t] = "finalize" /\ pc'[t] = "persist"
          \/ pc[t] = "persist" /\ pc'[t] \in {"replace", "idle"}
          \/ pc[t] = "status" /\ pc'[t] \in {"blocked", "health", "idle"}
          \/ pc[t] = "launch" /\ pc'[t] \in {"install", "idle"}
          \/ pc[t] = "endserver" /\ pc'[t] = "clear"
          \/ pc[t] \in {"install", "clear"} /\ pc'[t] \in {"status", "idle"}
          \/ pc[t] \in {"replace", "health", "forget"} /\ pc'[t] = "idle"
      BY <1>2 DEF Typed, TypeOK
    <2>2. \A u \in Threads \ {t} : pc'[u] = pc[u]
      BY <1>2 DEF Typed, TypeOK
    <2> QED
      BY <2>1, <2>2 DEF Remaining
  <1>3. ASSUME Typed, Typed', [Next]_vars, NEW t \in Threads, ~Call(t)
        PROVE  Remaining[pc'[t]] <= Remaining[pc[t]]
    <2>1. Remaining[pc[t]] \in 0..4 /\ Remaining[pc'[t]] \in 0..4 /\ Remaining["idle"] = 0
      BY <1>3 DEF Typed, TypeOK, ServerCall, Remaining
    <2>2. CASE GoOn(t)
      BY <1>2, <1>3, <2>1, <2>2
    <2>3. CASE \E u \in Threads \ {t} : GoOn(u)
      BY <1>2, <1>3, <2>1, <2>3
    <2>4. ASSUME NEW u \in Threads \ {t}, Call(u) PROVE pc'[t] = pc[t]
      BY <1>3, <2>4 DEF Call, StartTraining, StopTraining, Ask, StartServer, StopServer, Goto, Typed, TypeOK
    <2>5. CASE Restart
      BY <2>1, <2>5 DEF Restart, Die
    <2>6. CASE ProcessEnds \/ UNCHANGED vars
      BY <2>1, <2>6 DEF ProcessEnds, thread, vars
    <2> QED
      BY <1>3, <2>1, <2>2, <2>3, <2>4, <2>5, <2>6 DEF Next
  <1>4. Typed /\ Typed' /\ [Next]_vars
          => [\A t \in Threads :
                 /\ GoOn(t) => Remaining[pc'[t]] < Remaining[pc[t]]
                 /\ ~Call(t) => Remaining[pc'[t]] <= Remaining[pc[t]]]_vars
    BY <1>2, <1>3
  <1> QED
    BY <1>1, <1>4, TypedAlways, PTL DEF Spec
=============================================================================
