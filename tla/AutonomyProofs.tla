--------------------------- MODULE AutonomyProofs ---------------------------
(***************************************************************************)
(* What the scheduler keeps true without a lock, for any number of jobs,   *)
(* loops and API threads, until the event that excuses it.                 *)
(***************************************************************************)
EXTENDS Autonomy, TLAPS

-----------------------------------------------------------------------------
(* Types.  A thread that runs a job has one, and only controllers start and stop. *)

Roles ==
    /\ \A w \in Loops : pc[w] \in {"dead", "top", "scan", "handler", "stamp", "save"}
    /\ \A c \in Callers : pc[c] \in {"idle", "start", "join", "handler", "stamp", "save"}

JobInHand == \A t \in Threads : pc[t] \in {"handler", "stamp", "save"} => job[t] \in JobNames

Looked == \A w \in Loops : pc[w] \in {"scan", "handler", "stamp", "save"} => index[w] > 0

Typed == TypeOK /\ Roles /\ JobInHand /\ Looked

LEMMA OrderFacts ==
    /\ Len(Order) \in Nat
    /\ \A i \in 1..Len(Order) : Order[i] \in JobNames
  BY JobsAssumption DEF JobNames

LEMMA AgeFacts ==
    /\ Never \in Ages /\ 0 \in Ages /\ AgeCap \in Nat
    /\ \A a \in Ages : Older(a) \in Ages
  BY BoundsAssumption DEF Ages, Never, Older

LEMMA PayloadFacts ==
    /\ NoPayload \in Payloads
    /\ TypeOK => Payload \in Payloads
  BY AgeFacts DEF NoPayload, Payload, Payloads, TypeOK

LEMMA InitTyped == Init => Typed
  <1> SUFFICES ASSUME Init PROVE Typed
    OBVIOUS
  <1> USE ThreadsAssumption, BoundsAssumption, OrderFacts, AgeFacts, PayloadFacts DEF Threads
  <1>1. /\ age \in [JobNames -> Ages] /\ status \in [JobNames -> {"never", "ok", "error"}]
        /\ file \in Payloads /\ running \in BOOLEAN /\ thread \in Loops \cup {None}
    BY DEF Init
  <1>2. /\ pc \in [Threads -> {"dead", "top", "scan", "handler", "stamp", "save",
                               "idle", "start", "join"}]
        /\ index \in [Loops -> 0..Len(Order) + 1] /\ lag \in [Loops -> 0..MaxLag]
    BY DEF Init
  <1>3. /\ job \in [Threads -> JobNames \cup {None}] /\ held \in [Threads -> Payloads]
        /\ joining \in [Controllers -> Loops \cup {None}] /\ happened \subseteq EventKinds
    BY DEF Init
  <1>4. Roles /\ JobInHand /\ Looked
    BY DEF Init, Roles, JobInHand, Looked
  <1> QED
    BY <1>1, <1>2, <1>3, <1>4 DEF Typed, TypeOK

\* An event that happens is of a known kind, and is remembered.
LEMMA HappensFacts ==
    ASSUME NEW kind \in EventKinds, Happens(kind), happened \subseteq EventKinds
    PROVE  happened' \subseteq EventKinds /\ happened \subseteq happened' /\ kind \in happened'
  BY DEF Happens

LEMMA StepTyped == Typed /\ [Next]_vars => Typed'
  <1> SUFFICES ASSUME Typed, [Next]_vars PROVE Typed'
    OBVIOUS
  <1> USE ThreadsAssumption, BoundsAssumption, OrderFacts, AgeFacts, PayloadFacts
      DEF Threads, Typed, TypeOK, jobVars, loopVars
  <1>k. \A k \in {"overlap", "timeout", "crash", "save", "hand"} : k \in EventKinds
    BY DEF EventKinds
  <1>1. ASSUME NEW c \in Controllers, StartCheck(c) \/ StopRequest(c) PROVE Typed'
    <2>1. happened' \subseteq EventKinds
      BY <1>1, <1>k, HappensFacts DEF StartCheck, StopRequest, Calls
    <2>2. CASE StartCheck(c)
      BY <2>1, <2>2 DEF StartCheck, Calls, Roles, JobInHand, Looked
    <2>3. CASE StopRequest(c)
      <3>1. /\ running' = FALSE /\ joining' = [joining EXCEPT ![c] = thread]
            /\ pc[c] = "idle" /\ pc' = [pc EXCEPT ![c] = "join"]
            /\ UNCHANGED <<jobVars, thread, loopVars, job, held>>
        BY <2>3 DEF StopRequest, Calls
      <3>2. TypeOK'
        BY <2>1, <3>1
      <3> QED
        BY <3>1, <3>2 DEF Roles, JobInHand, Looked
    <2> QED
      BY <1>1, <2>2, <2>3
  <1>2. ASSUME NEW c \in Controllers, Start(c) PROVE Typed'
    <2>1. PICK w \in Loops : thread' = w /\ pc' = [pc EXCEPT ![c] = "idle", ![w] = "top"]
      BY <1>2 DEF Start
    <2>2. UNCHANGED <<jobVars, loopVars, job, held, joining, happened>> /\ running' = TRUE
      BY <1>2 DEF Start
    <2> QED
      BY <2>1, <2>2 DEF Roles, JobInHand, Looked
  <1>3. ASSUME NEW c \in Controllers, StopReturn(c) PROVE Typed'
    <2>1. happened' \subseteq EventKinds
      BY <1>3, <1>k, HappensFacts DEF StopReturn
    <2> QED
      BY <1>3, <2>1 DEF StopReturn, Roles, JobInHand, Looked
  <1>4. ASSUME NEW w \in Loops, Exit(w) PROVE Typed'
    BY <1>4 DEF Exit, Roles, JobInHand, Looked
  <1>5. ASSUME NEW w \in Loops, Round(w) PROVE Typed'
    BY <1>5 DEF Round, Roles, JobInHand, Looked
  <1>6. ASSUME NEW w \in Loops, Consider(w) PROVE Typed'
    <2>1. index[w] \in 1..Len(Order) /\ pc[w] = "scan"
      BY <1>6 DEF Consider, Looked
    <2>2. Order[index[w]] \in JobNames
      BY <2>1
    <2>3. index' = [index EXCEPT ![w] = index[w] + 1]
          /\ UNCHANGED <<jobVars, running, thread, lag, held, joining, happened>>
      BY <1>6 DEF Consider
    <2>4. \/ pc' = [pc EXCEPT ![w] = "handler"] /\ job' = [job EXCEPT ![w] = Order[index[w]]]
          \/ UNCHANGED <<pc, job>>
      BY <1>6 DEF Consider
    <2>5. index' \in [Loops -> 0..Len(Order) + 1] /\ index'[w] > 0
          /\ \A v \in Loops : v # w => index'[v] = index[v]
      BY <2>1, <2>3
    <2>6. TypeOK'
      BY <2>2, <2>3, <2>4, <2>5
    <2>7. Roles' /\ JobInHand'
      BY <2>2, <2>4 DEF Roles, JobInHand
    <2>8. Looked'
      BY <2>4, <2>5 DEF Looked
    <2> QED
      BY <2>6, <2>7, <2>8
  <1>7. ASSUME NEW w \in Loops, Sleep(w) PROVE Typed'
    BY <1>7 DEF Sleep, EndRound, Roles, JobInHand, Looked
  <1>8. ASSUME NEW c \in Runners, RunJob(c) PROVE Typed'
    <2>1. happened' \subseteq EventKinds
      BY <1>8, <1>k, HappensFacts DEF RunJob
    <2>2. PICK j \in JobNames : job' = [job EXCEPT ![c] = j]
      BY <1>8 DEF RunJob
    <2> QED
      BY <1>8, <2>1, <2>2 DEF RunJob, Roles, JobInHand, Looked
  <1>9. ASSUME NEW t \in Threads, HandlerDone(t) PROVE Typed'
    <2>1. job[t] \in JobNames
      BY <1>9 DEF HandlerDone, JobInHand
    <2>2. PICK s \in {"ok", "error"} : status' = [status EXCEPT ![job[t]] = s]
      BY <1>9 DEF HandlerDone
    <2> QED
      BY <1>9, <2>1, <2>2 DEF HandlerDone, Roles, JobInHand, Looked
  <1>10. ASSUME NEW t \in Threads, Stamp(t) PROVE Typed'
    <2>1. job[t] \in JobNames
      BY <1>10 DEF Stamp, JobInHand
    <2>2. [Payload EXCEPT ![job[t]] = <<0, status[job[t]]>>] \in Payloads
      BY <2>1 DEF Payloads
    <2>3. age' \in [JobNames -> Ages] /\ held' \in [Threads -> Payloads]
      BY <1>10, <2>1, <2>2 DEF Stamp
    <2>4. UNCHANGED <<status, file, running, thread, loopVars, job, joining, happened>>
          /\ pc[t] = "stamp" /\ pc' = [pc EXCEPT ![t] = "save"]
      BY <1>10 DEF Stamp
    <2> QED
      BY <2>1, <2>3, <2>4 DEF Roles, JobInHand, Looked
  <1>11. ASSUME NEW t \in Threads, Save(t) PROVE Typed'
    <2>1. /\ held[t] \in Payloads /\ pc[t] = "save" /\ file' = held[t]
          /\ job' = [job EXCEPT ![t] = None] /\ held' = [held EXCEPT ![t] = NoPayload]
          /\ UNCHANGED <<age, status, running, thread, loopVars, joining, happened>>
      BY <1>11 DEF Save, Finish
    <2>2. pc' = [pc EXCEPT ![t] = IF t \in Loops THEN "scan" ELSE "idle"]
      BY <1>11 DEF Save, Finish
    <2>3. TypeOK'
      BY <2>1, <2>2
    <2>4. Roles' /\ JobInHand' /\ Looked'
      BY <2>1, <2>2 DEF Roles, JobInHand, Looked
    <2> QED
      BY <2>3, <2>4
  <1>12. ASSUME NEW t \in Threads, SaveError(t) PROVE Typed'
    <2>1. happened' \subseteq EventKinds
      BY <1>12, <1>k, HappensFacts DEF SaveError
    <2>2. /\ pc[t] = "save" /\ UNCHANGED <<jobVars, running, thread, joining>>
          /\ job' = [job EXCEPT ![t] = None] /\ held' = [held EXCEPT ![t] = NoPayload]
      BY <1>12 DEF SaveError, Finish
    <2>3. pc' = [pc EXCEPT ![t] = IF t \in Loops THEN "dead" ELSE "idle"]
      BY <1>12 DEF SaveError, Finish
    <2>4. /\ index' \in [Loops -> 0..Len(Order) + 1] /\ lag' \in [Loops -> 0..MaxLag]
          /\ \A w \in Loops : w # t => index'[w] = index[w]
      <3>1. CASE t \in Loops
        <4>1. index' = [index EXCEPT ![t] = 0] /\ lag' = [lag EXCEPT ![t] = 0]
          BY <1>12, <3>1 DEF SaveError, EndRound
        <4> QED
          BY <3>1, <4>1
      <3>2. CASE t \notin Loops
        BY <1>12, <3>2 DEF SaveError
      <3> QED
        BY <3>1, <3>2
    <2>5. TypeOK'
      BY <2>1, <2>2, <2>3, <2>4
    <2>6. Roles' /\ JobInHand' /\ Looked'
      BY <2>2, <2>3, <2>4 DEF Roles, JobInHand, Looked
    <2> QED
      BY <2>5, <2>6
  <1>13. CASE Crash
    <2>1. happened' \subseteq EventKinds
      BY <1>13, <1>k, HappensFacts DEF Crash
    <2>2. \A j \in JobNames : file[j][1] \in Ages /\ file[j][2] \in {"never", "ok", "error"}
      BY DEF Payloads
    <2>3. age' \in [JobNames -> Ages] /\ status' \in [JobNames -> {"never", "ok", "error"}]
      BY <1>13, <2>2 DEF Crash
    <2>4. /\ running' = FALSE /\ thread' = None /\ file' = file
          /\ pc' = [t \in Threads |-> IF t \in Loops THEN "dead" ELSE "idle"]
          /\ index' = [w \in Loops |-> 0] /\ lag' = [w \in Loops |-> 0]
          /\ job' = [t \in Threads |-> None] /\ held' = [t \in Threads |-> NoPayload]
          /\ joining' = [c \in Controllers |-> None]
      BY <1>13 DEF Crash
    <2>5. TypeOK'
      <3>1. running' \in BOOLEAN /\ thread' \in Loops \cup {None} /\ file' \in Payloads
        BY <2>4
      <3>2. /\ pc' \in [Threads -> {"dead", "top", "scan", "handler", "stamp", "save",
                                    "idle", "start", "join"}]
            /\ index' \in [Loops -> 0..Len(Order) + 1] /\ lag' \in [Loops -> 0..MaxLag]
        BY <2>4
      <3>3. /\ job' \in [Threads -> JobNames \cup {None}] /\ held' \in [Threads -> Payloads]
            /\ joining' \in [Controllers -> Loops \cup {None}]
        BY <2>4
      <3> QED
        BY <2>1, <2>3, <3>1, <3>2, <3>3
    <2>6. Roles' /\ JobInHand' /\ Looked'
      BY <2>4 DEF Roles, JobInHand, Looked
    <2> QED
      BY <2>5, <2>6
  <1>14. CASE Tick
    <2>1. \A j \in JobNames : file[j][1] \in Ages /\ file[j][2] \in {"never", "ok", "error"}
      BY DEF Payloads
    <2>2. age' \in [JobNames -> Ages]
      BY <1>14 DEF Tick
    <2>3. file' \in Payloads
      BY <1>14, <2>1 DEF Tick, Payloads
    <2>4. lag' \in [Loops -> 0..MaxLag]
      BY <1>14 DEF Tick
    <2>5. UNCHANGED <<status, running, thread, pc, index, job, held, joining, happened>>
      BY <1>14 DEF Tick
    <2> QED
      BY <2>2, <2>3, <2>4, <2>5 DEF Roles, JobInHand, Looked
  <1>15. CASE UNCHANGED vars
    BY <1>15 DEF vars, Roles, JobInHand, Looked
  <1> QED
    BY <1>1, <1>2, <1>3, <1>4, <1>5, <1>6, <1>7, <1>8, <1>9, <1>10, <1>11, <1>12, <1>13,
       <1>14, <1>15 DEF Next

LEMMA TypedAlways == Spec => []Typed
  BY InitTyped, StepTyped, PTL DEF Spec

\* Jobs, file, scheduler and threads are well typed.
THEOREM TypeCorrect == Spec => []TypeOK
  <1>1. Typed => TypeOK
    BY DEF Typed
  <1> QED
    BY <1>1, TypedAlways, PTL

-----------------------------------------------------------------------------
(* A scheduler that says it is running has a loop, until a save fails. *)

Alive(w) == pc[w] # "dead"

\* What has happened stays so.
LEMMA EventsStay == [Next]_vars => happened \subseteq happened'
  BY DEF Next, vars, StartCheck, Start, StopRequest, StopReturn, Calls, Exit, Round, Consider,
         Sleep, RunJob, HandlerDone, Stamp, Save, SaveError, Crash, Tick, Happens

LEMMA LoopStep == Typed /\ RunningHasLoop /\ [Next]_vars => RunningHasLoop'
  <1> SUFFICES ASSUME Typed, RunningHasLoop, [Next]_vars, "save" \notin happened', running'
               PROVE  \E w \in Loops : pc'[w] # "dead"
    BY DEF RunningHasLoop
  <1> USE ThreadsAssumption DEF Threads, Typed, TypeOK, Roles
  <1>0. running => \E w \in Loops : pc[w] # "dead"
    BY EventsStay DEF RunningHasLoop
  <1>1. ASSUME running, \A w \in Loops : pc[w] # "dead" => pc'[w] # "dead"
        PROVE  \E w \in Loops : pc'[w] # "dead"
    BY <1>0, <1>1
  <1>2. ASSUME NEW c \in Controllers, StartCheck(c) \/ StopRequest(c) \/ StopReturn(c)
        PROVE  \E w \in Loops : pc'[w] # "dead"
    <2>1. running
      BY <1>2 DEF StartCheck, StopRequest, StopReturn
    <2>2. \A w \in Loops : pc'[w] = pc[w]
      BY <1>2 DEF StartCheck, StopRequest, StopReturn
    <2> QED
      BY <1>1, <2>1, <2>2
  <1>3. ASSUME NEW c \in Controllers, Start(c) PROVE \E w \in Loops : pc'[w] # "dead"
    <2>1. PICK w \in Loops : pc' = [pc EXCEPT ![c] = "idle", ![w] = "top"]
      BY <1>3 DEF Start
    <2> QED
      BY <2>1
  <1>4. ASSUME NEW v \in Loops, Exit(v) PROVE FALSE
    BY <1>4 DEF Exit
  <1>5. ASSUME NEW v \in Loops, Round(v) \/ Consider(v) \/ Sleep(v)
        PROVE  \E w \in Loops : pc'[w] # "dead"
    <2>1. running' = running /\ \A w \in Loops : pc[w] # "dead" => pc'[w] # "dead"
      BY <1>5 DEF Round, Consider, Sleep
    <2> QED
      BY <1>1, <2>1
  <1>6. ASSUME NEW c \in Runners, RunJob(c) PROVE \E w \in Loops : pc'[w] # "dead"
    <2>1. running' = running /\ \A w \in Loops : pc[w] # "dead" => pc'[w] # "dead"
      BY <1>6 DEF RunJob
    <2> QED
      BY <1>1, <2>1
  <1>7. ASSUME NEW t \in Threads, HandlerDone(t) \/ Stamp(t) \/ Save(t)
        PROVE  \E w \in Loops : pc'[w] # "dead"
    <2>1. running' = running /\ \A w \in Loops : pc[w] # "dead" => pc'[w] # "dead"
      BY <1>7 DEF HandlerDone, Stamp, Save, Finish
    <2> QED
      BY <1>1, <2>1
  <1>8. ASSUME NEW t \in Threads, SaveError(t) PROVE FALSE
    BY <1>8 DEF SaveError, Happens
  <1>9. CASE Crash
    BY <1>9 DEF Crash
  <1>10. CASE Tick
    BY <1>1, <1>10 DEF Tick
  <1>11. CASE UNCHANGED vars
    BY <1>1, <1>11 DEF vars
  <1> QED
    BY <1>2, <1>3, <1>4, <1>5, <1>6, <1>7, <1>8, <1>9, <1>10, <1>11 DEF Next

\* Whatever is started, stopped and run by hand at once: only a failing save makes
\* _running say what is not so.
THEOREM RunningMeansLooping == Spec => []RunningHasLoop
  <1>1. Init => RunningHasLoop
    BY DEF Init, RunningHasLoop
  <1> QED
    BY <1>1, LoopStep, TypedAlways, PTL DEF Spec

-----------------------------------------------------------------------------
(***************************************************************************)
(* One loop, as long as calls of start() and stop() do not overlap and no  *)
(* join gives up.  The loop that is alive is the one _thread refers to; it *)
(* outlives _running only while a stop() waits for it.                     *)
(***************************************************************************)
OneCalls ==
    \A c, d \in Controllers : pc[c] \in {"start", "join"} /\ pc[d] \in {"start", "join"} => c = d

Referred == \A w \in Loops : Alive(w) => thread = w

Stopping ==
    \A c \in Controllers :
        /\ pc[c] = "start" => ~running
        /\ pc[c] = "join" => joining[c] = thread /\ ~running

Winding == (~running /\ \E w \in Loops : Alive(w)) => \E c \in Controllers : pc[c] = "join"

Single ==
    happened \cap {"timeout", "overlap"} = {} => OneCalls /\ Referred /\ Stopping /\ Winding

LEMMA SingleStep == Typed /\ Single /\ [Next]_vars => Single'
  <1> DEFINE I == OneCalls /\ Referred /\ Stopping /\ Winding
  <1> SUFFICES ASSUME Typed, Single, [Next]_vars, happened' \cap {"timeout", "overlap"} = {}
               PROVE  I'
    BY DEF Single
  <1> USE ThreadsAssumption DEF Threads, Typed, TypeOK, Roles, Alive
  <1>0. /\ OneCalls /\ Referred /\ Stopping /\ Winding
        /\ "timeout" \notin happened' /\ "overlap" \notin happened'
    BY EventsStay DEF Single
  <1>1. ASSUME UNCHANGED <<running, thread, joining>>,
               \A w \in Loops : pc[w] = "dead" => pc'[w] = "dead",
               \A c \in Controllers : /\ pc'[c] = "join" <=> pc[c] = "join"
                                      /\ pc'[c] = "start" <=> pc[c] = "start"
        PROVE  I'
    BY <1>0, <1>1 DEF OneCalls, Referred, Stopping, Winding
  \* Whoever starts or stops is the only one to do so.
  <1>c. ASSUME NEW c \in Controllers, Calls(c)
        PROVE  pc[c] = "idle" /\ \A d \in Controllers : pc[d] \notin {"start", "join"}
    BY <1>0, <1>c DEF Calls, Happens
  <1>2. ASSUME NEW c \in Controllers, StartCheck(c) PROVE I'
    <2>1. /\ Calls(c) /\ ~running /\ pc' = [pc EXCEPT ![c] = "start"]
          /\ UNCHANGED <<running, thread, joining>>
      BY <1>2 DEF StartCheck
    <2>2. \A d \in Controllers : pc[d] \notin {"start", "join"}
      BY <1>c, <2>1
    <2>3. \A w \in Loops : pc[w] = "dead" /\ pc'[w] = "dead"
      BY <1>0, <2>1, <2>2 DEF Winding
    <2> QED
      BY <2>1, <2>2, <2>3 DEF OneCalls, Referred, Stopping, Winding
  <1>3. ASSUME NEW c \in Controllers, Start(c) PROVE I'
    <2>1. PICK w \in Loops : pc' = [pc EXCEPT ![c] = "idle", ![w] = "top"] /\ thread' = w
      BY <1>3 DEF Start
    <2>2. pc[c] = "start" /\ running' = TRUE /\ joining' = joining
      BY <1>3 DEF Start
    <2>3. ~running /\ \A d \in Controllers : pc[d] \in {"start", "join"} => d = c
      BY <1>0, <2>2 DEF Stopping, OneCalls
    <2>4. \A v \in Loops : pc[v] = "dead"
      BY <1>0, <2>2, <2>3 DEF Winding
    <2>5. \A d \in Controllers : pc'[d] \notin {"start", "join"}
      BY <2>1, <2>3
    <2>6. \A v \in Loops : v # w => pc'[v] = "dead"
      BY <2>1, <2>4
    <2> QED
      BY <2>1, <2>2, <2>5, <2>6 DEF OneCalls, Referred, Stopping, Winding
  <1>4. ASSUME NEW c \in Controllers, StopRequest(c) PROVE I'
    <2>1. /\ Calls(c) /\ running' = FALSE /\ pc' = [pc EXCEPT ![c] = "join"]
          /\ joining' = [joining EXCEPT ![c] = thread] /\ thread' = thread
      BY <1>4 DEF StopRequest
    <2>2. \A d \in Controllers : pc[d] \notin {"start", "join"}
      BY <1>c, <2>1
    <2>3. \A d \in Controllers : pc'[d] \in {"start", "join"} => d = c
      BY <2>1, <2>2
    <2>4. pc'[c] = "join" /\ joining'[c] = thread
      BY <2>1
    <2>5. \A w \in Loops : pc'[w] = pc[w]
      BY <2>1
    <2> QED
      BY <1>0, <2>1, <2>3, <2>4, <2>5 DEF OneCalls, Referred, Stopping, Winding
  <1>5. ASSUME NEW c \in Controllers, StopReturn(c) PROVE I'
    <2>1. /\ pc[c] = "join" /\ thread' = None /\ joining' = [joining EXCEPT ![c] = None]
          /\ pc' = [pc EXCEPT ![c] = "idle"] /\ running' = running
      BY <1>5 DEF StopReturn
    <2>2. joining[c] = None \/ pc[joining[c]] = "dead"
      BY <1>0, <1>5 DEF StopReturn, Happens
    <2>3. joining[c] = thread /\ ~running /\ \A d \in Controllers : pc[d] \in {"start", "join"} => d = c
      BY <1>0, <2>1 DEF Stopping, OneCalls
    <2>4. \A w \in Loops : pc[w] = "dead" /\ pc'[w] = "dead"
      BY <1>0, <2>1, <2>2, <2>3 DEF Referred
    <2>5. \A d \in Controllers : pc'[d] \notin {"start", "join"}
      BY <2>1, <2>3
    <2> QED
      BY <2>4, <2>5 DEF OneCalls, Referred, Stopping, Winding
  <1>6. ASSUME NEW w \in Loops, Exit(w) \/ Round(w) \/ Consider(w) \/ Sleep(w) PROVE I'
    <2>1. /\ UNCHANGED <<running, thread, joining>> /\ pc[w] # "dead"
          /\ \A t \in Threads : t # w => pc'[t] = pc[t]
      BY <1>6 DEF Exit, Round, Consider, Sleep
    <2> QED
      BY <1>1, <2>1
  <1>7. ASSUME NEW c \in Runners, RunJob(c) PROVE I'
    <2>1. /\ UNCHANGED <<running, thread, joining>> /\ pc[c] = "idle"
          /\ pc' = [pc EXCEPT ![c] = "handler"]
      BY <1>7 DEF RunJob
    <2> QED
      BY <1>1, <2>1
  <1>8. ASSUME NEW t \in Threads, HandlerDone(t) \/ Stamp(t) \/ Save(t) \/ SaveError(t) PROVE I'
    <2>1. /\ UNCHANGED <<running, thread, joining>> /\ pc[t] \in {"handler", "stamp", "save"}
          /\ \A u \in Threads : u # t => pc'[u] = pc[u]
          /\ pc'[t] \notin {"start", "join"}
      BY <1>8 DEF HandlerDone, Stamp, Save, SaveError, Finish
    <2> QED
      BY <1>1, <2>1
  <1>9. CASE Crash
    <2>1. \A w \in Loops : pc'[w] = "dead"
      BY <1>9 DEF Crash
    <2>2. \A c \in Controllers : pc'[c] = "idle"
      BY <1>9 DEF Crash
    <2> QED
      BY <2>1, <2>2 DEF OneCalls, Referred, Stopping, Winding
  <1>10. CASE Tick
    BY <1>1, <1>10 DEF Tick
  <1>11. CASE UNCHANGED vars
    BY <1>1, <1>11 DEF vars
  <1> QED
    BY <1>2, <1>3, <1>4, <1>5, <1>6, <1>7, <1>8, <1>9, <1>10, <1>11 DEF Next

LEMMA InitSingle == Init => Single
  BY ThreadsAssumption
  DEF Init, Single, OneCalls, Referred, Stopping, Winding, Alive, Threads

\* Calls of start() and stop() one after the other make no second loop, with crashes,
\* failing saves and jobs run by hand at any time.
THEOREM LoopIsSingle == Spec => []OneLoop
  <1>1. Single => OneLoop
    BY DEF Single, Referred, OneLoop, Alive
  <1> QED
    BY <1>1, InitSingle, SingleStep, TypedAlways, PTL DEF Spec

-----------------------------------------------------------------------------
(***************************************************************************)
(* The file follows memory, as long as only the loop runs jobs.  What it   *)
(* is about to save is then what memory holds, for nobody else changes it  *)
(* meanwhile.                                                              *)
(***************************************************************************)
Disturbed == happened \cap {"save", "hand", "timeout", "overlap"} # {}

CallersRunNothing == \A c \in Callers : pc[c] \notin {"handler", "stamp", "save"}

HeldIsCurrent == \A w \in Loops : pc[w] = "save" => held[w] = Payload

FileIsCurrent == (\A w \in Loops : pc[w] \notin {"stamp", "save"}) => file = Payload

Saved == ~Disturbed => CallersRunNothing /\ HeldIsCurrent /\ FileIsCurrent

LEMMA SavedStep == Typed /\ Single /\ Saved /\ [Next]_vars => Saved'
  <1> DEFINE I == CallersRunNothing /\ HeldIsCurrent /\ FileIsCurrent
  <1> SUFFICES ASSUME Typed, Single, Saved, [Next]_vars, ~Disturbed' PROVE I'
    BY DEF Saved
  <1> USE ThreadsAssumption DEF Threads, Typed, TypeOK, Roles, Alive
  <1>0. /\ CallersRunNothing /\ HeldIsCurrent /\ FileIsCurrent
        /\ \A v, w \in Loops : Alive(v) /\ Alive(w) => v = w
        /\ "save" \notin happened' /\ "hand" \notin happened'
    <2>1. happened \subseteq happened'
      BY EventsStay
    <2>2. ~Disturbed /\ happened \cap {"timeout", "overlap"} = {}
      BY <2>1 DEF Disturbed
    <2> QED
      BY <2>2 DEF Saved, Single, Referred, Disturbed
  <1>1. ASSUME UNCHANGED <<age, status, file, held>>,
               \A w \in Loops : /\ pc'[w] = "save" <=> pc[w] = "save"
                                /\ pc'[w] = "stamp" <=> pc[w] = "stamp",
               \A c \in Callers : pc'[c] \notin {"handler", "stamp", "save"}
        PROVE  I'
    <2>1. Payload' = Payload
      BY <1>1 DEF Payload
    <2> QED
      BY <1>0, <1>1, <2>1 DEF CallersRunNothing, HeldIsCurrent, FileIsCurrent
  <1>2. ASSUME NEW c \in Controllers, StartCheck(c) \/ StopRequest(c) \/ StopReturn(c) PROVE I'
    <2>1. /\ UNCHANGED <<age, status, file, held>> /\ pc'[c] \in {"start", "join", "idle"}
          /\ \A t \in Threads : t # c => pc'[t] = pc[t]
      BY <1>2 DEF StartCheck, StopRequest, StopReturn, jobVars
    <2> QED
      BY <1>0, <1>1, <2>1 DEF CallersRunNothing
  <1>3. ASSUME NEW c \in Controllers, Start(c) PROVE I'
    <2>1. PICK w \in Loops : pc[w] = "dead" /\ pc' = [pc EXCEPT ![c] = "idle", ![w] = "top"]
      BY <1>3 DEF Start
    <2>2. UNCHANGED <<age, status, file, held>>
      BY <1>3 DEF Start, jobVars
    <2> QED
      BY <1>0, <1>1, <2>1, <2>2 DEF CallersRunNothing
  <1>4. ASSUME NEW w \in Loops, Exit(w) \/ Round(w) \/ Consider(w) \/ Sleep(w) PROVE I'
    <2>1. /\ UNCHANGED <<age, status, file, held>>
          /\ pc[w] \notin {"stamp", "save"} /\ pc'[w] \notin {"stamp", "save"}
          /\ \A t \in Threads : t # w => pc'[t] = pc[t]
      BY <1>4 DEF Exit, Round, Consider, Sleep, jobVars
    <2> QED
      BY <1>0, <1>1, <2>1 DEF CallersRunNothing
  <1>5. ASSUME NEW c \in Runners, RunJob(c) PROVE FALSE
    BY <1>0, <1>5 DEF RunJob, Happens
  <1>6. ASSUME NEW t \in Threads, HandlerDone(t) PROVE I'
    <2>1. /\ pc[t] = "handler" /\ pc' = [pc EXCEPT ![t] = "stamp"]
      BY <1>6 DEF HandlerDone
    <2>2. t \in Loops
      BY <1>0, <2>1 DEF CallersRunNothing
    <2>3. \A w \in Loops : w # t => pc[w] = "dead"
      BY <1>0, <2>1, <2>2
    <2> QED
      BY <1>0, <2>1, <2>2, <2>3 DEF CallersRunNothing, HeldIsCurrent, FileIsCurrent
  <1>7. ASSUME NEW t \in Threads, Stamp(t) PROVE I'
    <2>1. /\ pc[t] = "stamp" /\ pc' = [pc EXCEPT ![t] = "save"]
          /\ age' = [age EXCEPT ![job[t]] = 0] /\ status' = status
          /\ held' = [held EXCEPT ![t] = [Payload EXCEPT ![job[t]] = <<0, status[job[t]]>>]]
      BY <1>7 DEF Stamp
    <2>2. t \in Loops
      BY <1>0, <2>1 DEF CallersRunNothing
    <2>3. \A w \in Loops : w # t => pc[w] = "dead"
      BY <1>0, <2>1, <2>2
    <2>4. Payload' = [Payload EXCEPT ![job[t]] = <<0, status[job[t]]>>]
      BY <2>1 DEF Payload
    <2>5. held'[t] = Payload'
      BY <2>1, <2>4
    <2> QED
      BY <1>0, <2>1, <2>2, <2>3, <2>5 DEF CallersRunNothing, HeldIsCurrent, FileIsCurrent
  <1>8. ASSUME NEW t \in Threads, Save(t) PROVE I'
    <2>1. pc[t] = "save" /\ file' = held[t] /\ UNCHANGED <<age, status>>
      BY <1>8 DEF Save
    <2>2. t \in Loops
      BY <1>0, <2>1 DEF CallersRunNothing
    <2>3. pc' = [pc EXCEPT ![t] = "scan"]
      BY <1>8, <2>2 DEF Save, Finish
    <2>4. \A w \in Loops : w # t => pc[w] = "dead"
      BY <1>0, <2>1, <2>2
    <2>5. file' = Payload'
      BY <1>0, <2>1, <2>2 DEF HeldIsCurrent, Payload
    <2> QED
      BY <1>0, <2>2, <2>3, <2>4, <2>5 DEF CallersRunNothing, HeldIsCurrent, FileIsCurrent
  <1>9. ASSUME NEW t \in Threads, SaveError(t) PROVE FALSE
    BY <1>0, <1>9 DEF SaveError, Happens
  <1>10. CASE Crash
    <2>1. \A t \in Threads : pc'[t] \in {"dead", "idle"}
      BY <1>10 DEF Crash
    <2>2. file' = file /\ age' = [j \in JobNames |-> file[j][1]] /\ status' = [j \in JobNames |-> file[j][2]]
      BY <1>10 DEF Crash
    <2>3. file = [j \in JobNames |-> <<file[j][1], file[j][2]>>]
      BY DEF Payloads
    <2>4. file' = Payload'
      BY <2>2, <2>3 DEF Payload
    <2> QED
      BY <2>1, <2>4 DEF CallersRunNothing, HeldIsCurrent, FileIsCurrent
  <1>11. CASE Tick
    <2>1. /\ \A t \in Threads : pc[t] \notin {"stamp", "save"}
          /\ age' = [j \in JobNames |-> Older(age[j])]
          /\ file' = [j \in JobNames |-> <<Older(file[j][1]), file[j][2]>>]
          /\ status' = status /\ pc' = pc
      BY <1>11 DEF Tick
    <2>2. file = Payload
      BY <1>0, <2>1 DEF FileIsCurrent
    <2>3. \A j \in JobNames : file[j][1] = age[j] /\ file[j][2] = status[j]
      BY <2>2 DEF Payload
    <2>4. file' = Payload'
      BY <2>1, <2>3 DEF Payload
    <2> QED
      BY <1>0, <2>1, <2>4 DEF CallersRunNothing, HeldIsCurrent, FileIsCurrent
  <1>12. CASE UNCHANGED vars
    BY <1>0, <1>1, <1>12 DEF vars, CallersRunNothing
  <1> QED
    BY <1>2, <1>3, <1>4, <1>5, <1>6, <1>7, <1>8, <1>9, <1>10, <1>11, <1>12 DEF Next

LEMMA InitSaved == Init => Saved
  BY ThreadsAssumption
  DEF Init, Saved, CallersRunNothing, HeldIsCurrent, FileIsCurrent, Payload, NoPayload, Threads

\* After a restart the scheduler knows each outcome, also if it dies at any point outside
\* of the few statements from a handler to the save.
THEOREM FileFollowsMemory == Spec => []SavedIsCurrent
  <1>1. Saved => SavedIsCurrent
    BY DEF Saved, Disturbed, FileIsCurrent, SavedIsCurrent, Threads
  <1> QED
    BY <1>1, InitSaved, SavedStep, InitSingle, SingleStep, TypedAlways, PTL DEF Spec
=============================================================================
