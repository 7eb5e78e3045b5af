------------------------------- MODULE Kernel -------------------------------
(***************************************************************************)
(* OpenChimeraKernel of core/kernel.py: its main thread boots the provider *)
(* (core/bootstrap_plane.py), the HTTP server and the services, serves     *)
(* until it is interrupted, and shuts down; a supervisor thread starts     *)
(* services that have ended; handlers of the HTTP server start and stop    *)
(* the autonomy scheduler and MiniMind's model server, and may outlive the *)
(* HTTP server.  No lock protects any of this.                             *)
(*                                                                         *)
(* The services are threads that run code of other projects: they may end  *)
(* at any time.  Those that are not installed are never started; they are  *)
(* left out.  The parts of the provider have modules of their own: here    *)
(* they run or do not.                                                     *)
(*                                                                         *)
(* A definition whose name starts with Slip is a mistake the code could    *)
(* have made in the definition after it.                                   *)
(***************************************************************************)
EXTENDS Naturals, Sequences

CONSTANTS
    Services,    \* the services, in the order in which they are looked at
    Handlers,    \* threads of the HTTP server
    Boots,       \* bound on how often the kernel is booted
    Failures     \* bound on how often a step of a boot or of a stop fails

ASSUME KernelAssumption == Services \in Seq(STRING) /\ Boots \in Nat /\ Failures \in Nat

VARIABLES
    running,     \* _running
    main, n,     \* where the main thread is, and with which part or service
    started,     \* the provider counts as started
    up,          \* parts of the provider that run
    api,         \* the HTTP server accepts requests
    alive,       \* how many threads run a service
    recent,      \* services started less than a cooldown ago
    sup, k,      \* where the supervisor is, and with which service
    call,        \* what a handler is about to do
    boots, failures,
    raised,      \* history: the last boot, or a stop after it, raised half way
    torn,        \* history: a stop raised half way, and the provider still counts as started
    kept,        \* history: a stop after the last boot left the model server, as the profile says
    late,        \* history: a start was in a handler when the server was last stopped
    overlap      \* history: the kernel was booted while the supervisor was there

vars == <<running, main, n, started, up, api, alive, recent, sup, k, call,
          boots, failures, raised, torn, kept, late, overlap>>
provider == <<started, up, api>>
services == <<alive, recent>>
supervisor == <<sup, k>>
stops == <<torn, kept>>
history == <<boots, failures, raised, stops, late, overlap>>

ServiceNames == {Services[i] : i \in DOMAIN Services}
StartOrder == <<"health", "queue", "minimind", "server", "autonomy", "aegis", "ascension">>
StopOrder == <<"ascension", "aegis", "autonomy", "queue", "server", "health">>
Parts == {StopOrder[i] : i \in DOMAIN StopOrder}

\* Parts that a complete provider may lack: the profile does not ask for them, they are
\* not installed, or they fail to start and say so by their result.
Optional == {"server", "autonomy", "aegis"}

\* What handlers are asked to do; <<>> is no request.
Requests == {"start", "stop"} \X {"autonomy", "server"}
Starting(h) == call[h] # <<>> /\ call[h][1] = "start"

Init ==
    /\ running = FALSE /\ main = "off" /\ n = 1
    /\ started = FALSE /\ up = {} /\ api = FALSE
    /\ alive = [s \in ServiceNames |-> 0] /\ recent = {}
    /\ sup = "none" /\ k = 1
    /\ call = [h \in Handlers |-> <<>>]
    /\ boots = 0 /\ failures = 0
    /\ raised = FALSE /\ torn = FALSE /\ kept = FALSE /\ late = FALSE /\ overlap = FALSE

Go(where, i) == main' = where /\ n' = i

\* A step of a boot or of a stop fails.
Fails ==
    /\ failures < Failures
    /\ failures' = failures + 1
    /\ UNCHANGED <<boots, late, overlap>>

-----------------------------------------------------------------------------
(* boot(). *)

Boot ==
    /\ main = "off" /\ boots < Boots
    /\ boots' = boots + 1
    /\ running' = TRUE /\ raised' = FALSE /\ kept' = FALSE
    /\ overlap' = (overlap \/ sup \notin {"none", "ended"})
    /\ Go(IF started THEN "bind" ELSE "start", 1)
    /\ UNCHANGED <<provider, services, supervisor, call, failures, torn, late>>

\* BootstrapPlane.start().  MiniMind is asked for its state before its server is started.
StartPart ==
    /\ main = "start"
    /\ \/ up' = up \cup ({StartOrder[n]} \cap Parts)
       \/ StartOrder[n] \in Optional /\ up' = up
    /\ started' = (n = Len(StartOrder))
    /\ IF n < Len(StartOrder) THEN Go("start", n + 1) ELSE Go("bind", 1)
    /\ UNCHANGED <<running, api, services, supervisor, call, history>>

\* A part raises before or after it has started: a thread cannot be made, a file cannot
\* be written, the database cannot be read.  After the last part the status that is
\* published may raise too.  Nothing undoes the parts before it.
StartRaises ==
    /\ main = "start"
    /\ Fails /\ UNCHANGED stops
    /\ \/ up' \in {up, up \cup ({StartOrder[n]} \cap Parts)} /\ started' = FALSE
       \/ n = Len(StartOrder) /\ up' = up \cup {StartOrder[n]} /\ started' = TRUE
    /\ running' = FALSE /\ raised' = TRUE
    /\ Go("off", 1)
    /\ UNCHANGED <<api, services, supervisor, call>>

Bind ==
    /\ main = "bind"
    /\ api' = TRUE
    /\ Go("services", 1)
    /\ UNCHANGED <<running, started, up, services, supervisor, call, history>>

BindFails ==
    /\ main = "bind" /\ ~api
    /\ Fails /\ UNCHANGED <<raised, stops>>
    /\ Go("undo", 1)
    /\ UNCHANGED <<running, provider, services, supervisor, call>>

SlipDown(s) == s \notin recent

\* is_running() is false.
Down(s) == alive[s] = 0

\* start() of a service, in two steps: the check, and the thread.
CheckService ==
    /\ main = "services"
    /\ IF n > Len(Services) THEN Go("wire", 1)
       ELSE IF Down(Services[n]) THEN Go("launch", n) ELSE Go("services", n + 1)
    /\ UNCHANGED <<running, provider, services, supervisor, call, history>>

Launch(s) ==
    /\ alive' = [alive EXCEPT ![s] = @ + 1]
    /\ recent' = recent \cup {s}

LaunchService ==
    /\ main = "launch"
    /\ Launch(Services[n])
    /\ Go("services", n + 1)
    /\ UNCHANGED <<running, provider, supervisor, call, history>>

\* _start_runtime_supervisor(): the thread is made once in the life of the kernel.
Wire ==
    /\ main = "wire"
    /\ sup' = IF sup = "none" THEN "test" ELSE sup
    /\ Go("report", 1)
    /\ UNCHANGED <<running, provider, services, k, call, history>>

Report ==
    /\ main = "report"
    /\ Go("serving", 1)
    /\ UNCHANGED <<running, provider, services, supervisor, call, history>>

\* status() raises: nothing is undone and _running stays.
ReportRaises ==
    /\ main = "report"
    /\ Fails /\ UNCHANGED stops
    /\ raised' = TRUE
    /\ Go("off", 1)
    /\ UNCHANGED <<running, provider, services, supervisor, call>>

-----------------------------------------------------------------------------
(* shutdown(), after an interrupt at any point of the boot or after it. *)

Interruptible ==
    {"start", "bind", "undo", "services", "launch", "wire", "report", "serving"}

SlipInterrupt ==
    /\ main \in Interruptible
    /\ running' = FALSE
    /\ Go("stop", 1)
    /\ UNCHANGED <<provider, services, supervisor, call, history>>

Interrupt ==
    /\ main \in Interruptible
    /\ running' = FALSE
    /\ Go("stopapi", 1)
    /\ UNCHANGED <<provider, services, supervisor, call, history>>

\* OpenChimeraAPIServer.stop() does not wait for handlers.
StopApi ==
    /\ main = "stopapi"
    /\ api' = FALSE
    /\ late' = \E h \in Handlers : Starting(h)
    /\ Go("stop", 1)
    /\ UNCHANGED <<running, started, up, services, supervisor, call,
                   boots, failures, raised, stops, overlap>>

\* The next part of BootstrapPlane.stop(), or the end of it.
StopGoesOn ==
    IF n < Len(StopOrder)
    THEN Go(main, n + 1) /\ UNCHANGED <<started, running, torn>>
    ELSE Go("off", 1) /\ started' = FALSE /\ torn' = FALSE /\ running' = (running /\ main = "stop")

SlipStopPart ==
    /\ main \in {"stop", "undo"}
    /\ up' = IF started THEN up \ {StopOrder[n]} ELSE up
    /\ kept' = FALSE
    /\ StopGoesOn
    /\ UNCHANGED <<api, services, supervisor, call, boots, failures, raised, late, overlap>>

\* BootstrapPlane.stop(), of a shutdown or of a boot whose server did not start.  The
\* model server is stopped if the profile says shutdown_with_provider.
StopPart ==
    /\ main \in {"stop", "undo"}
    /\ \/ up' = up \ {StopOrder[n]} /\ kept' = (kept /\ StopOrder[n] # "server")
       \/ StopOrder[n] = "server" /\ up' = up /\ kept' = TRUE
    /\ StopGoesOn
    /\ UNCHANGED <<api, services, supervisor, call, boots, failures, raised, late, overlap>>

\* A part raises before or after it has stopped: the parts after it stay, the provider
\* counts as started if it did, and boot() does not clear _running.
StopRaises ==
    /\ main \in {"stop", "undo"}
    /\ Fails
    /\ up' \in {up, up \ {StopOrder[n]}}
    /\ raised' = TRUE /\ torn' = started
    /\ Go("off", 1)
    /\ UNCHANGED <<running, started, api, services, supervisor, call, kept>>

-----------------------------------------------------------------------------
(* Handlers, supervisor and services. *)

Accept(h) ==
    /\ api /\ call[h] = <<>>
    /\ \E r \in Requests : call' = [call EXCEPT ![h] = r]
    /\ UNCHANGED <<running, main, n, provider, services, supervisor, history>>

\* The model server may fail to start or to stop.
Handle(h) ==
    /\ call[h] # <<>>
    /\ \/ call[h][1] = "start" /\ up' = up \cup {call[h][2]}
       \/ call[h][1] = "stop" /\ up' = up \ {call[h][2]}
       \/ call[h][2] = "server" /\ up' = up
    /\ call' = [call EXCEPT ![h] = <<>>]
    /\ UNCHANGED <<running, main, n, started, api, services, supervisor, history>>

\* The model server is a process of its own, and may end by itself.
ServerEnds ==
    /\ "server" \in up
    /\ up' = up \ {"server"}
    /\ UNCHANGED <<running, main, n, started, api, services, supervisor, call, history>>

SlipTest ==
    /\ sup = "test"
    /\ sup' = "scan"
    /\ k' = 1
    /\ UNCHANGED <<running, main, n, provider, services, call, history>>

Test ==
    /\ sup = "test"
    /\ sup' = IF running THEN "scan" ELSE "ended"
    /\ k' = 1
    /\ UNCHANGED <<running, main, n, provider, services, call, history>>

SlipScan ==
    /\ sup = "scan"
    /\ IF k > Len(Services) \/ ~Down(Services[k]) THEN sup' = "test" /\ k' = 1
       ELSE IF Services[k] \notin recent THEN sup' = "launch" /\ k' = k
       ELSE sup' = "scan" /\ k' = k + 1
    /\ UNCHANGED <<running, main, n, provider, services, call, history>>

Scan ==
    /\ sup = "scan"
    /\ IF k > Len(Services) THEN sup' = "test" /\ k' = 1
       ELSE IF Down(Services[k]) /\ Services[k] \notin recent THEN sup' = "launch" /\ k' = k
       ELSE sup' = "scan" /\ k' = k + 1
    /\ UNCHANGED <<running, main, n, provider, services, call, history>>

Restart ==
    /\ sup = "launch"
    /\ Launch(Services[k])
    /\ sup' = "scan" /\ k' = k + 1
    /\ UNCHANGED <<running, main, n, provider, call, history>>

ServiceEnds(s) ==
    /\ alive[s] > 0
    /\ alive' = [alive EXCEPT ![s] = @ - 1]
    /\ UNCHANGED <<running, main, n, provider, recent, supervisor, call, history>>

CooldownEnds(s) ==
    /\ s \in recent
    /\ recent' = recent \ {s}
    /\ UNCHANGED <<running, main, n, provider, alive, supervisor, call, history>>

Main ==
    \/ Boot \/ StartPart \/ StartRaises \/ Bind \/ BindFails \/ CheckService \/ LaunchService
    \/ Wire \/ Report \/ ReportRaises \/ Interrupt \/ StopApi \/ StopPart
    \/ StopRaises
Supervisor == Test \/ Scan \/ Restart

Next ==
    \/ Main \/ Supervisor \/ ServerEnds
    \/ \E h \in Handlers : Accept(h) \/ Handle(h)
    \/ \E s \in ServiceNames : ServiceEnds(s) \/ CooldownEnds(s)

Spec == Init /\ [][Next]_vars

\* The supervisor thread goes on, and time passes.
FairSpec == Spec /\ WF_vars(Supervisor) /\ \A s \in ServiceNames : WF_vars(CooldownEnds(s))

-----------------------------------------------------------------------------
(* Properties. *)

\* Every variable has a value of its kind; only parts of the provider run in it.
TypeOK ==
    /\ running \in BOOLEAN
    /\ main \in {"off", "start", "bind", "undo", "services", "launch", "wire", "report",
                 "serving", "stopapi", "stop"}
    /\ n \in Nat
    /\ main = "start" => n \in DOMAIN StartOrder
    /\ main \in {"stop", "undo"} => n \in DOMAIN StopOrder
    /\ main = "services" => n \in 1..Len(Services) + 1
    /\ main = "launch" => n \in DOMAIN Services
    /\ started \in BOOLEAN /\ up \subseteq Parts /\ api \in BOOLEAN
    /\ alive \in [ServiceNames -> Nat] /\ recent \subseteq ServiceNames
    /\ sup \in {"none", "test", "scan", "launch", "ended"}
    /\ k \in 1..Len(Services) + 1
    /\ sup = "launch" => k \in DOMAIN Services
    /\ call \in [Handlers -> Requests \cup {<<>>}]
    /\ boots \in 0..Boots /\ failures \in 0..Failures
    /\ raised \in BOOLEAN /\ torn \in BOOLEAN /\ kept \in BOOLEAN
    /\ late \in BOOLEAN /\ overlap \in BOOLEAN

\* After a shutdown, whenever the boot was interrupted, and after a boot whose HTTP
\* server did not start, the kernel is offline and nothing of the provider runs, but for
\* the model server where the profile has it outlive the provider; unless a boot or the
\* stop itself raised half way, or a handler that outlived the server started a part.
OfflineIsDown ==
    (main = "off" /\ ~raised /\ ~late) =>
        /\ ~running /\ ~api /\ ~started
        /\ up \subseteq (IF kept THEN {"server"} ELSE {})

\* The HTTP server accepts requests only while the provider counts as started and its
\* parts are there to answer them.  Only a stop that raised half way can break this: the
\* provider goes on to count as started, and the next boot starts nothing.
ServesOnlyStarted == api => started /\ (torn \/ Parts \ Optional \subseteq up)

\* A service runs in one thread, unless the kernel was booted again while the
\* supervisor of the last boot was still there.
OneRunner == ~overlap => \A s \in ServiceNames : alive[s] <= 1


\* The supervisor ends after the kernel has been shut down for good.
SupervisorEnds == <>[]~running => <>[](sup \in {"none", "ended"})
=============================================================================
