---------------------------- MODULE KernelProofs ----------------------------
(***************************************************************************)
(* What a boot, a shutdown and the supervisor keep true, for any number of *)
(* services, handlers, boots and failures.                                 *)
(***************************************************************************)
EXTENDS Kernel, TLAPS

-----------------------------------------------------------------------------
(* The orders in which parts are started and stopped. *)

\* The provider has six parts besides MiniMind's files, and stop() lists each of them.
LEMMA StopOrderFacts ==
    /\ Len(StopOrder) = 6 /\ DOMAIN StopOrder = 1..6
    /\ StopOrder[1] = "ascension" /\ StopOrder[2] = "aegis" /\ StopOrder[3] = "autonomy"
    /\ StopOrder[4] = "queue" /\ StopOrder[5] = "server" /\ StopOrder[6] = "health"
  BY DEF StopOrder

LEMMA StartOrderFacts ==
    /\ Len(StartOrder) = 7 /\ DOMAIN StartOrder = 1..7
    /\ StartOrder[1] = "health" /\ StartOrder[2] = "queue" /\ StartOrder[3] = "minimind"
    /\ StartOrder[4] = "server" /\ StartOrder[5] = "autonomy" /\ StartOrder[6] = "aegis"
    /\ StartOrder[7] = "ascension"
  BY DEF StartOrder

LEMMA PartsAre == Parts = {"ascension", "aegis", "autonomy", "queue", "server", "health"}
  <1>1. \A i \in 1..6 : i = 1 \/ i = 2 \/ i = 3 \/ i = 4 \/ i = 5 \/ i = 6
    OBVIOUS
  <1> QED
    BY <1>1, StopOrderFacts DEF Parts

\* The services are named by the positions of their list.
LEMMA ServiceFacts ==
    /\ Len(Services) \in Nat /\ DOMAIN Services = 1..Len(Services)
    /\ \A i \in 1..Len(Services) : Services[i] \in ServiceNames
  BY KernelAssumption DEF ServiceNames

-----------------------------------------------------------------------------
(* Types. *)

LEMMA InitTyped == Init => TypeOK
  <1> SUFFICES ASSUME Init PROVE TypeOK
  OBVIOUS
  <1> USE ServiceFacts, KernelAssumption
  <1>1. main \in {"off", "start", "bind", "undo", "services", "launch", "wire", "report",
                 "serving", "stopapi", "stop"} /\ n \in Nat
    BY DEF Init
  <1>2. /\ main = "start" => n \in 1..7
        /\ main \in {"stop", "undo"} => n \in 1..6
        /\ main = "services" => n \in 1..Len(Services) + 1
        /\ main = "launch" => n \in 1..Len(Services)
    BY DEF Init
  <1>3. running \in BOOLEAN /\ started \in BOOLEAN /\ api \in BOOLEAN
    BY DEF Init
  <1>4. raised \in BOOLEAN /\ torn \in BOOLEAN /\ kept \in BOOLEAN /\ late \in BOOLEAN /\ overlap \in BOOLEAN
    BY DEF Init
  <1>5. up \subseteq Parts /\ recent \subseteq ServiceNames /\ alive \in [ServiceNames -> Nat]
    BY DEF Init
  <1>6. sup \in {"none", "test", "scan", "launch", "ended"} /\ k \in 1..Len(Services) + 1
    BY DEF Init
  <1>7. /\ sup = "launch" => k \in 1..Len(Services)
        /\ call \in [Handlers -> Requests \cup {<<>>}]
        /\ boots \in 0..Boots /\ failures \in 0..Failures
    BY DEF Init
  <1> QED
    BY <1>1, <1>2, <1>3, <1>4, <1>5, <1>6, <1>7, StartOrderFacts, StopOrderFacts DEF TypeOK

\* A handler starts and stops the scheduler and the model server only.
LEMMA HandledPart ==
    ASSUME TypeOK, NEW h \in Handlers, Handle(h)
    PROVE  call[h][2] \in {"autonomy", "server"} /\ call[h][2] \in Parts
  <1>1. call[h] \in {"start", "stop"} \X {"autonomy", "server"}
    BY DEF Handle, TypeOK, Requests
  <1>2. call[h][2] \in {"autonomy", "server"}
    BY <1>1
  <1> QED
    BY <1>2, PartsAre

LEMMA StepTyped == TypeOK /\ [Next]_vars => TypeOK'
  <1> SUFFICES ASSUME TypeOK, [Next]_vars PROVE TypeOK'
    OBVIOUS
  <1> USE StartOrderFacts, StopOrderFacts, PartsAre, ServiceFacts, KernelAssumption
  <1>1. CASE Boot
    <2>1. main' \in {"off", "start", "bind", "undo", "services", "launch", "wire", "report",
                     "serving", "stopapi", "stop"} /\ n' \in Nat
      BY <1>1 DEF Boot, TypeOK, Go, provider, services, supervisor
    <2>2. /\ main' = "start" => n' \in 1..7
          /\ main' \in {"stop", "undo"} => n' \in 1..6
          /\ main' = "services" => n' \in 1..Len(Services) + 1
          /\ main' = "launch" => n' \in 1..Len(Services)
      BY <1>1 DEF Boot, TypeOK, Go, provider, services, supervisor
    <2>3. running' \in BOOLEAN /\ started' \in BOOLEAN /\ api' \in BOOLEAN
      BY <1>1 DEF Boot, TypeOK, Go, provider, services, supervisor
    <2>4. raised' \in BOOLEAN /\ torn' \in BOOLEAN /\ kept' \in BOOLEAN /\ late' \in BOOLEAN /\ overlap' \in BOOLEAN
      BY <1>1 DEF Boot, TypeOK, Go, provider, services, supervisor
    <2>5. up' \subseteq Parts /\ recent' \subseteq ServiceNames /\ alive' \in [ServiceNames -> Nat]
      BY <1>1 DEF Boot, TypeOK, Go, provider, services, supervisor
    <2>6. sup' \in {"none", "test", "scan", "launch", "ended"} /\ k' \in 1..Len(Services) + 1
      BY <1>1 DEF Boot, TypeOK, Go, provider, services, supervisor
    <2>7. /\ sup' = "launch" => k' \in 1..Len(Services)
          /\ call' \in [Handlers -> Requests \cup {<<>>}]
          /\ boots' \in 0..Boots /\ failures' \in 0..Failures
      BY <1>1 DEF Boot, TypeOK, Go, provider, services, supervisor
    <2> QED
      BY <2>1, <2>2, <2>3, <2>4, <2>5, <2>6, <2>7 DEF TypeOK
  <1>2. CASE StartPart
    <2>1. main' \in {"off", "start", "bind", "undo", "services", "launch", "wire", "report",
                     "serving", "stopapi", "stop"} /\ n' \in Nat
      BY <1>2 DEF StartPart, TypeOK, Go, services, supervisor, history, stops
    <2>2. /\ main' = "start" => n' \in 1..7
          /\ main' \in {"stop", "undo"} => n' \in 1..6
          /\ main' = "services" => n' \in 1..Len(Services) + 1
          /\ main' = "launch" => n' \in 1..Len(Services)
      BY <1>2 DEF StartPart, TypeOK, Go, services, supervisor, history, stops
    <2>3. running' \in BOOLEAN /\ started' \in BOOLEAN /\ api' \in BOOLEAN
      BY <1>2 DEF StartPart, TypeOK, Go, services, supervisor, history, stops
    <2>4. raised' \in BOOLEAN /\ torn' \in BOOLEAN /\ kept' \in BOOLEAN /\ late' \in BOOLEAN /\ overlap' \in BOOLEAN
      BY <1>2 DEF StartPart, TypeOK, Go, services, supervisor, history, stops
    <2>5. up' \subseteq Parts /\ recent' \subseteq ServiceNames /\ alive' \in [ServiceNames -> Nat]
      BY <1>2 DEF StartPart, TypeOK, Go, services, supervisor, history, stops
    <2>6. sup' \in {"none", "test", "scan", "launch", "ended"} /\ k' \in 1..Len(Services) + 1
      BY <1>2 DEF StartPart, TypeOK, Go, services, supervisor, history, stops
    <2>7. /\ sup' = "launch" => k' \in 1..Len(Services)
          /\ call' \in [Handlers -> Requests \cup {<<>>}]
          /\ boots' \in 0..Boots /\ failures' \in 0..Failures
      BY <1>2 DEF StartPart, TypeOK, Go, services, supervisor, history, stops
    <2> QED
      BY <2>1, <2>2, <2>3, <2>4, <2>5, <2>6, <2>7 DEF TypeOK
  <1>3. CASE StartRaises
    <2>1. main' \in {"off", "start", "bind", "undo", "services", "launch", "wire", "report",
                     "serving", "stopapi", "stop"} /\ n' \in Nat
      BY <1>3 DEF StartRaises, Fails, TypeOK, Go, provider, services, supervisor, stops
    <2>2. /\ main' = "start" => n' \in 1..7
          /\ main' \in {"stop", "undo"} => n' \in 1..6
          /\ main' = "services" => n' \in 1..Len(Services) + 1
          /\ main' = "launch" => n' \in 1..Len(Services)
      BY <1>3 DEF StartRaises, Fails, TypeOK, Go, provider, services, supervisor, stops
    <2>3. running' \in BOOLEAN /\ started' \in BOOLEAN /\ api' \in BOOLEAN
      BY <1>3 DEF StartRaises, Fails, TypeOK, Go, provider, services, supervisor, stops
    <2>4. raised' \in BOOLEAN /\ torn' \in BOOLEAN /\ kept' \in BOOLEAN /\ late' \in BOOLEAN /\ overlap' \in BOOLEAN
      BY <1>3 DEF StartRaises, Fails, TypeOK, Go, provider, services, supervisor, stops
    <2>5. up' \subseteq Parts /\ recent' \subseteq ServiceNames /\ alive' \in [ServiceNames -> Nat]
      BY <1>3 DEF StartRaises, Fails, TypeOK, Go, provider, services, supervisor, stops
    <2>6. sup' \in {"none", "test", "scan", "launch", "ended"} /\ k' \in 1..Len(Services) + 1
      BY <1>3 DEF StartRaises, Fails, TypeOK, Go, provider, services, supervisor, stops
    <2>7. /\ sup' = "launch" => k' \in 1..Len(Services)
          /\ call' \in [Handlers -> Requests \cup {<<>>}]
          /\ boots' \in 0..Boots /\ failures' \in 0..Failures
      BY <1>3 DEF StartRaises, Fails, TypeOK, Go, provider, services, supervisor, stops
    <2> QED
      BY <2>1, <2>2, <2>3, <2>4, <2>5, <2>6, <2>7 DEF TypeOK
  <1>4. CASE Bind
    BY <1>4 DEF Bind, TypeOK, Go, services, supervisor, history, stops
  <1>5. CASE BindFails
    BY <1>5 DEF BindFails, Fails, TypeOK, Go, provider, services, supervisor, stops
  <1>6. CASE CheckService
    BY <1>6 DEF CheckService, TypeOK, Go, provider, services, supervisor, history, stops
  <1>7. CASE LaunchService
    BY <1>7 DEF LaunchService, Launch, TypeOK, Go, provider, supervisor, history, stops
  <1>8. CASE Wire
    BY <1>8 DEF Wire, TypeOK, Go, provider, services, history, stops
  <1>9. CASE Report
    BY <1>9 DEF Report, TypeOK, Go, provider, services, supervisor, history, stops
  <1>10. CASE ReportRaises
    BY <1>10 DEF ReportRaises, Fails, TypeOK, Go, provider, services, supervisor, stops
  <1>11. CASE Interrupt
    BY <1>11 DEF Interrupt, TypeOK, Go, provider, services, supervisor, history, stops
  <1>12. CASE StopApi
    <2>1. main' \in {"off", "start", "bind", "undo", "services", "launch", "wire", "report",
                     "serving", "stopapi", "stop"} /\ n' \in Nat
      BY <1>12 DEF StopApi, TypeOK, Go, services, supervisor, stops
    <2>2. /\ main' = "start" => n' \in 1..7
          /\ main' \in {"stop", "undo"} => n' \in 1..6
          /\ main' = "services" => n' \in 1..Len(Services) + 1
          /\ main' = "launch" => n' \in 1..Len(Services)
      BY <1>12 DEF StopApi, TypeOK, Go, services, supervisor, stops
    <2>3. running' \in BOOLEAN /\ started' \in BOOLEAN /\ api' \in BOOLEAN
      BY <1>12 DEF StopApi, TypeOK, Go, services, supervisor, stops
    <2>4. raised' \in BOOLEAN /\ torn' \in BOOLEAN /\ kept' \in BOOLEAN /\ late' \in BOOLEAN /\ overlap' \in BOOLEAN
      BY <1>12 DEF StopApi, TypeOK, Go, services, supervisor, stops
    <2>5. up' \subseteq Parts /\ recent' \subseteq ServiceNames /\ alive' \in [ServiceNames -> Nat]
      BY <1>12 DEF StopApi, TypeOK, Go, services, supervisor, stops
    <2>6. sup' \in {"none", "test", "scan", "launch", "ended"} /\ k' \in 1..Len(Services) + 1
      BY <1>12 DEF StopApi, TypeOK, Go, services, supervisor, stops
    <2>7. /\ sup' = "launch" => k' \in 1..Len(Services)
          /\ call' \in [Handlers -> Requests \cup {<<>>}]
          /\ boots' \in 0..Boots /\ failures' \in 0..Failures
      BY <1>12 DEF StopApi, TypeOK, Go, services, supervisor, stops
    <2> QED
      BY <2>1, <2>2, <2>3, <2>4, <2>5, <2>6, <2>7 DEF TypeOK
  <1>13. CASE StopPart
    <2>1. main' \in {"off", "start", "bind", "undo", "services", "launch", "wire", "report",
                     "serving", "stopapi", "stop"} /\ n' \in Nat
      BY <1>13 DEF StopPart, StopGoesOn, TypeOK, Go, services, supervisor
    <2>2. /\ main' = "start" => n' \in 1..7
          /\ main' \in {"stop", "undo"} => n' \in 1..6
          /\ main' = "services" => n' \in 1..Len(Services) + 1
          /\ main' = "launch" => n' \in 1..Len(Services)
      BY <1>13 DEF StopPart, StopGoesOn, TypeOK, Go, services, supervisor
    <2>3. running' \in BOOLEAN /\ started' \in BOOLEAN /\ api' \in BOOLEAN
      BY <1>13 DEF StopPart, StopGoesOn, TypeOK, Go, services, supervisor
    <2>4. raised' \in BOOLEAN /\ torn' \in BOOLEAN /\ kept' \in BOOLEAN /\ late' \in BOOLEAN /\ overlap' \in BOOLEAN
      BY <1>13 DEF StopPart, StopGoesOn, TypeOK, Go, services, supervisor
    <2>5. up' \subseteq Parts /\ recent' \subseteq ServiceNames /\ alive' \in [ServiceNames -> Nat]
      BY <1>13 DEF StopPart, StopGoesOn, TypeOK, Go, services, supervisor
    <2>6. sup' \in {"none", "test", "scan", "launch", "ended"} /\ k' \in 1..Len(Services) + 1
      BY <1>13 DEF StopPart, StopGoesOn, TypeOK, Go, services, supervisor
    <2>7. /\ sup' = "launch" => k' \in 1..Len(Services)
          /\ call' \in [Handlers -> Requests \cup {<<>>}]
          /\ boots' \in 0..Boots /\ failures' \in 0..Failures
      BY <1>13 DEF StopPart, StopGoesOn, TypeOK, Go, services, supervisor
    <2> QED
      BY <2>1, <2>2, <2>3, <2>4, <2>5, <2>6, <2>7 DEF TypeOK
  <1>14. CASE Supervisor
    <2>1. CASE Test
      BY <2>1 DEF Test, TypeOK, provider, services, history, stops
    <2>2. CASE Scan
      BY <2>2 DEF Scan, TypeOK, provider, services, history, stops
    <2>3. CASE Restart
      BY <2>3 DEF Restart, Launch, TypeOK, provider, history, stops
    <2> QED
      BY <1>14, <2>1, <2>2, <2>3 DEF Supervisor
  <1>20. CASE StopRaises
    <2>1. UNCHANGED <<running, started, api, alive, recent, sup, k, call, boots, late, overlap, kept>>
      BY <1>20 DEF StopRaises, Fails, services, supervisor
    <2>2. main' = "off" /\ n' = 1 /\ raised' = TRUE /\ torn' = started
      BY <1>20 DEF StopRaises, Go
    <2>3. up' \subseteq Parts
      BY <1>20 DEF StopRaises, TypeOK
    <2>4. failures' \in 0..Failures
      BY <1>20 DEF StopRaises, Fails, TypeOK
    <2> QED
      BY <2>1, <2>2, <2>3, <2>4 DEF TypeOK
  <1>21. CASE ServerEnds
    BY <1>21 DEF ServerEnds, TypeOK, services, supervisor, history, stops
  <1>15. ASSUME NEW h \in Handlers, Accept(h) PROVE TypeOK'
    BY <1>15 DEF Accept, TypeOK, provider, services, supervisor, history, stops
  <1>16. ASSUME NEW h \in Handlers, Handle(h) PROVE TypeOK'
    <2>1. call[h][2] \in Parts
      BY <1>16, HandledPart
    <2>2. up' \subseteq Parts
      BY <1>16, <2>1 DEF Handle, TypeOK
    <2>3. call' \in [Handlers -> Requests \cup {<<>>}]
      BY <1>16 DEF Handle, TypeOK
    <2> QED
      BY <1>16, <2>2, <2>3 DEF Handle, TypeOK, services, supervisor, history, stops
  <1>17. ASSUME NEW s \in ServiceNames, ServiceEnds(s) PROVE TypeOK'
    BY <1>17 DEF ServiceEnds, TypeOK, provider, supervisor, history, stops
  <1>18. ASSUME NEW s \in ServiceNames, CooldownEnds(s) PROVE TypeOK'
    BY <1>18 DEF CooldownEnds, TypeOK, provider, supervisor, history, stops
  <1>19. CASE UNCHANGED vars
    BY <1>19 DEF vars, TypeOK
  <1> QED
    BY <1>1, <1>2, <1>3, <1>4, <1>5, <1>6, <1>7, <1>8, <1>9, <1>10, <1>11, <1>12, <1>13,
       <1>14, <1>15, <1>16, <1>17, <1>18, <1>19, <1>20, <1>21 DEF Next, Main

\* The kernel stays well typed.
THEOREM TypeCorrect == Spec => []TypeOK
  <1>1. Init => TypeOK
    BY InitTyped
  <1>2. TypeOK /\ [Next]_vars => TypeOK'
    BY StepTyped
  <1> QED
    BY <1>1, <1>2, PTL DEF Spec

-----------------------------------------------------------------------------
(* The provider. *)

Needed == Parts \ Optional

\* What the main thread knows of the provider at each place of boot and shutdown.
\* OfflineIsDown says nothing of the way down, where the parts that have been stopped
\* must stay so, and ServesOnlyStarted nothing of the way up.
ProviderInv ==
    /\ api => started
    /\ torn => started
    /\ main = "start" => ~started
    /\ main \in {"bind", "services", "launch", "wire", "report", "serving"} => started
    /\ main \in {"stop", "undo"} => ~api
    /\ main \in {"stop", "stopapi"} => ~running
    /\ (/\ started /\ ~torn
        /\ main \notin {"stop", "undo"}
        /\ main = "stopapi" => api) => Needed \subseteq up
    /\ main = "start" => \A i \in 1..(n - 1) : StartOrder[i] \in Needed => StartOrder[i] \in up
    /\ main \in {"stop", "undo"} =>
          \A i \in 1..(n - 1) : StopOrder[i] \in up =>
              \/ StopOrder[i] \in {"autonomy", "server"} /\ late
              \/ StopOrder[i] = "server" /\ kept
    /\ ((\E h \in Handlers : Starting(h)) /\ ~api) => late
    /\ OfflineIsDown

LEMMA NeededAre == Needed = {"ascension", "queue", "health"}
  BY PartsAre DEF Needed, Optional

LEMMA ProviderInit == Init => ProviderInv
  BY DEF Init, ProviderInv, OfflineIsDown, Starting

\* A handler starts or stops the scheduler or the model server, which the HTTP server
\* does not need.
LEMMA HandleKeepsProvider ==
    ASSUME TypeOK, ProviderInv, NEW h \in Handlers, Handle(h)
    PROVE  ProviderInv'
  <1> DEFINE part == call[h][2]
  <1>0. part \in {"autonomy", "server"}
    BY HandledPart
  <1>1. Starting(h) => api \/ late
    BY DEF ProviderInv
  <1>2. (\E g \in Handlers : Starting(g)') => \E g \in Handlers : Starting(g)
    BY DEF Handle, TypeOK, Starting
  <1>3. \/ Starting(h) /\ up' = up \cup {part}
        \/ up' = up \ {part}
        \/ up' = up
    BY DEF Handle, Starting
  <1> HIDE DEF part
  <1>4. UNCHANGED <<running, main, n, started, api, raised, torn, kept, late>>
    BY DEF Handle, history, stops
  <1>5. /\ up' \ {"autonomy", "server"} = up \ {"autonomy", "server"}
        /\ \A q \in up' \ up : q \in {"autonomy", "server"} /\ Starting(h)
    BY <1>0, <1>3
  <1>6. Needed \subseteq up => Needed \subseteq up'
    BY <1>5, NeededAre
  <1>7. main = "start" => \A i \in 1..(n - 1) : StartOrder[i] \in Needed => StartOrder[i] \in up'
    BY <1>5, NeededAre DEF ProviderInv
  <1>8. main \in {"stop", "undo"} =>
          \A i \in 1..(n - 1) : StopOrder[i] \in up' =>
              \/ StopOrder[i] \in {"autonomy", "server"} /\ late
              \/ StopOrder[i] = "server" /\ kept
    BY <1>1, <1>5 DEF ProviderInv
  <1>9. OfflineIsDown'
    BY <1>1, <1>4, <1>5 DEF ProviderInv, OfflineIsDown
  <1> QED
    BY <1>2, <1>4, <1>6, <1>7, <1>8, <1>9 DEF ProviderInv

\* The last part that is stopped leaves nothing but a model server that is to be kept.
LEMMA StopPartKeepsProvider ==
    ASSUME TypeOK, ProviderInv, StopPart
    PROVE  ProviderInv'
  <1> USE StopOrderFacts, PartsAre
  <1>1. n \in 1..6 /\ up \subseteq Parts /\ ~api /\ main \in {"stop", "undo"}
    BY DEF StopPart, TypeOK, ProviderInv
  <1>2. /\ UNCHANGED <<api, call, late, raised>>
        /\ \/ up' = up \ {StopOrder[n]} /\ kept' = (kept /\ StopOrder[n] # "server")
           \/ StopOrder[n] = "server" /\ up' = up /\ kept' = TRUE
    BY DEF StopPart
  <1>3. \A i \in 1..(n - 1) : StopOrder[i] \in up =>
            \/ StopOrder[i] \in {"autonomy", "server"} /\ late
            \/ StopOrder[i] = "server" /\ kept
    BY <1>1 DEF ProviderInv
  <1>4. \A i \in 1..n : StopOrder[i] \in up' =>
            \/ StopOrder[i] \in {"autonomy", "server"} /\ late
            \/ StopOrder[i] = "server" /\ kept'
    <2> SUFFICES ASSUME NEW i \in 1..n, StopOrder[i] \in up'
                 PROVE  \/ StopOrder[i] \in {"autonomy", "server"} /\ late
                        \/ StopOrder[i] = "server" /\ kept'
      OBVIOUS
    <2>1. CASE i = n
      BY <1>1, <1>2, <2>1
    <2>2. CASE i # n
      <3>1. i \in 1..(n - 1) /\ StopOrder[i] \in up
        BY <1>1, <1>2, <2>2
      <3>2. StopOrder[i] # StopOrder[n]
        BY <1>1, <1>2, <3>1
      <3>3. CASE StopOrder[i] \in {"autonomy", "server"} /\ late
        BY <3>3
      <3>4. CASE StopOrder[i] = "server" /\ kept
        BY <1>2, <3>2, <3>4
      <3> QED
        BY <1>3, <3>1, <3>3, <3>4
    <2> QED
      BY <2>1, <2>2
  <1>5. CASE n < 6
    <2>1. main' = main /\ n' = n + 1 /\ UNCHANGED <<started, running, torn>>
      BY <1>5 DEF StopPart, StopGoesOn, Go
    <2>2. (\E h \in Handlers : Starting(h)') => \E h \in Handlers : Starting(h)
      BY <1>2 DEF Starting
    <2> QED
      BY <1>1, <1>2, <1>4, <2>1, <2>2 DEF ProviderInv, OfflineIsDown
  <1>6. CASE n = 6
    <2>1. main' = "off" /\ ~started' /\ ~torn' /\ running' = (running /\ main = "stop")
      BY <1>6 DEF StopPart, StopGoesOn, Go
    <2>2. ~running'
      BY <1>1, <2>1 DEF ProviderInv
    <2>3. ~late => up' \subseteq (IF kept' THEN {"server"} ELSE {})
      <3>0. \A i \in 1..6 : StopOrder[i] \in up' =>
                \/ StopOrder[i] \in {"autonomy", "server"} /\ late
                \/ StopOrder[i] = "server" /\ kept'
        BY <1>4, <1>6
      <3>1. \A i \in 1..6 : StopOrder[i] \in up' => (late \/ (StopOrder[i] = "server" /\ kept'))
        BY <3>0, Zenon
      <3>2. 1 \in 1..6 /\ 2 \in 1..6 /\ 3 \in 1..6 /\ 4 \in 1..6 /\ 5 \in 1..6 /\ 6 \in 1..6
        OBVIOUS
      <3>3. up' \subseteq {"ascension", "aegis", "autonomy", "queue", "server", "health"}
        BY <1>1, <1>2
      <3> QED
        BY <3>1, <3>2, <3>3
    <2>4. (\E h \in Handlers : Starting(h)') => \E h \in Handlers : Starting(h)
      BY <1>2 DEF Starting
    <2> QED
      BY <1>1, <1>2, <2>1, <2>2, <2>3, <2>4 DEF ProviderInv, OfflineIsDown
  <1> QED
    BY <1>1, <1>5, <1>6

\* The provider counts as started when its last part runs.
LEMMA StartPartKeepsProvider ==
    ASSUME TypeOK, ProviderInv, StartPart
    PROVE  ProviderInv'
  <1> USE StartOrderFacts, PartsAre
  <1>1. n \in 1..7 /\ main = "start" /\ ~started /\ ~api /\ ~torn
    BY DEF StartPart, TypeOK, ProviderInv
  <1>2. UNCHANGED <<running, api, call, late, raised, torn, kept>>
    BY DEF StartPart, history, stops
  <1>3. up \subseteq up' /\ (StartOrder[n] \in Needed => StartOrder[n] \in up')
    BY <1>1 DEF StartPart, Needed
  <1>4. \A i \in 1..n : StartOrder[i] \in Needed => StartOrder[i] \in up'
    BY <1>1, <1>3 DEF ProviderInv
  <1>5. (\E h \in Handlers : Starting(h)') => \E h \in Handlers : Starting(h)
    BY <1>2 DEF Starting
  <1>6. CASE n < 7
    <2>0. main' = "start" /\ n' = n + 1 /\ started' = FALSE
      <3>1. (n = Len(StartOrder)) = FALSE
        BY <1>1, <1>6
      <3> QED
        BY <1>1, <1>6, <3>1 DEF StartPart, Go
    <2>1. main' = "start" /\ n' = n + 1 /\ ~started'
      BY <2>0
    <2> QED
      BY <1>1, <1>2, <1>4, <1>5, <2>1 DEF ProviderInv, OfflineIsDown
  <1>7. CASE n = 7
    <2>0. main' = "bind" /\ started' = TRUE
      <3>1. (n = Len(StartOrder)) = TRUE
        BY <1>7
      <3>2. ~(n < Len(StartOrder))
        BY <1>7
      <3> HIDE StartOrderFacts
      <3>3. main' = "bind"
        BY <3>2 DEF StartPart, Go
      <3>4. started' = TRUE
        BY <3>1 DEF StartPart
      <3> QED
        BY <3>3, <3>4
    <2>1. main' = "bind" /\ started'
      BY <2>0
    <2>2. Needed \subseteq up'
      BY <1>4, <1>7, NeededAre
    <2> QED
      BY <1>1, <1>2, <1>5, <2>1, <2>2 DEF ProviderInv, OfflineIsDown
  <1> QED
    BY <1>1, <1>6, <1>7

\* If the status raises after the last part, the provider counts as started and is whole.
LEMMA StartRaisesKeepsProvider ==
    ASSUME TypeOK, ProviderInv, StartRaises
    PROVE  ProviderInv'
  <1> USE StartOrderFacts, PartsAre
  <1>1. n \in 1..7 /\ main = "start" /\ ~started /\ ~api /\ ~torn
    BY DEF StartRaises, TypeOK, ProviderInv
  <1>2. /\ UNCHANGED <<api, call, late, torn, kept>>
        /\ main' = "off" /\ raised' /\ ~running'
    BY DEF StartRaises, Fails, Go, stops
  <1>3. started' => n = 7 /\ up' = up \cup {StartOrder[n]}
    BY <1>1 DEF StartRaises
  <1>4. started' => Needed \subseteq up'
    <2>1. \A i \in 1..(n - 1) : StartOrder[i] \in Needed => StartOrder[i] \in up
      BY <1>1 DEF ProviderInv
    <2> QED
      BY <1>3, <2>1, NeededAre
  <1>5. (\E h \in Handlers : Starting(h)') => \E h \in Handlers : Starting(h)
    BY <1>2 DEF Starting
  <1> QED
    BY <1>1, <1>2, <1>4, <1>5 DEF ProviderInv, OfflineIsDown

LEMMA ProviderStep == TypeOK /\ ProviderInv /\ [Next]_vars => ProviderInv'
  <1> SUFFICES ASSUME TypeOK, ProviderInv, [Next]_vars PROVE ProviderInv'
    OBVIOUS
  <1>1. CASE Boot
    BY <1>1, PartsAre DEF Boot, ProviderInv, OfflineIsDown, Starting, Go, provider, TypeOK
  <1>2. CASE StartPart
    BY <1>2, StartPartKeepsProvider
  <1>3. CASE StartRaises
    BY <1>3, StartRaisesKeepsProvider
  <1>4. CASE Bind
    BY <1>4 DEF Bind, ProviderInv, OfflineIsDown, Starting, Go, history, stops
  <1>5. CASE BindFails
    BY <1>5 DEF BindFails, Fails, ProviderInv, OfflineIsDown, Starting, Go, provider, stops
  <1>6. CASE CheckService
    BY <1>6 DEF CheckService, ProviderInv, OfflineIsDown, Starting, Go, provider, history, stops
  <1>7. CASE LaunchService
    BY <1>7 DEF LaunchService, ProviderInv, OfflineIsDown, Starting, Go, provider, history, stops
  <1>8. CASE Wire
    BY <1>8 DEF Wire, ProviderInv, OfflineIsDown, Starting, Go, provider, history, stops
  <1>9. CASE Report
    BY <1>9 DEF Report, ProviderInv, OfflineIsDown, Starting, Go, provider, history, stops
  <1>10. CASE ReportRaises
    BY <1>10 DEF ReportRaises, Fails, ProviderInv, OfflineIsDown, Starting, Go, provider, stops
  <1>11. CASE Interrupt
    BY <1>11 DEF Interrupt, Interruptible, ProviderInv, OfflineIsDown, Starting, Go, provider,
                 history, stops
  <1>12. CASE StopApi
    BY <1>12 DEF StopApi, ProviderInv, OfflineIsDown, Starting, Go, stops
  <1>13. CASE StopPart
    BY <1>13, StopPartKeepsProvider
  <1>14. CASE StopRaises
    BY <1>14 DEF StopRaises, Fails, ProviderInv, OfflineIsDown, Starting, Go
  <1>15. CASE Supervisor
    <2>1. UNCHANGED <<running, main, n, started, up, api, call, raised, torn, kept, late>>
      BY <1>15 DEF Supervisor, Test, Scan, Restart, provider, history, stops
    <2> QED
      BY <2>1 DEF ProviderInv, OfflineIsDown, Starting
  <1>16. CASE ServerEnds
    <2>1. UNCHANGED <<running, main, n, started, api, call, raised, torn, kept, late>>
      BY <1>16 DEF ServerEnds, history, stops
    <2>2. up' \subseteq up /\ (Needed \subseteq up => Needed \subseteq up')
      BY <1>16, NeededAre DEF ServerEnds
    <2>3. \A q \in Needed : q \in up => q \in up'
      BY <1>16, NeededAre DEF ServerEnds
    <2> QED
      BY <2>1, <2>2, <2>3 DEF ProviderInv, OfflineIsDown, Starting
  <1>17. ASSUME NEW h \in Handlers, Accept(h) PROVE ProviderInv'
    BY <1>17 DEF Accept, ProviderInv, OfflineIsDown, provider, history, stops
  <1>18. ASSUME NEW h \in Handlers, Handle(h) PROVE ProviderInv'
    BY <1>18, HandleKeepsProvider
  <1>19. ASSUME NEW s \in ServiceNames, ServiceEnds(s) \/ CooldownEnds(s) PROVE ProviderInv'
    BY <1>19 DEF ServiceEnds, CooldownEnds, ProviderInv, OfflineIsDown, Starting, provider,
                 history, stops
  <1>20. CASE UNCHANGED vars
    BY <1>20 DEF vars, ProviderInv, OfflineIsDown, Starting
  <1> QED
    BY <1>1, <1>2, <1>3, <1>4, <1>5, <1>6, <1>7, <1>8, <1>9, <1>10, <1>11, <1>12, <1>13,
       <1>14, <1>15, <1>16, <1>17, <1>18, <1>19, <1>20 DEF Next, Main

LEMMA ProviderAlways == Spec => [](TypeOK /\ ProviderInv)
  <1>1. Init => TypeOK /\ ProviderInv
    BY InitTyped, ProviderInit
  <1>2. (TypeOK /\ ProviderInv) /\ [Next]_vars => (TypeOK /\ ProviderInv)'
    BY StepTyped, ProviderStep
  <1> QED
    BY <1>1, <1>2, PTL DEF Spec

\* A shutdown leaves nothing of the provider, wherever it interrupted the boot, but for a
\* model server that the profile has outlive it; unless the boot or the stop raised half
\* way, or a handler that outlived the HTTP server started a part.
THEOREM ShutdownStopsEverything == Spec => []OfflineIsDown
  <1>1. ProviderInv => OfflineIsDown
    BY DEF ProviderInv
  <1> QED
    BY <1>1, ProviderAlways, PTL

\* Requests are accepted only while the provider counts as started, and while every part
\* that is not optional runs, unless a stop raised half way.
THEOREM RequestsFindTheProvider == Spec => []ServesOnlyStarted
  <1>1. ProviderInv => ServesOnlyStarted
    BY DEF ProviderInv, ServesOnlyStarted, Needed
  <1> QED
    BY <1>1, ProviderAlways, PTL

-----------------------------------------------------------------------------
(* The services. *)

\* Whoever is about to start the thread of a service has seen that there is none, and
\* the main thread and the supervisor are never both there.
RunnerInv ==
    ~overlap =>
        /\ main \in {"start", "bind", "undo", "services", "launch", "wire"} => sup \in {"none", "ended"}
        /\ main = "launch" => alive[Services[n]] = 0
        /\ sup = "launch" => alive[Services[k]] = 0
        /\ \A s \in ServiceNames : alive[s] <= 1

LEMMA RunnerInit == Init => RunnerInv
  BY DEF Init, RunnerInv

\* A thread more for a service that has none.
LEMMA LaunchKeepsOne ==
    ASSUME TypeOK, NEW s \in ServiceNames, alive[s] = 0, Launch(s),
           \A t \in ServiceNames : alive[t] <= 1
    PROVE  \A t \in ServiceNames : alive'[t] <= 1
  BY DEF Launch, TypeOK

LEMMA RunnerStep == TypeOK /\ RunnerInv /\ [Next]_vars => RunnerInv'
  <1> SUFFICES ASSUME TypeOK, RunnerInv, [Next]_vars, ~overlap' PROVE RunnerInv'
    BY DEF RunnerInv
  <1>0. ~overlap
    BY DEF Next, Main, Supervisor, vars, Boot, StartPart, StartRaises, Bind, BindFails,
           CheckService, LaunchService, Wire, Report, ReportRaises, Interrupt, Interruptible, StopApi,
           StopPart, StopGoesOn, StopRaises, ServerEnds, Test, Scan, Restart, Accept, Handle, ServiceEnds, CooldownEnds,
           StopRaises, ServerEnds, Fails, history, TypeOK
  <1> USE <1>0 DEF RunnerInv
  <1>1. CASE Boot
    BY <1>1 DEF Boot, Go, services, supervisor
  <1>2. CASE StartPart \/ StartRaises \/ Bind \/ BindFails
    BY <1>2 DEF StartPart, StartRaises, Bind, BindFails, Go, services, supervisor
  <1>3. CASE CheckService
    BY <1>3 DEF CheckService, Down, Go, services, supervisor
  <1>4. CASE LaunchService
    <2>1. Services[n] \in ServiceNames /\ alive[Services[n]] = 0 /\ Launch(Services[n])
      BY <1>4, ServiceFacts DEF LaunchService, TypeOK
    <2>2. \A t \in ServiceNames : alive'[t] <= 1
      BY <2>1, LaunchKeepsOne
    <2> QED
      BY <1>4, <2>2 DEF LaunchService, Go, supervisor
  <1>5. CASE Wire \/ Report \/ ReportRaises \/ Interrupt \/ StopApi
    BY <1>5 DEF Wire, Report, ReportRaises, Interrupt, StopApi, Go, services, supervisor
  <1>6. CASE StopPart \/ StopRaises
    BY <1>6 DEF StopPart, StopGoesOn, StopRaises, Go, services, supervisor
  <1>13. CASE ServerEnds
    BY <1>13 DEF ServerEnds, services, supervisor
  <1>7. CASE Test \/ Scan
    BY <1>7 DEF Test, Scan, Down, services
  <1>8. CASE Restart
    <2>1. Services[k] \in ServiceNames /\ alive[Services[k]] = 0 /\ Launch(Services[k])
      BY <1>8, ServiceFacts DEF Restart, TypeOK
    <2>2. \A t \in ServiceNames : alive'[t] <= 1
      BY <2>1, LaunchKeepsOne
    <2> QED
      BY <1>8, <2>2 DEF Restart
  <1>9. ASSUME NEW h \in Handlers, Accept(h) \/ Handle(h) PROVE RunnerInv'
    BY <1>9 DEF Accept, Handle, services, supervisor
  <1>10. ASSUME NEW s \in ServiceNames, ServiceEnds(s) PROVE RunnerInv'
    <2>1. \A t \in ServiceNames : alive'[t] \in Nat /\ alive'[t] <= alive[t]
      BY <1>10 DEF ServiceEnds, TypeOK
    <2>2. main = "launch" => alive'[Services[n]] = 0
      BY <2>1, ServiceFacts DEF TypeOK
    <2>3. sup = "launch" => alive'[Services[k]] = 0
      BY <2>1, ServiceFacts DEF TypeOK
    <2>4. \A t \in ServiceNames : alive'[t] <= 1
      BY <2>1 DEF TypeOK
    <2> QED
      BY <1>10, <2>2, <2>3, <2>4 DEF ServiceEnds, supervisor
  <1>11. ASSUME NEW s \in ServiceNames, CooldownEnds(s) PROVE RunnerInv'
    BY <1>11 DEF CooldownEnds, supervisor
  <1>12. CASE UNCHANGED vars
    BY <1>12 DEF vars
  <1> QED
    BY <1>1, <1>2, <1>3, <1>4, <1>5, <1>6, <1>7, <1>8, <1>9, <1>10, <1>11, <1>12, <1>13
       DEF Next, Main, Supervisor

\* A service runs in one thread, whoever starts it, unless two boots overlapped.
THEOREM ServicesRunOnce == Spec => []OneRunner
  <1>1. Init => TypeOK /\ RunnerInv
    BY InitTyped, RunnerInit
  <1>2. (TypeOK /\ RunnerInv) /\ [Next]_vars => (TypeOK /\ RunnerInv)'
    BY StepTyped, RunnerStep
  <1>3. RunnerInv => OneRunner
    BY DEF RunnerInv, OneRunner
  <1> QED
    BY <1>1, <1>2, <1>3, PTL DEF Spec

-----------------------------------------------------------------------------
(* Boots and shutdowns end. *)

L == Len(Services)

\* The steps that the main thread still has to make until it is off, at most.
MainLeft ==
    [off |-> 0, stop |-> 7 - n, stopapi |-> 7, serving |-> 8, report |-> 9, wire |-> 10,
     services |-> 2 * (L + 1 - n) + 11, launch |-> 2 * (L + 1 - n) + 10, undo |-> 14 - n,
     bind |-> 2 * L + 14, start |-> 2 * L + 22 - n][main]

\* The steps that the supervisor has still to make when the kernel does not run.
SupervisorLeft ==
    [none |-> 0, ended |-> 0, test |-> 1,
     scan |-> 2 * (L + 1 - k) + 2, launch |-> 2 * (L + 1 - k) + 1][sup]

\* The kernel runs from the begin of a boot until it is interrupted.
BootRuns ==
    main \in {"start", "bind", "services", "launch", "wire", "report", "serving"} => running

LEMMA BootRunsStep == BootRuns /\ [Next]_vars => BootRuns'
  BY DEF BootRuns, Next, Main, Supervisor, vars, Boot, StartPart, StartRaises, Bind, BindFails,
         CheckService, LaunchService, Wire, Report, ReportRaises, Interrupt, Interruptible, StopApi,
         StopPart, StopGoesOn, StopRaises, ServerEnds, Test, Scan, Restart, Accept, Handle, ServiceEnds, CooldownEnds, Go

LEMMA MainBounded == TypeOK => MainLeft \in 0..(2 * L + 21)
  <1> SUFFICES ASSUME TypeOK PROVE MainLeft \in 0..(2 * L + 21)
    OBVIOUS
  <1>1. L \in Nat /\ n \in Nat
    BY ServiceFacts DEF TypeOK, L
  <1>2. CASE main \in {"start", "stop", "undo"}
    <2>1. (main = "start" => n \in 1..7) /\ (main \in {"stop", "undo"} => n \in 1..6)
      BY StartOrderFacts, StopOrderFacts DEF TypeOK
    <2> QED
      BY <1>1, <1>2, <2>1 DEF MainLeft
  <1>3. CASE main \in {"services", "launch"}
    <2>1. (main = "services" => n \in 1..(L + 1)) /\ (main = "launch" => n \in 1..L)
      BY ServiceFacts DEF TypeOK, L
    <2> QED
      BY <1>1, <1>3, <2>1 DEF MainLeft
  <1>4. CASE main \in {"off", "stopapi", "serving", "report", "wire", "bind"}
    BY <1>1, <1>4 DEF MainLeft
  <1> QED
    BY <1>2, <1>3, <1>4 DEF TypeOK

LEMMA MainGoesOn ==
    ASSUME TypeOK, Main
    PROVE  Boot \/ (MainLeft' < MainLeft /\ MainLeft' <= MainLeft)
  <1>1. L \in Nat /\ n \in Nat /\ L' = L
    BY ServiceFacts DEF TypeOK, L
  <1>2. /\ main = "start" => n \in 1..7
        /\ main \in {"stop", "undo"} => n \in 1..6
        /\ main = "services" => n \in 1..(L + 1)
        /\ main = "launch" => n \in 1..L
    BY ServiceFacts, StartOrderFacts, StopOrderFacts DEF TypeOK, L
  <1>3. CASE StartPart
    BY <1>1, <1>2, <1>3, StartOrderFacts DEF StartPart, Go, MainLeft
  <1>4. CASE StartRaises
    BY <1>1, <1>2, <1>4 DEF StartRaises, Go, MainLeft
  <1>5. CASE Bind \/ BindFails
    BY <1>1, <1>5 DEF Bind, BindFails, Go, MainLeft
  <1>6. CASE CheckService
    <2>1. /\ main = "services"
          /\ \/ n = L + 1 /\ main' = "wire"
             \/ n \in 1..L /\ main' = "launch" /\ n' = n
             \/ n \in 1..L /\ main' = "services" /\ n' = n + 1
      BY <1>1, <1>2, <1>6 DEF CheckService, Go, L
    <2>2. CASE main' = "wire"
      BY <1>1, <2>1, <2>2 DEF MainLeft
    <2>3. CASE main' = "launch"
      BY <1>1, <2>1, <2>3 DEF MainLeft
    <2>4. CASE main' = "services"
      BY <1>1, <2>1, <2>4 DEF MainLeft
    <2> QED
      BY <2>1, <2>2, <2>3, <2>4
  <1>7. CASE LaunchService
    <2>1. main = "launch" /\ n \in 1..L /\ main' = "services" /\ n' = n + 1
      BY <1>2, <1>7 DEF LaunchService, Go
    <2> QED
      BY <1>1, <2>1 DEF MainLeft
  <1>8. CASE Wire \/ Report \/ ReportRaises
    BY <1>1, <1>8 DEF Wire, Report, ReportRaises, Go, MainLeft
  <1>9. CASE Interrupt
    <2>1. main' = "stopapi"
      BY <1>9 DEF Interrupt, Go
    <2>2. MainLeft' = 7
      BY <2>1 DEF MainLeft
    <2>3. CASE main = "start"
      BY <1>1, <1>2, <2>2, <2>3 DEF MainLeft
    <2>4. CASE main = "services"
      BY <1>1, <1>2, <2>2, <2>4 DEF MainLeft
    <2>5. CASE main = "launch"
      BY <1>1, <1>2, <2>2, <2>5 DEF MainLeft
    <2>6. CASE main \in {"bind", "wire", "report", "serving"}
      BY <1>1, <2>2, <2>6 DEF MainLeft
    <2>7. CASE main = "undo"
      BY <1>1, <1>2, <2>2, <2>7 DEF MainLeft
    <2> QED
      BY <1>9, <2>3, <2>4, <2>5, <2>6, <2>7 DEF Interrupt, Interruptible
  <1>10. CASE StopApi
    BY <1>10 DEF StopApi, Go, MainLeft
  <1>11. CASE StopPart
    <2>1. \/ main' = "off"
          \/ main' = main /\ n' = n + 1 /\ n < 6
      BY <1>11, StopOrderFacts DEF StopPart, StopGoesOn, Go
    <2>2. main \in {"stop", "undo"} /\ n \in 1..6
      BY <1>2, <1>11 DEF StopPart
    <2> QED
      BY <1>1, <2>1, <2>2 DEF MainLeft
  <1>12. CASE StopRaises
    BY <1>1, <1>2, <1>12 DEF StopRaises, Go, MainLeft
  <1> QED
    BY <1>3, <1>4, <1>5, <1>6, <1>7, <1>8, <1>9, <1>10, <1>11, <1>12 DEF Main

\* A boot makes at most 2 * l + 21 steps to the end of its shutdown, l being the number
\* of services, wherever it is interrupted and whichever of its steps fails; neither the
\* supervisor nor handlers nor services delay it.
THEOREM BootsEndSoon ==
    Spec => /\ [](MainLeft \in 0..(2 * L + 21))
            /\ [][/\ Boot \/ MainLeft' <= MainLeft
                  /\ Main => Boot \/ MainLeft' < MainLeft]_vars
  <1>1. TypeOK /\ TypeOK' /\ [Next]_vars
          => [/\ Boot \/ MainLeft' <= MainLeft
              /\ Main => Boot \/ MainLeft' < MainLeft]_vars
    <2> SUFFICES ASSUME TypeOK, TypeOK', [Next]_vars
                 PROVE  /\ Boot \/ MainLeft' <= MainLeft
                        /\ Main => Boot \/ MainLeft' < MainLeft
      OBVIOUS
    <2>1. MainLeft \in Nat /\ L \in Nat
      BY MainBounded, ServiceFacts DEF L
    <2>2. CASE Main
      BY <2>2, MainGoesOn
    <2>3. CASE ~Main
      <3>1. main' = main /\ n' = n
        BY <2>3 DEF Next, Supervisor, ServerEnds, Test, Scan, Restart, Accept, Handle, ServiceEnds, CooldownEnds, vars
      <3>2. MainLeft' = MainLeft
        BY <3>1 DEF MainLeft, L
      <3> QED
        BY <2>1, <2>3, <3>2
    <2> QED
      BY <2>2, <2>3
  <1> QED
    BY <1>1, MainBounded, TypeCorrect, PTL DEF Spec

\* When the kernel has been shut down the supervisor makes at most 2 * l + 2 more steps,
\* as long as it is not booted again: the main thread does not start it anew.
THEOREM SupervisorEndsSoon ==
    Spec => /\ [](SupervisorLeft \in 0..(2 * L + 2))
            /\ [][~running /\ ~running' =>
                    /\ SupervisorLeft' <= SupervisorLeft
                    /\ Supervisor => SupervisorLeft' < SupervisorLeft]_vars
  <1>1. TypeOK => SupervisorLeft \in 0..(2 * L + 2)
    <2> SUFFICES ASSUME TypeOK PROVE SupervisorLeft \in 0..(2 * L + 2)
      OBVIOUS
    <2>1. L \in Nat /\ k \in 1..(L + 1) /\ (sup = "launch" => k \in 1..L)
      BY ServiceFacts DEF TypeOK, L
    <2>2. sup \in {"none", "test", "scan", "launch", "ended"}
      BY DEF TypeOK
    <2> QED
      BY <2>1, <2>2 DEF SupervisorLeft
  <1>2. TypeOK /\ BootRuns /\ [Next]_vars
          => [~running /\ ~running' =>
                /\ SupervisorLeft' <= SupervisorLeft
                /\ Supervisor => SupervisorLeft' < SupervisorLeft]_vars
    <2> SUFFICES ASSUME TypeOK, BootRuns, [Next]_vars, ~running, ~running'
                 PROVE  /\ SupervisorLeft' <= SupervisorLeft
                        /\ Supervisor => SupervisorLeft' < SupervisorLeft
      OBVIOUS
    <2>1. L \in Nat /\ k \in 1..(L + 1) /\ (sup = "launch" => k \in 1..L) /\ L' = L
      BY ServiceFacts DEF TypeOK, L
    <2>2. CASE Test
      BY <2>1, <2>2 DEF Test, SupervisorLeft
    <2>3. CASE Scan
      <3>1. /\ sup = "scan"
            /\ \/ sup' = "test"
               \/ k \in 1..L /\ sup' = "launch" /\ k' = k
               \/ k \in 1..L /\ sup' = "scan" /\ k' = k + 1
        BY <2>1, <2>3 DEF Scan, L
      <3>2. CASE sup' = "test"
        BY <2>1, <3>1, <3>2 DEF SupervisorLeft
      <3>3. CASE sup' = "launch"
        BY <2>1, <3>1, <3>3 DEF SupervisorLeft
      <3>4. CASE sup' = "scan"
        BY <2>1, <3>1, <3>4 DEF SupervisorLeft
      <3> QED
        BY <3>1, <3>2, <3>3, <3>4
    <2>4. CASE Restart
      <3>1. sup = "launch" /\ k \in 1..L /\ sup' = "scan" /\ k' = k + 1
        BY <2>1, <2>4 DEF Restart
      <3> QED
        BY <2>1, <3>1 DEF SupervisorLeft
    <2>5. CASE ~Supervisor
      <3>1. sup' = sup /\ k' = k
        BY <2>5 DEF BootRuns, Next, Main, Supervisor, vars, Boot, StartPart, StartRaises, Bind, BindFails,
             CheckService, LaunchService, Wire, Report, ReportRaises, Interrupt, Interruptible, StopApi,
             StopPart, StopGoesOn, StopRaises, ServerEnds, Accept, Handle, ServiceEnds, CooldownEnds, supervisor
      <3>2. SupervisorLeft' = SupervisorLeft /\ SupervisorLeft \in Nat
        BY <1>1, <2>1, <3>1 DEF SupervisorLeft
      <3> QED
        BY <2>5, <3>2
    <2> QED
      BY <2>2, <2>3, <2>4, <2>5 DEF Supervisor
  <1>3. Init => BootRuns
    BY DEF Init, BootRuns
  <1> QED
    BY <1>1, <1>2, <1>3, BootRunsStep, TypeCorrect, PTL DEF Spec
=============================================================================
