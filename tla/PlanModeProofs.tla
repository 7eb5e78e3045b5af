--------------------------- MODULE PlanModeProofs ---------------------------
(***************************************************************************)
(* What PlanMode keeps true of a plan and tells the bus about it, for any  *)
(* number of threads, steps and subscribers.                               *)
(***************************************************************************)
EXTENDS PlanMode, TLAPS, WellFoundedInduction

-----------------------------------------------------------------------------
(* Sequences. *)

LEMMA AppendFacts ==
    ASSUME NEW S, NEW h \in Seq(S), NEW e \in S
    PROVE  /\ Append(h, e) \in Seq(S) /\ Len(Append(h, e)) = Len(h) + 1
           /\ Append(h, e) # <<>> /\ Last(Append(h, e)) = e
  BY DEF Last

LEMMA EmptyFact ==
    ASSUME NEW S, NEW s \in Seq(S)
    PROVE  Len(s) = 0 <=> s = <<>>
  OBVIOUS

LEMMA ConcatFacts ==
    ASSUME NEW S, NEW s \in Seq(S), NEW r \in Seq(S)
    PROVE  s \o r \in Seq(S) /\ Len(s \o r) = Len(s) + Len(r)
  OBVIOUS

LEMMA TailFacts ==
    ASSUME NEW S, NEW h \in Seq(S), h # <<>>
    PROVE  /\ Head(h) \in S /\ Tail(h) \in Seq(S) /\ Len(Tail(h)) = Len(h) - 1
           /\ Len(h) = 1 <=> Tail(h) = <<>>
           /\ \A c \in ToSet(h) : c = Head(h) \/ c \in ToSet(Tail(h))
  <1>1. Len(h) \in Nat /\ Len(h) > 0
    OBVIOUS
  <1>2. Head(h) \in S /\ Tail(h) \in Seq(S) /\ Len(Tail(h)) = Len(h) - 1
    BY <1>1
  <1>3. Len(h) = 1 <=> Tail(h) = <<>>
    <2>1. Len(Tail(h)) = 0 <=> Tail(h) = <<>>
      BY <1>2, EmptyFact
    <2>2. Len(h) = 1 <=> Len(Tail(h)) = 0
      BY <1>1, <1>2
    <2> QED
      BY <2>1, <2>2
  <1>4. ASSUME NEW c \in ToSet(h), c # Head(h) PROVE c \in ToSet(Tail(h))
    <2>1. PICK i \in DOMAIN h : c = h[i]
      BY DEF ToSet
    <2>2. i \in 1..Len(h) /\ i # 1
      BY <2>1, <1>4
    <2>3. i - 1 \in 1..Len(Tail(h)) /\ Tail(h)[i - 1] = h[i]
      BY <2>2, <1>1, <1>2
    <2>4. i - 1 \in DOMAIN Tail(h)
      BY <2>3, <1>2
    <2> QED
      BY <2>1, <2>3, <2>4 DEF ToSet
  <1> QED
    BY <1>2, <1>3, <1>4

LEMMA RemoveFacts ==
    ASSUME NEW S, NEW s \in Seq(S), NEW i \in 1..Len(s)
    PROVE  RemoveAt(s, i) \in Seq(S) /\ Len(RemoveAt(s, i)) = Len(s) - 1
  <1>1. SubSeq(s, 1, i - 1) \in Seq(S) /\ Len(SubSeq(s, 1, i - 1)) = i - 1
    OBVIOUS
  <1>2. SubSeq(s, i + 1, Len(s)) \in Seq(S) /\ Len(SubSeq(s, i + 1, Len(s))) = Len(s) - i
    OBVIOUS
  <1>3. RemoveAt(s, i) = SubSeq(s, 1, i - 1) \o SubSeq(s, i + 1, Len(s))
    BY DEF RemoveAt
  <1>4. RemoveAt(s, i) \in Seq(S) /\ Len(RemoveAt(s, i)) = (i - 1) + (Len(s) - i)
    BY <1>1, <1>2, <1>3, ConcatFacts
  <1> QED
    BY <1>4

LEMMA InSubs ==
    ASSUME NEW S, NEW s \in Seq(S), NEW c, s = <<>>
    PROVE  c \notin ToSet(s)
  BY DEF ToSet

-----------------------------------------------------------------------------
(* The event that tells of a status. *)

LEMMA ToldFacts ==
    /\ Told("pending") = "created"
    /\ Told("in_progress") = "started" /\ Told("paused") = "started"
    /\ Told("completed") = "completed" /\ Told("failed") = "failed"
  BY DEF Told

-----------------------------------------------------------------------------
(* Types. *)

LEMMA InitTyped == Init => TypeOK
  BY BusAssumption, PlanAssumption DEF Init, BusInit, TypeOK, BusTypeOK, StepStatus

\* publish() keeps the types of the bus.
LEMMA PublishTyped ==
    ASSUME BusTypeOK, NEW t \in Threads, NEW e \in Events, Publish(t, e)
    PROVE  BusTypeOK'
  <1> USE BusAssumption
  <1>1. history' \in Seq(Events) /\ Len(history') <= HistorySize
    <2>1. CASE Len(history) = HistorySize
      <3>1. history # <<>> /\ history \in Seq(Events) /\ Len(history) \in Nat
        BY <2>1 DEF BusTypeOK
      <3>2. Tail(history) \in Seq(Events) /\ Len(Tail(history)) = Len(history) - 1
        BY <3>1, TailFacts
      <3>3. history' = Append(Tail(history), e)
        BY <2>1 DEF Publish, Remember
      <3>4. history' \in Seq(Events) /\ Len(history') = Len(Tail(history)) + 1
        BY <3>2, <3>3, AppendFacts
      <3> QED
        BY <3>1, <3>2, <3>4, <2>1
    <2>2. CASE Len(history) # HistorySize
      <3>1. history \in Seq(Events) /\ Len(history) \in Nat /\ Len(history) <= HistorySize
        BY DEF BusTypeOK
      <3>2. history' = Append(history, e)
        BY <2>2 DEF Publish, Remember
      <3>3. history' \in Seq(Events) /\ Len(history') = Len(history) + 1
        BY <3>1, <3>2, AppendFacts
      <3> QED
        BY <3>1, <3>3, <2>2
    <2> QED
      BY <2>1, <2>2
  <1>2. subs' \in Seq(Callbacks) /\ Len(subs') <= MaxSubs
    BY DEF Publish, BusTypeOK
  <1>3. todo' \in [Threads -> Seq(Callbacks)] /\ event' \in [Threads -> Events \cup {"none"}]
    BY DEF Publish, BusTypeOK
  <1>4. seen' \in [Callbacks -> Events \cup {"none"}] /\ missed' \in [Callbacks -> BOOLEAN]
    BY DEF Publish, BusTypeOK, Subscribed
  <1> QED
    BY <1>1, <1>2, <1>3, <1>4 DEF BusTypeOK

\* So do the call of a callback and a change of the subscriptions.
LEMMA CallTyped ==
    ASSUME BusTypeOK, NEW t \in Threads, CallNext(t)
    PROVE  BusTypeOK'
  <1>1. todo[t] \in Seq(Callbacks) /\ todo[t] # <<>>
    BY DEF BusTypeOK, CallNext
  <1>2. Head(todo[t]) \in Callbacks /\ Tail(todo[t]) \in Seq(Callbacks)
    BY <1>1, TailFacts
  <1> QED
    BY <1>2 DEF BusTypeOK, CallNext

LEMMA WatchTyped ==
    ASSUME BusTypeOK, NEW c \in Callbacks, Subscribe(c) \/ Unsubscribe(c)
    PROVE  BusTypeOK'
  <1>1. CASE Subscribe(c)
    <2>1. subs' \in Seq(Callbacks) /\ Len(subs') = Len(subs) + 1
      BY <1>1, AppendFacts DEF Subscribe, BusTypeOK
    <2>2. Len(subs') <= MaxSubs
      BY <1>1, <2>1, BusAssumption DEF Subscribe, BusTypeOK
    <2> QED
      BY <1>1, <2>1, <2>2 DEF Subscribe, BusTypeOK
  <1>2. CASE Unsubscribe(c)
    <2>1. PICK i \in 1..Len(subs) : subs' = RemoveAt(subs, i)
      BY <1>2 DEF Unsubscribe
    <2>2. subs' \in Seq(Callbacks) /\ Len(subs') = Len(subs) - 1
      BY <2>1, RemoveFacts DEF BusTypeOK
    <2>3. Len(subs') <= MaxSubs
      BY <2>2, BusAssumption DEF BusTypeOK
    <2> QED
      BY <1>2, <2>2, <2>3 DEF Unsubscribe, BusTypeOK
  <1> QED
    BY <1>1, <1>2

LEMMA AnnounceTyped ==
    ASSUME BusTypeOK, NEW t \in Threads, NEW e \in Events, Announce(t, e)
    PROVE  BusTypeOK' /\ lock' \in Threads \cup {NoThread}
  BY PublishTyped DEF Announce

\* A report makes of its step, and of the plan, what has a status.
LEMMA UpdateTyped ==
    ASSUME TypeOK, NEW t \in Threads, NEW s \in Steps, NEW what \in StepStatus,
           UpdateStep(t, s, what)
    PROVE  /\ BusTypeOK' /\ lock' \in Threads \cup {NoThread}
           /\ status' \in {"none", "pending", "in_progress", "paused", "completed", "failed"}
           /\ step' \in [Steps -> StepStatus] /\ deps' = deps
  <1>1. step' = [step EXCEPT ![s] = what] /\ deps' = deps /\ status' = Outcome(step')
    BY DEF UpdateStep
  <1>2. step' \in [Steps -> StepStatus]
    BY <1>1 DEF TypeOK
  <1>3. status' \in {"none", "pending", "in_progress", "paused", "completed", "failed"}
    BY <1>1 DEF Outcome, TypeOK
  <1>4. BusTypeOK' /\ lock' \in Threads \cup {NoThread}
    <2>1. CASE (\A r \in Steps : step'[r] \in Done) \/ (\E r \in Steps : step'[r] = "failed")
      <3>1. status' \in {"completed", "failed"}
        BY <1>1, <2>1 DEF Outcome
      <3>2. status' \in Events
        BY <3>1, PlanAssumption
      <3>3. Announce(t, status')
        BY <1>1, <2>1 DEF UpdateStep
      <3> QED
        BY <3>2, <3>3, AnnounceTyped DEF TypeOK
    <2>2. CASE ~((\A r \in Steps : step'[r] \in Done) \/ (\E r \in Steps : step'[r] = "failed"))
      <3>1. UNCHANGED <<bus, lock>>
        BY <1>1, <2>2 DEF UpdateStep
      <3> QED
        BY <3>1 DEF TypeOK, BusTypeOK, bus
    <2> QED
      BY <2>1, <2>2
  <1> QED
    BY <1>1, <1>2, <1>3, <1>4

LEMMA StepTyped == TypeOK /\ [Next]_vars => TypeOK'
  <1> SUFFICES ASSUME TypeOK, [Next]_vars PROVE TypeOK'
    OBVIOUS
  <1>1. CASE UNCHANGED vars
    BY <1>1 DEF vars, bus, TypeOK, BusTypeOK
  <1>2. ASSUME NEW t \in Threads, CreatePlan(t) PROVE TypeOK'
    <2>1. BusTypeOK' /\ lock' \in Threads \cup {NoThread}
      BY <1>2, AnnounceTyped, PlanAssumption DEF CreatePlan, TypeOK
    <2>2. deps' \in [Steps -> SUBSET (Steps \cup {Unknown})]
      BY <1>2 DEF CreatePlan
    <2> QED
      BY <1>2, <2>1, <2>2 DEF CreatePlan, TypeOK
  <1>3. ASSUME NEW t \in Threads, StartPlan(t) PROVE TypeOK'
    <2>1. BusTypeOK' /\ lock' \in Threads \cup {NoThread}
      BY <1>3, AnnounceTyped, PlanAssumption DEF StartPlan, TypeOK
    <2> QED
      BY <1>3, <2>1 DEF StartPlan, TypeOK
  <1>4. ASSUME NEW t \in Threads, PausePlan(t) \/ ResumePlan(t) PROVE TypeOK'
    BY <1>4 DEF PausePlan, ResumePlan, TypeOK, BusTypeOK, bus
  <1>5. ASSUME NEW t \in Threads, Deliver(t) PROVE TypeOK'
    BY <1>5, CallTyped DEF Deliver, TypeOK
  <1>6. ASSUME NEW t \in Threads, GetNextStep(t) PROVE TypeOK'
    <2>1. PICK s \in Offered :
            /\ work' = [work EXCEPT ![t] = s]
            /\ disorder' = disorder \cup (IF \E u \in Threads : work[u] = s THEN {"twice"} ELSE {})
      BY <1>6 DEF GetNextStep
    <2>2. s \in Steps
      BY <2>1 DEF Offered
    <2>3. work' \in [Threads -> Steps \cup {NoStep}] /\ disorder' \subseteq {"twice", "uninvited"}
      BY <2>1, <2>2 DEF TypeOK
    <2> QED
      BY <1>6, <2>3 DEF GetNextStep, TypeOK, BusTypeOK, bus
  <1>7. ASSUME NEW t \in Threads, Report(t) PROVE TypeOK'
    <2>1. PICK what \in {"completed", "failed", "skipped"} : UpdateStep(t, work[t], what)
      BY <1>7 DEF Report
    <2>2. work[t] \in Steps /\ what \in StepStatus
      BY <1>7, <2>1 DEF Report, TypeOK, StepStatus
    <2>3. work' \in [Threads -> Steps \cup {NoStep}] /\ disorder' = disorder
      BY <1>7 DEF Report, TypeOK
    <2> QED
      BY <2>1, <2>2, <2>3, UpdateTyped DEF TypeOK
  <1>8. ASSUME NEW t \in Threads, Begin(t) PROVE TypeOK'
    <2>1. work[t] \in Steps /\ "in_progress" \in StepStatus
      BY <1>8 DEF Begin, TypeOK, StepStatus
    <2> QED
      BY <1>8, <2>1, UpdateTyped DEF Begin, TypeOK
  <1>9. ASSUME NEW t \in Threads, ReportUninvited(t) PROVE TypeOK'
    <2>1. PICK s \in Steps, what \in {"in_progress", "completed", "failed", "skipped"} :
            UpdateStep(t, s, what)
      BY <1>9 DEF ReportUninvited
    <2>2. what \in StepStatus
      BY <2>1 DEF StepStatus
    <2> QED
      BY <1>9, <2>1, <2>2, UpdateTyped DEF ReportUninvited, TypeOK
  <1>10. CASE NameSteps
    <2>1. deps' \in [Steps -> SUBSET (Steps \cup {Unknown})]
      BY <1>10, PlanAssumption DEF NameSteps
    <2> QED
      BY <1>10, <2>1 DEF NameSteps, TypeOK, BusTypeOK, bus
  <1>11. ASSUME NEW c \in Callbacks, Watch(c) PROVE TypeOK'
    BY <1>11, WatchTyped DEF Watch, TypeOK
  <1> QED
    BY <1>1, <1>2, <1>3, <1>4, <1>5, <1>6, <1>7, <1>8, <1>9, <1>10, <1>11 DEF Next, GoOn

\* Every variable of the plan, its threads and the bus has a value of its kind.
THEOREM TypeCorrect == Spec => []TypeOK
  BY InitTyped, StepTyped, PTL DEF Spec

-----------------------------------------------------------------------------
(* What the bus tells of the plan. *)

\* A thread calls callbacks while it owns the lock, and then only.
LockOwned == \A t \in Threads : todo[t] # <<>> <=> lock = t

\* It calls them with what tells the status; those it has not called yet are in its list.
Delivered ==
    /\ lock \in Threads => event[lock] = Told(status)
    /\ \A c \in Callbacks : ~missed[c] =>
            seen[c] = Told(status) \/ (lock \in Threads /\ c \in ToSet(todo[lock]))

TellInv == TypeOK /\ LockOwned /\ Delivered /\ HistoryTells

\* An announcement puts the bus in step with the status it announces.
LEMMA AnnounceTells ==
    ASSUME TellInv, TypeOK', NEW t \in Threads, NEW e \in Events, Enter(t), Announce(t, e),
           e = Told(status)'
    PROVE  TellInv'
  <1> USE PlanAssumption
  <1>1. todo' = [todo EXCEPT ![t] = subs] /\ todo \in [Threads -> Seq(Callbacks)]
    BY DEF Announce, Publish, TellInv, TypeOK, BusTypeOK
  <1>2. \A u \in Threads : todo[u] = <<>>
    BY DEF Enter, TellInv, LockOwned
  <1>3. lock' = (IF subs = <<>> THEN NoThread ELSE t)
    BY DEF Announce
  <1>4. LockOwned'
    BY <1>1, <1>2, <1>3 DEF LockOwned
  <1>5. event' = [event EXCEPT ![t] = IF subs = <<>> THEN "none" ELSE e]
        /\ event \in [Threads -> Events \cup {"none"}]
    BY DEF Announce, Publish, TellInv, TypeOK, BusTypeOK
  <1>6. lock' \in Threads => lock' = t /\ subs # <<>>
    BY <1>3
  <1>7. lock' \in Threads => event'[lock'] = Told(status)'
    BY <1>5, <1>6
  <1>8. ASSUME NEW c \in Callbacks, ~missed'[c]
        PROVE  lock' \in Threads /\ c \in ToSet(todo'[lock'])
    <2>1. c \in ToSet(subs)
      BY <1>8 DEF Announce, Publish, Subscribed
    <2>2. subs # <<>>
      BY <2>1 DEF ToSet
    <2> QED
      BY <1>1, <1>3, <2>1, <2>2
  <1>9. Delivered'
    BY <1>7, <1>8 DEF Delivered
  <1>10. history' # <<>> /\ Last(history') = e
    <2>1. PICK h \in Seq(Events) : history' = Append(h, e)
      <3>1. history \in Seq(Events) /\ Len(history) \in Nat
        BY DEF TellInv, TypeOK, BusTypeOK
      <3>2. CASE Len(history) = HistorySize
        <4>1. history # <<>>
          BY <3>1, <3>2, BusAssumption
        <4>2. Tail(history) \in Seq(Events)
          BY <3>1, <4>1, TailFacts
        <4> QED
          BY <3>2, <4>2 DEF Announce, Publish, Remember
      <3>3. CASE Len(history) # HistorySize
        BY <3>1, <3>3 DEF Announce, Publish, Remember
      <3> QED
        BY <3>2, <3>3
    <2> QED
      BY <2>1, AppendFacts
  <1>11. HistoryTells'
    BY <1>10 DEF HistoryTells
  <1> QED
    BY <1>4, <1>9, <1>11 DEF TellInv

\* What leaves the bus, the lock and the told status alone keeps them in step.
LEMMA QuietTells ==
    ASSUME TellInv, TypeOK', UNCHANGED <<bus, lock>>,
           Told(status)' = Told(status), status' # "none" => status # "none"
    PROVE  TellInv'
  <1>1. LockOwned'
    BY DEF TellInv, LockOwned, bus
  <1>2. Delivered'
    BY DEF TellInv, Delivered, bus
  <1>3. HistoryTells'
    BY DEF TellInv, HistoryTells, bus
  <1> QED
    BY <1>1, <1>2, <1>3 DEF TellInv

LEMMA UpdateTells ==
    ASSUME TellInv, TypeOK', NEW t \in Threads, NEW s \in Steps, NEW what \in StepStatus,
           UpdateStep(t, s, what)
    PROVE  TellInv'
  <1>1. step' = [step EXCEPT ![s] = what] /\ status' = Outcome(step') /\ Enter(t) /\ status # "none"
    BY DEF UpdateStep
  <1>2. CASE (\A r \in Steps : step'[r] \in Done) \/ (\E r \in Steps : step'[r] = "failed")
    <2>1. status' \in {"completed", "failed"}
      BY <1>1, <1>2 DEF Outcome
    <2>2. status' \in Events /\ status' = Told(status)'
      BY <2>1, PlanAssumption DEF Told
    <2>3. Announce(t, status')
      BY <1>1, <1>2 DEF UpdateStep
    <2> QED
      BY <1>1, <2>2, <2>3, AnnounceTells
  <1>3. CASE ~((\A r \in Steps : step'[r] \in Done) \/ (\E r \in Steps : step'[r] = "failed"))
    <2>1. UNCHANGED <<bus, lock>>
      BY <1>1, <1>3 DEF UpdateStep
    <2>2. status' = status
      BY <1>1, <1>3 DEF Outcome
    <2>3. Told(status)' = Told(status)
      BY <2>2 DEF Told
    <2> QED
      BY <2>1, <2>2, <2>3, QuietTells
  <1> QED
    BY <1>2, <1>3

\* The call of a callback.
LEMMA DeliverTells ==
    ASSUME TellInv, TypeOK', NEW t \in Threads, Deliver(t)
    PROVE  TellInv'
  <1> USE PlanAssumption
  <1>1. todo[t] \in Seq(Callbacks) /\ todo[t] # <<>> /\ lock = t
    BY DEF Deliver, CallNext, TellInv, TypeOK, BusTypeOK, LockOwned
  <1>2. /\ todo' = [todo EXCEPT ![t] = Tail(todo[t])]
        /\ seen' = [seen EXCEPT ![Head(todo[t])] = event[t]]
        /\ event' = [event EXCEPT ![t] = IF Len(todo[t]) = 1 THEN "none" ELSE event[t]]
        /\ lock' = (IF Len(todo[t]) = 1 THEN NoThread ELSE lock)
        /\ UNCHANGED <<history, missed, status>>
    BY DEF Deliver, CallNext
  <1>3. /\ todo \in [Threads -> Seq(Callbacks)] /\ seen \in [Callbacks -> Events \cup {"none"}]
        /\ event \in [Threads -> Events \cup {"none"}]
    BY DEF TellInv, TypeOK, BusTypeOK
  <1>4. /\ Len(todo[t]) = 1 <=> Tail(todo[t]) = <<>>
        /\ Head(todo[t]) \in Callbacks
        /\ \A c \in ToSet(todo[t]) : c = Head(todo[t]) \/ c \in ToSet(Tail(todo[t]))
    BY <1>1, TailFacts
  <1>5. event[t] = Told(status) /\ Told(status)' = Told(status)
    BY <1>1, <1>2 DEF TellInv, Delivered, Told
  <1>6. LockOwned'
    <2>1. ASSUME NEW u \in Threads PROVE todo'[u] # <<>> <=> lock' = u
      <3>1. CASE u = t
        BY <3>1, <1>1, <1>2, <1>3, <1>4
      <3>2. CASE u # t
        BY <3>2, <1>1, <1>2, <1>3 DEF TellInv, LockOwned
      <3> QED
        BY <3>1, <3>2
    <2> QED
      BY <2>1 DEF LockOwned
  <1>7. lock' \in Threads => event'[lock'] = Told(status)'
    BY <1>1, <1>2, <1>3, <1>5
  <1>8. ASSUME NEW c \in Callbacks, ~missed'[c]
        PROVE  seen'[c] = Told(status)' \/ (lock' \in Threads /\ c \in ToSet(todo'[lock']))
    <2>1. seen[c] = Told(status) \/ c \in ToSet(todo[t])
      BY <1>1, <1>2, <1>8 DEF TellInv, Delivered
    <2>2. CASE c = Head(todo[t])
      BY <2>2, <1>2, <1>3, <1>5
    <2>3. CASE c # Head(todo[t]) /\ seen[c] = Told(status)
      BY <2>3, <1>2, <1>3, <1>5
    <2>4. CASE c # Head(todo[t]) /\ c \in ToSet(todo[t])
      <3>1. c \in ToSet(Tail(todo[t]))
        BY <2>4, <1>4
      <3>2. Tail(todo[t]) # <<>>
        BY <3>1 DEF ToSet
      <3> QED
        BY <3>1, <3>2, <1>1, <1>2, <1>3, <1>4
    <2> QED
      BY <2>1, <2>2, <2>3, <2>4
  <1>9. Delivered'
    BY <1>7, <1>8 DEF Delivered
  <1>10. HistoryTells'
    BY <1>2, <1>5 DEF TellInv, HistoryTells
  <1> QED
    BY <1>6, <1>9, <1>10 DEF TellInv

LEMMA WatchTells ==
    ASSUME TellInv, TypeOK', NEW c \in Callbacks, Watch(c)
    PROVE  TellInv'
  <1>1. UNCHANGED <<history, todo, event, seen, missed, lock, status>>
    BY DEF Watch, Subscribe, Unsubscribe
  <1>2. Told(status)' = Told(status)
    BY <1>1 DEF Told
  <1>3. LockOwned' /\ Delivered' /\ HistoryTells'
    BY <1>1, <1>2 DEF TellInv, LockOwned, Delivered, HistoryTells
  <1> QED
    BY <1>3 DEF TellInv

LEMMA InitTells == Init => TellInv
  BY InitTyped, PlanAssumption DEF Init, BusInit, TellInv, LockOwned, Delivered, HistoryTells

LEMMA StepTells == TellInv /\ [Next]_vars => TellInv'
  <1> SUFFICES ASSUME TellInv, [Next]_vars PROVE TellInv'
    OBVIOUS
  <1>0. TypeOK /\ TypeOK'
    BY StepTyped DEF TellInv
  <1>1. CASE UNCHANGED vars
    <2>1. UNCHANGED <<bus, lock>> /\ status' = status
      BY <1>1 DEF vars
    <2>2. Told(status)' = Told(status)
      BY <2>1 DEF Told
    <2> QED
      BY <1>0, <2>1, <2>2, QuietTells
  <1>2. ASSUME NEW t \in Threads, CreatePlan(t) PROVE TellInv'
    <2>1. "created" \in Events /\ Told(status)' = "created"
      BY <1>2, PlanAssumption DEF CreatePlan, Told
    <2> QED
      BY <1>0, <1>2, <2>1, AnnounceTells DEF CreatePlan
  <1>3. ASSUME NEW t \in Threads, StartPlan(t) PROVE TellInv'
    <2>1. "started" \in Events /\ Told(status)' = "started"
      BY <1>3, PlanAssumption DEF StartPlan, Told
    <2> QED
      BY <1>0, <1>3, <2>1, AnnounceTells DEF StartPlan
  <1>4. ASSUME NEW t \in Threads, PausePlan(t) \/ ResumePlan(t) PROVE TellInv'
    <2>1. UNCHANGED <<bus, lock>> /\ status # "none" /\ Told(status)' = Told(status)
      BY <1>4 DEF PausePlan, ResumePlan, Told
    <2> QED
      BY <1>0, <2>1, QuietTells
  <1>5. ASSUME NEW t \in Threads, Deliver(t) PROVE TellInv'
    BY <1>0, <1>5, DeliverTells
  <1>6. ASSUME NEW t \in Threads, GetNextStep(t) PROVE TellInv'
    <2>1. UNCHANGED <<bus, lock>> /\ status' = status /\ Told(status)' = Told(status)
      BY <1>6 DEF GetNextStep, Told
    <2> QED
      BY <1>0, <2>1, QuietTells
  <1>7. ASSUME NEW t \in Threads, Report(t) PROVE TellInv'
    <2>1. PICK what \in {"completed", "failed", "skipped"} : UpdateStep(t, work[t], what)
      BY <1>7 DEF Report
    <2>2. work[t] \in Steps /\ what \in StepStatus
      BY <1>0, <1>7, <2>1 DEF Report, TypeOK, StepStatus
    <2> QED
      BY <1>0, <2>1, <2>2, UpdateTells
  <1>8. ASSUME NEW t \in Threads, Begin(t) PROVE TellInv'
    <2>1. work[t] \in Steps /\ "in_progress" \in StepStatus
      BY <1>0, <1>8 DEF Begin, TypeOK, StepStatus
    <2> QED
      BY <1>0, <1>8, <2>1, UpdateTells DEF Begin
  <1>9. ASSUME NEW t \in Threads, ReportUninvited(t) PROVE TellInv'
    <2>1. PICK s \in Steps, what \in {"in_progress", "completed", "failed", "skipped"} :
            UpdateStep(t, s, what)
      BY <1>9 DEF ReportUninvited
    <2>2. what \in StepStatus
      BY <2>1 DEF StepStatus
    <2> QED
      BY <1>0, <2>1, <2>2, UpdateTells
  <1>10. CASE NameSteps
    <2>1. UNCHANGED <<bus, lock>> /\ status' = status /\ Told(status)' = Told(status)
      BY <1>10 DEF NameSteps, Told
    <2> QED
      BY <1>0, <2>1, QuietTells
  <1>11. ASSUME NEW c \in Callbacks, Watch(c) PROVE TellInv'
    BY <1>0, <1>11, WatchTells
  <1> QED
    BY <1>1, <1>2, <1>3, <1>4, <1>5, <1>6, <1>7, <1>8, <1>9, <1>10, <1>11 DEF Next, GoOn

\* The history of the bus ends with the event that tells the status of the plan.
THEOREM HistoryIsCurrent == Spec => []HistoryTells
  <1>1. TellInv => HistoryTells
    BY DEF TellInv
  <1> QED
    BY <1>1, InitTells, StepTells, PTL DEF Spec

\* Between the calls of the methods a subscriber that was there at the last event
\* knows the status of the plan.
THEOREM SubscribersKnow == Spec => []WatcherKnows
  <1>1. TellInv => WatcherKnows
    BY PlanAssumption DEF TellInv, Delivered, WatcherKnows
  <1> QED
    BY <1>1, InitTells, StepTells, PTL DEF Spec

-----------------------------------------------------------------------------
(* Order, as long as no step is given to two threads and nobody reports uninvited. *)

Open == {"pending", "in_progress"}

DepsMet(s) == \A d \in deps[s] : d \in Steps /\ step[d] = "completed"

\* The step of a thread is open, has what it depends on, and is that of no other thread.
Owns ==
    \A t \in Threads : work[t] # NoStep =>
        /\ step[work[t]] \in Open /\ DepsMet(work[t])
        /\ \A u \in Threads : work[u] = work[t] => u = t

\* Nothing has happened to a plan before it is started.
Fresh ==
    status \in {"none", "pending"} =>
        /\ \A s \in Steps : step[s] = "pending"
        /\ \A t \in Threads : work[t] = NoStep

TakenIsMet == \A s \in Steps : step[s] # "pending" => DepsMet(s)

\* A completed plan has no open step, a failed plan a failed one.
Outcomes ==
    /\ status = "completed" => \A s \in Steps : step[s] \in Done
    /\ status = "failed" => \E s \in Steps : step[s] = "failed"

Order == Owns /\ Fresh /\ TakenIsMet /\ Outcomes

Orderly == TypeOK /\ (disorder = {} => Order)

\* A thread reports on the step it was given.
LEMMA UpdateOrder ==
    ASSUME TypeOK, TypeOK', Order, NEW t \in Threads, work[t] # NoStep,
           NEW what \in StepStatus \ {"pending"}, UpdateStep(t, work[t], what),
           \/ what \in Open /\ work' = work
           \/ work' = [work EXCEPT ![t] = NoStep]
    PROVE  Order'
  <1> DEFINE s == work[t]
  <1>1. s \in Steps /\ step[s] \in Open /\ DepsMet(s) /\ \A u \in Threads : work[u] = s => u = t
    BY DEF TypeOK, Order, Owns
  <1>2. step' = [step EXCEPT ![s] = what] /\ step \in [Steps -> StepStatus] /\ deps' = deps
    BY DEF UpdateStep, TypeOK
  <1> HIDE DEF s
  <1>3. \A d \in Steps : step[d] = "completed" => step'[d] = "completed"
    BY <1>1, <1>2 DEF Open
  <1>4. \A r : DepsMet(r) => DepsMet(r)'
    BY <1>2, <1>3 DEF DepsMet
  <1>5. status' = Outcome(step') /\ status \notin {"none", "pending"}
    <2>1. status' = Outcome(step')
      BY <1>2 DEF UpdateStep, s
    <2>2. status \notin {"none", "pending"}
      BY DEF Order, Fresh
    <2> QED
      BY <2>1, <2>2
  <1>6. Owns'
    <2>1. ASSUME NEW u \in Threads, NEW w \in Steps, work'[u] = w
          PROVE  /\ step'[w] \in Open /\ DepsMet(w)'
                 /\ \A v \in Threads : work'[v] = w => v = u
      <3>0. work \in [Threads -> Steps \cup {NoStep}]
        BY DEF TypeOK
      <3>1. work[u] = w /\ w # NoStep
        BY <2>1, <3>0, PlanAssumption
      <3>2. step[w] \in Open /\ DepsMet(w) /\ \A v \in Threads : work[v] = w => v = u
        BY <3>1 DEF Order, Owns
      <3>3. DepsMet(w)'
        BY <3>2, <1>4
      <3>4. step'[w] \in Open
        <4>1. CASE u = t
          <5>1. w = s
            BY <4>1, <3>1 DEF s
          <5>2. what \in Open
            BY <4>1, <2>1, <3>0, <3>1
          <5> QED
            BY <5>1, <5>2, <1>1, <1>2
        <4>2. CASE u # t
          BY <4>2, <3>1, <3>2, <1>1, <1>2
        <4> QED
          BY <4>1, <4>2
      <3>5. \A v \in Threads : work'[v] = w => v = u
        BY <3>0, <3>1, <3>2
      <3> QED
        BY <3>3, <3>4, <3>5
    <2>2. \A u \in Threads : work'[u] # NoStep => work'[u] \in Steps
      BY DEF TypeOK
    <2> QED
      BY <2>1, <2>2 DEF Owns, DepsMet
  <1>7. status' \notin {"none", "pending"}
    BY <1>5 DEF Outcome
  <1>8. TakenIsMet'
    BY <1>1, <1>2, <1>4 DEF Order, TakenIsMet
  <1>9. Outcomes'
    <2>1. status # "completed"
      BY <1>1 DEF Order, Outcomes, Open, Done
    <2>2. status = "failed" => \E r \in Steps : step'[r] = "failed"
      BY <1>1, <1>2 DEF Order, Outcomes, Open
    <2> QED
      BY <1>5, <2>1, <2>2 DEF Outcomes, Outcome
  <1> QED
    BY <1>6, <1>7, <1>8, <1>9 DEF Order, Fresh

\* What changes none of the variables it speaks of keeps the order.
LEMMA SameOrder ==
    ASSUME Orderly, TypeOK', UNCHANGED <<status, deps, step, work, disorder>>
    PROVE  Orderly'
  BY DEF Orderly, Order, Owns, Fresh, TakenIsMet, Outcomes, DepsMet

LEMMA InitOrderly == Init => Orderly
  BY InitTyped DEF Init, Orderly, Order, Owns, Fresh, TakenIsMet, Outcomes

LEMMA StepOrderly == Orderly /\ [Next]_vars => Orderly'
  <1> SUFFICES ASSUME Orderly, [Next]_vars PROVE Orderly'
    OBVIOUS
  <1>0. TypeOK /\ TypeOK'
    BY StepTyped DEF Orderly
  <1>1. CASE UNCHANGED vars
    BY <1>0, <1>1, SameOrder DEF vars
  <1>2. ASSUME NEW t \in Threads, CreatePlan(t) PROVE Orderly'
    <2>1. status = "none" /\ status' = "pending" /\ UNCHANGED <<step, work, disorder>>
      BY <1>2 DEF CreatePlan
    <2>2. disorder' = {} => Order'
      BY <2>1 DEF Orderly, Order, Owns, Fresh, TakenIsMet, Outcomes
    <2> QED
      BY <1>0, <2>2 DEF Orderly
  <1>3. ASSUME NEW t \in Threads, StartPlan(t) \/ PausePlan(t) \/ ResumePlan(t) PROVE Orderly'
    <2>1. status' \in {"in_progress", "paused"} /\ UNCHANGED <<deps, step, work, disorder>>
      BY <1>3 DEF StartPlan, PausePlan, ResumePlan
    <2>2. disorder' = {} => Order'
      BY <2>1 DEF Orderly, Order, Owns, Fresh, TakenIsMet, Outcomes, DepsMet
    <2> QED
      BY <1>0, <2>2 DEF Orderly
  <1>4. ASSUME NEW t \in Threads, Deliver(t) PROVE Orderly'
    BY <1>0, <1>4, SameOrder DEF Deliver
  <1>5. ASSUME NEW t \in Threads, GetNextStep(t) PROVE Orderly'
    <2>1. PICK s \in Offered :
            /\ work' = [work EXCEPT ![t] = s]
            /\ disorder' = disorder \cup (IF \E u \in Threads : work[u] = s THEN {"twice"} ELSE {})
      BY <1>5 DEF GetNextStep
    <2>2. s \in Steps /\ step[s] = "pending" /\ DepsMet(s)
      BY <2>1 DEF Offered, Ready, DepsMet
    <2>3. status = "in_progress" /\ UNCHANGED <<status, deps, step>>
      BY <1>5 DEF GetNextStep
    <2>4. ASSUME disorder' = {} PROVE Order'
      <3>1. disorder = {} /\ \A u \in Threads : work[u] # s
        BY <2>1, <2>4
      <3>2. Order /\ work \in [Threads -> Steps \cup {NoStep}]
        BY <1>0, <3>1 DEF Orderly, TypeOK
      <3>3. ASSUME NEW u \in Threads, NEW w \in Steps, work'[u] = w
            PROVE  /\ step'[w] \in Open /\ DepsMet(w)'
                   /\ \A v \in Threads : work'[v] = w => v = u
        <4>1. DepsMet(w)' <=> DepsMet(w)
          BY <2>3 DEF DepsMet
        <4>2. CASE u = t
          BY <4>1, <4>2, <3>3, <2>1, <2>2, <2>3, <3>1, <3>2 DEF Open
        <4>3. CASE u # t
          <5>1. work[u] = w /\ w # NoStep /\ w # s
            BY <4>3, <3>3, <2>1, <3>1, <3>2, PlanAssumption
          <5>2. step[w] \in Open /\ DepsMet(w) /\ \A v \in Threads : work[v] = w => v = u
            BY <5>1, <3>2 DEF Order, Owns
          <5> QED
            BY <4>1, <5>1, <5>2, <2>1, <2>3, <3>2
        <4> QED
          BY <4>2, <4>3
      <3>4. Owns'
        <4>1. \A u \in Threads : work'[u] # NoStep => work'[u] \in Steps
          BY <1>0 DEF TypeOK
        <4> QED
          BY <4>1, <3>3 DEF Owns, DepsMet
      <3>5. Fresh' /\ TakenIsMet' /\ Outcomes'
        BY <2>3, <3>2 DEF Order, Fresh, TakenIsMet, Outcomes, DepsMet
      <3> QED
        BY <3>4, <3>5 DEF Order
    <2> QED
      BY <1>0, <2>4 DEF Orderly
  <1>6. ASSUME NEW t \in Threads, Report(t) PROVE Orderly'
    <2>1. PICK what \in {"completed", "failed", "skipped"} : UpdateStep(t, work[t], what)
      BY <1>6 DEF Report
    <2>2. /\ work[t] # NoStep /\ work' = [work EXCEPT ![t] = NoStep] /\ disorder' = disorder
          /\ what \in StepStatus \ {"pending"}
      BY <1>6 DEF Report, StepStatus
    <2>3. disorder' = {} => Order'
      BY <1>0, <2>1, <2>2, UpdateOrder DEF Orderly
    <2> QED
      BY <1>0, <2>3 DEF Orderly
  <1>7. ASSUME NEW t \in Threads, Begin(t) PROVE Orderly'
    <2>1. /\ UpdateStep(t, work[t], "in_progress") /\ work[t] # NoStep
          /\ work' = work /\ disorder' = disorder
          /\ "in_progress" \in StepStatus \ {"pending"} /\ "in_progress" \in Open
      BY <1>7 DEF Begin, StepStatus, Open
    <2>2. disorder' = {} => Order'
      BY <1>0, <2>1, UpdateOrder DEF Orderly
    <2> QED
      BY <1>0, <2>2 DEF Orderly
  <1>8. ASSUME NEW t \in Threads, ReportUninvited(t) PROVE Orderly'
    BY <1>0, <1>8 DEF ReportUninvited, Orderly
  <1>9. CASE NameSteps
    <2>1. status = "pending" /\ UNCHANGED <<status, step, work, disorder>>
      BY <1>9 DEF NameSteps
    <2>2. disorder' = {} => Order'
      BY <2>1 DEF Orderly, Order, Owns, Fresh, TakenIsMet, Outcomes
    <2> QED
      BY <1>0, <2>2 DEF Orderly
  <1>10. ASSUME NEW c \in Callbacks, Watch(c) PROVE Orderly'
    BY <1>0, <1>10, SameOrder DEF Watch
  <1> QED
    BY <1>1, <1>2, <1>3, <1>4, <1>5, <1>6, <1>7, <1>8, <1>9, <1>10 DEF Next, GoOn

\* A step that was taken has its dependencies completed, for good.
THEOREM TakenInOrder == Spec => []DependenciesFirst
  <1>1. Orderly => DependenciesFirst
    <2> SUFFICES ASSUME Orderly, disorder = {} PROVE
            /\ \A s \in Steps : step[s] # "pending" => DepsMet(s)
            /\ \A t \in Threads : work[t] # NoStep => DepsMet(work[t])
      BY DEF DependenciesFirst, DepsMet
    <2> QED
      BY DEF Orderly, Order, Owns, TakenIsMet
  <1> QED
    BY <1>1, InitOrderly, StepOrderly, PTL DEF Spec

\* A completed plan is done: nothing of it is open and nobody works on it.
THEOREM CompletedIsDone == Spec => []CompletedMeansDone
  <1>1. Orderly => CompletedMeansDone
    <2> SUFFICES ASSUME Orderly, disorder = {}, status = "completed"
                 PROVE  /\ \A s \in Steps : step[s] \in Done
                        /\ \A t \in Threads : work[t] = NoStep
      BY DEF CompletedMeansDone
    <2>1. \A s \in Steps : step[s] \in Done
      BY DEF Orderly, Order, Outcomes
    <2>2. ASSUME NEW t \in Threads, work[t] # NoStep PROVE FALSE
      BY <2>1, <2>2 DEF Orderly, Order, Owns, TypeOK, Open, Done
    <2> QED
      BY <2>1, <2>2
  <1> QED
    BY <1>1, InitOrderly, StepOrderly, PTL DEF Spec

\* A late report of a thread that was at work changes no outcome.
THEOREM OutcomesStay == Spec => OutcomeIsFinal
  <1>1. ASSUME Orderly, [Next]_vars, status \in {"completed", "failed"}, disorder' = {}
        PROVE  status' = status
    <2>0. TypeOK /\ (disorder = {} => Order)
      BY <1>1 DEF Orderly
    <2>1. ASSUME NEW t \in Threads, NEW what, work[t] # NoStep, disorder = {},
                 UpdateStep(t, work[t], what)
          PROVE  status' = status
      <3>1. work[t] \in Steps /\ step[work[t]] \in Open
        BY <2>0, <2>1 DEF Order, Owns, TypeOK
      <3>2. status = "failed"
        BY <1>1, <2>0, <2>1, <3>1 DEF Order, Outcomes, Open, Done
      <3>3. PICK r \in Steps : step[r] = "failed"
        BY <2>0, <2>1, <3>2 DEF Order, Outcomes
      <3>4. step' = [step EXCEPT ![work[t]] = what] /\ status' = Outcome(step')
            /\ step \in [Steps -> StepStatus]
        BY <2>0, <2>1 DEF UpdateStep, TypeOK
      <3>5. step'[r] = "failed"
        BY <3>1, <3>3, <3>4 DEF Open
      <3> QED
        BY <3>2, <3>4, <3>5 DEF Outcome, Done
    <2>2. CASE UNCHANGED vars
      BY <2>2 DEF vars
    <2>3. ASSUME NEW t \in Threads, CreatePlan(t) \/ StartPlan(t) \/ PausePlan(t) \/ ResumePlan(t)
          PROVE  FALSE
      BY <1>1, <2>3 DEF CreatePlan, StartPlan, PausePlan, ResumePlan
    <2>4. ASSUME NEW t \in Threads, Deliver(t) \/ GetNextStep(t) PROVE status' = status
      BY <2>4 DEF Deliver, GetNextStep
    <2>5. ASSUME NEW t \in Threads, Report(t) \/ Begin(t) PROVE status' = status
      BY <1>1, <2>1, <2>5 DEF Report, Begin
    <2>6. ASSUME NEW t \in Threads, ReportUninvited(t) PROVE FALSE
      BY <1>1, <2>6 DEF ReportUninvited
    <2>7. CASE NameSteps
      BY <2>7 DEF NameSteps
    <2>8. ASSUME NEW c \in Callbacks, Watch(c) PROVE status' = status
      BY <2>8 DEF Watch
    <2> QED
      BY <1>1, <2>2, <2>3, <2>4, <2>5, <2>6, <2>7, <2>8 DEF Next, GoOn
  <1>2. Orderly /\ [Next]_vars
            => [(status \in {"completed", "failed"} /\ disorder' = {}) => status' = status]_vars
    BY <1>1
  <1> QED
    BY <1>2, InitOrderly, StepOrderly, PTL DEF Spec, OutcomeIsFinal

-----------------------------------------------------------------------------
(* A plan in progress goes on, as long as nobody reports uninvited. *)

\* In a plan that is not over no step has failed, some are open, and a step that has begun
\* is worked on, by one thread or by two.
Attended ==
    "uninvited" \notin disorder =>
        /\ Fresh
        /\ status \in {"in_progress", "paused"} =>
                /\ \A s \in Steps : step[s] # "failed"
                /\ Steps # {} => \E s \in Steps : step[s] \in Open
        /\ \A s \in Steps : step[s] = "in_progress" => \E t \in Threads : work[t] = s

AttendedInv == TypeOK /\ Attended

\* A report leaves a plan that goes on without a failed step, and with an open one.
LEMMA OutcomeFacts ==
    ASSUME NEW new \in [Steps -> StepStatus], Outcome(new) \in {"in_progress", "paused"}
    PROVE  /\ \A s \in Steps : new[s] # "failed"
           /\ \E s \in Steps : new[s] \in Open
  <1>1. ~(\A s \in Steps : new[s] \in Done) /\ ~(\E s \in Steps : new[s] = "failed")
    BY DEF Outcome
  <1> QED
    BY <1>1 DEF StepStatus, Done, Open

LEMMA UpdateAttended ==
    ASSUME AttendedInv, TypeOK', "uninvited" \notin disorder, NEW t \in Threads, work[t] # NoStep,
           NEW what \in StepStatus, UpdateStep(t, work[t], what),
           \/ work' = work
           \/ what # "in_progress" /\ work' = [work EXCEPT ![t] = NoStep]
    PROVE  Attended'
  <1> DEFINE s == work[t]
  <1>1. s \in Steps /\ work \in [Threads -> Steps \cup {NoStep}]
    BY DEF AttendedInv, TypeOK
  <1>2. step' = [step EXCEPT ![s] = what] /\ step \in [Steps -> StepStatus] /\ status' = Outcome(step')
    BY DEF UpdateStep, AttendedInv, TypeOK
  <1>3. Fresh'
    <2>1. status \notin {"none", "pending"}
      BY DEF AttendedInv, Attended, Fresh
    <2> QED
      BY <1>2, <2>1 DEF Outcome, Fresh
  <1>4. status' \in {"in_progress", "paused"} =>
            /\ \A r \in Steps : step'[r] # "failed"
            /\ \E r \in Steps : step'[r] \in Open
    <2>1. step' \in [Steps -> StepStatus]
      BY DEF TypeOK
    <2> QED
      BY <1>2, <2>1, OutcomeFacts
  <1>5. ASSUME NEW r \in Steps, step'[r] = "in_progress" PROVE \E u \in Threads : work'[u] = r
    <2>1. CASE r = s
      <3>1. what = "in_progress"
        BY <1>1, <1>2, <1>5, <2>1
      <3> QED
        BY <2>1, <3>1
    <2>2. CASE r # s
      <3>1. step[r] = "in_progress"
        BY <1>1, <1>2, <1>5, <2>2
      <3>2. PICK u \in Threads : work[u] = r
        BY <3>1 DEF AttendedInv, Attended
      <3>3. u # t
        BY <2>2, <3>2
      <3> QED
        BY <1>1, <3>2, <3>3
    <2> QED
      BY <2>1, <2>2
  <1> QED
    BY <1>3, <1>4, <1>5 DEF Attended

LEMMA SameAttended ==
    ASSUME AttendedInv, UNCHANGED <<status, step, work, disorder>>
    PROVE  Attended'
  BY DEF AttendedInv, Attended, Fresh

LEMMA InitAttended == Init => AttendedInv
  BY InitTyped DEF Init, AttendedInv, Attended, Fresh

LEMMA StepAttended == AttendedInv /\ [Next]_vars => AttendedInv'
  <1> SUFFICES ASSUME AttendedInv, [Next]_vars PROVE Attended'
    BY StepTyped DEF AttendedInv
  <1>0. TypeOK /\ TypeOK'
    BY StepTyped DEF AttendedInv
  <1>1. CASE UNCHANGED vars
    BY <1>1, SameAttended DEF vars
  <1>2. ASSUME NEW t \in Threads, CreatePlan(t) PROVE Attended'
    BY <1>2 DEF CreatePlan, AttendedInv, Attended, Fresh
  <1>3. ASSUME NEW t \in Threads, StartPlan(t) PROVE Attended'
    <2>1. status = "pending" /\ status' = "in_progress" /\ UNCHANGED <<step, work, disorder>>
      BY <1>3 DEF StartPlan
    <2> QED
      BY <2>1 DEF AttendedInv, Attended, Fresh, Open
  <1>4. ASSUME NEW t \in Threads, PausePlan(t) \/ ResumePlan(t) PROVE Attended'
    <2>1. /\ status \in {"in_progress", "paused"} /\ status' \in {"in_progress", "paused"}
          /\ UNCHANGED <<step, work, disorder>>
      BY <1>4 DEF PausePlan, ResumePlan
    <2> QED
      BY <2>1 DEF AttendedInv, Attended, Fresh
  <1>5. ASSUME NEW t \in Threads, Deliver(t) PROVE Attended'
    BY <1>5, SameAttended DEF Deliver
  <1>6. ASSUME NEW t \in Threads, GetNextStep(t) PROVE Attended'
    <2>1. PICK s \in Offered :
            /\ work' = [work EXCEPT ![t] = s]
            /\ disorder' = disorder \cup (IF \E u \in Threads : work[u] = s THEN {"twice"} ELSE {})
      BY <1>6 DEF GetNextStep
    <2>2. status = "in_progress" /\ work[t] = NoStep /\ UNCHANGED <<status, step>>
      BY <1>6 DEF GetNextStep
    <2>3. ASSUME "uninvited" \notin disorder', NEW r \in Steps, step'[r] = "in_progress"
          PROVE  \E u \in Threads : work'[u] = r
      <3>1. PICK u \in Threads : work[u] = r
        BY <2>1, <2>2, <2>3 DEF AttendedInv, Attended
      <3>2. u # t
        BY <2>2, <3>1, PlanAssumption
      <3> QED
        BY <1>0, <2>1, <3>1, <3>2 DEF TypeOK
    <2> QED
      BY <2>1, <2>2, <2>3 DEF AttendedInv, Attended, Fresh
  <1>7. ASSUME NEW t \in Threads, Report(t) PROVE Attended'
    <2>1. PICK what \in {"completed", "failed", "skipped"} : UpdateStep(t, work[t], what)
      BY <1>7 DEF Report
    <2>2. /\ work[t] # NoStep /\ work' = [work EXCEPT ![t] = NoStep] /\ disorder' = disorder
          /\ what \in StepStatus /\ what # "in_progress"
      BY <1>7 DEF Report, StepStatus
    <2> QED
      BY <1>0, <2>1, <2>2, UpdateAttended DEF Attended
  <1>8. ASSUME NEW t \in Threads, Begin(t) PROVE Attended'
    <2>1. /\ UpdateStep(t, work[t], "in_progress") /\ work[t] # NoStep
          /\ work' = work /\ disorder' = disorder /\ "in_progress" \in StepStatus
      BY <1>8 DEF Begin, StepStatus
    <2> QED
      BY <1>0, <2>1, UpdateAttended DEF Attended
  <1>9. ASSUME NEW t \in Threads, ReportUninvited(t) PROVE Attended'
    BY <1>9 DEF ReportUninvited, Attended
  <1>10. CASE NameSteps
    BY <1>10, SameAttended DEF NameSteps
  <1>11. ASSUME NEW c \in Callbacks, Watch(c) PROVE Attended'
    BY <1>11, SameAttended DEF Watch
  <1> QED
    BY <1>1, <1>2, <1>3, <1>4, <1>5, <1>6, <1>7, <1>8, <1>9, <1>10, <1>11 DEF Next, GoOn

LEMMA SmallestOf ==
    ASSUME NEW S, S \subseteq Nat, S # {}
    PROVE  \E s \in S : \A r \in S : ~(r < s)
  <1>1. PICK s \in S : \A r \in S : <<r, s>> \notin OpToRel(<, Nat)
    BY WFMin, NatLessThanWellFounded, Zenon
  <1>2. \A r \in S : <<r, s>> \in Nat \X Nat
    OBVIOUS
  <1> QED
    BY <1>1, <1>2, Zenon DEF OpToRel

\* get_next_step() returns a step when there is one to return.
LEMMA SomeIsOffered ==
    ASSUME NEW s \in Steps, Ready(s)
    PROVE  Offered # {}
  <1> DEFINE S == {r \in Steps : Ready(r)}
  <1>1. S \subseteq Nat /\ S # {}
    BY PlanAssumption
  <1>2. PICK q \in S : \A r \in S : ~(r < q)
    BY <1>1, SmallestOf
  <1>3. q \in Offered
    BY <1>2 DEF Offered
  <1> QED
    BY <1>3

\* A step waits for one that was skipped, or has another name.
WaitsForNone ==
    \E s \in Steps : step[s] = "pending" /\ \E d \in deps[s] : d \notin Steps \/ step[d] = "skipped"

\* Steps wait for each other in a circle.
WaitInCircle ==
    \E S \in SUBSET Steps : S # {} /\ \A s \in S : step[s] = "pending" /\ deps[s] \cap S # {}

\* A thread is at work, or one that asks is given a step; and who owns the lock, and keeps
\* the others out, has callbacks to call.
GoesOn ==
    /\ lock # NoThread => todo[lock] # <<>>
    /\ (\E t \in Threads : work[t] # NoStep) \/ Offered # {}

\* A plan in progress goes on, or cannot end at all.
NotIdle ==
    (status = "in_progress" /\ Steps # {} /\ "uninvited" \notin disorder)
        => GoesOn \/ WaitsForNone \/ WaitInCircle

\* A plan in progress is never left idle, also when threads have been given a step twice,
\* unless a step of it waits for one that can never complete.
THEOREM PlansGoOn == Spec => []NotIdle
  <1>1. ASSUME TellInv, AttendedInv, status = "in_progress", Steps # {}, "uninvited" \notin disorder,
               ~WaitsForNone, ~WaitInCircle
        PROVE  GoesOn
    <2>1. lock # NoThread => todo[lock] # <<>>
      BY <1>1 DEF TellInv, TypeOK, LockOwned
    <2>2. ASSUME \A t \in Threads : work[t] = NoStep PROVE Offered # {}
      <3> DEFINE S == {s \in Steps : step[s] = "pending"}
      <3>1. \A s \in Steps : step[s] \in {"pending", "completed", "skipped"}
        BY <1>1, <2>2, PlanAssumption DEF AttendedInv, Attended, TypeOK, StepStatus
      <3>2. S # {}
        BY <1>1, <3>1 DEF AttendedInv, Attended, Open
      <3>3. PICK s \in S : deps[s] \cap S = {}
        BY <1>1, <3>2 DEF WaitInCircle
      <3>4. ASSUME NEW d \in deps[s] PROVE d \in Steps /\ step[d] = "completed"
        <4>1. d \in Steps /\ step[d] # "skipped"
          BY <1>1, <3>3 DEF WaitsForNone
        <4>2. step[d] # "pending"
          BY <3>3, <4>1
        <4> QED
          BY <3>1, <4>1, <4>2
      <3>5. Ready(s)
        BY <3>4 DEF Ready
      <3> QED
        BY <3>5, SomeIsOffered
    <2> QED
      BY <2>1, <2>2 DEF GoesOn
  <1>2. TellInv /\ AttendedInv => NotIdle
    BY <1>1 DEF NotIdle
  <1> QED
    BY <1>2, InitTells, StepTells, InitAttended, StepAttended, PTL DEF Spec

\* As long as no step is given twice and nobody reports uninvited, a step that has ended is
\* not reported on again, and a report ends one more: there are no more reports of
\* outcomes than the plan has steps.
THEOREM StepsEndOnce ==
    Spec => [][disorder' = {} =>
                  /\ \A s \in Steps : step[s] \notin Open => step'[s] = step[s]
                  /\ \A t \in Threads : Report(t) => \E s \in Steps : step[s] \in Open /\ step'[s] \notin Open]_vars
  <1>1. ASSUME Orderly, [Next]_vars, disorder' = {}
        PROVE  /\ \A s \in Steps : step[s] \notin Open => step'[s] = step[s]
               /\ \A t \in Threads : Report(t) => \E s \in Steps : step[s] \in Open /\ step'[s] \notin Open
    <2>0. TypeOK /\ (disorder = {} => Order)
      BY <1>1 DEF Orderly
    <2>1. ASSUME NEW t \in Threads, work[t] # NoStep, disorder = {}
          PROVE  work[t] \in Steps /\ step[work[t]] \in Open
      BY <2>0, <2>1 DEF Order, Owns, TypeOK
    <2>2. ASSUME NEW t \in Threads, Report(t)
          PROVE  /\ \A s \in Steps : step[s] \notin Open => step'[s] = step[s]
                 /\ \E s \in Steps : step[s] \in Open /\ step'[s] \notin Open
      <3>1. PICK what \in {"completed", "failed", "skipped"} : UpdateStep(t, work[t], what)
        BY <2>2 DEF Report
      <3>2. step' = [step EXCEPT ![work[t]] = what] /\ step \in [Steps -> StepStatus]
        BY <2>0, <3>1 DEF UpdateStep, TypeOK
      <3>3. work[t] \in Steps /\ step[work[t]] \in Open
        BY <1>1, <2>1, <2>2 DEF Report
      <3> QED
        BY <3>2, <3>3 DEF Open
    <2>3. ASSUME NEW t \in Threads, Begin(t), NEW s \in Steps, step[s] \notin Open
          PROVE  step'[s] = step[s]
      <3>1. step' = [step EXCEPT ![work[t]] = "in_progress"] /\ step \in [Steps -> StepStatus]
        BY <2>0, <2>3 DEF Begin, UpdateStep, TypeOK
      <3>2. work[t] \in Steps /\ step[work[t]] \in Open
        BY <1>1, <2>1, <2>3 DEF Begin
      <3> QED
        BY <2>3, <3>1, <3>2
    <2>4. ASSUME NEW t \in Threads, ReportUninvited(t) PROVE FALSE
      BY <1>1, <2>4 DEF ReportUninvited
    <2>5. ASSUME \A t \in Threads : ~(Report(t) \/ Begin(t) \/ ReportUninvited(t))
          PROVE  step' = step
      BY <1>1, <2>5 DEF Next, vars, GoOn, CreatePlan, StartPlan, PausePlan, ResumePlan, Deliver,
                        GetNextStep, NameSteps, Watch
    <2> QED
      BY <2>2, <2>3, <2>4, <2>5
  <1>2. Orderly /\ [Next]_vars =>
           [disorder' = {} =>
                  /\ \A s \in Steps : step[s] \notin Open => step'[s] = step[s]
                  /\ \A t \in Threads : Report(t) => \E s \in Steps : step[s] \in Open /\ step'[s] \notin Open]_vars
    BY <1>1
  <1> QED
    BY <1>2, InitOrderly, StepOrderly, PTL DEF Spec
=============================================================================
