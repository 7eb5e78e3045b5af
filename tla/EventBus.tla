------------------------------ MODULE EventBus ------------------------------
(***************************************************************************)
(* The topics of the bus of core/_bus_fallback.py that one component       *)
(* publishes on.  publish() takes a copy of the callbacks and appends to   *)
(* the history under the lock of the bus, and calls the callbacks one      *)
(* after the other without it: in the thread of the publisher, which may   *)
(* own locks of its own component, and also a callback that has been       *)
(* unsubscribed since.  An exception of a callback is only logged.         *)
(***************************************************************************)
EXTENDS Naturals, Sequences, SequencesExt

CONSTANTS
    Threads,      \* the threads that publish
    Callbacks,    \* what may be subscribed
    Events,       \* what may be published
    HistorySize,  \* history_size
    MaxSubs       \* bound on the subscriptions

ASSUME BusAssumption == HistorySize \in Nat \ {0} /\ MaxSubs \in Nat

VARIABLES
    subs,     \* _subscribers of the topics
    history,  \* _history, a deque of HistorySize events
    todo,     \* the callbacks a thread has still to call
    event,    \* the event it calls them with, and "none" when it calls none
    seen,     \* the event a callback was last called with, and "none" before
    missed    \* history: the callback was not subscribed at the last event

bus == <<subs, history, todo, event, seen, missed>>

BusInit ==
    /\ subs = <<>> /\ history = <<>>
    /\ todo = [t \in Threads |-> <<>>] /\ event = [t \in Threads |-> "none"]
    /\ seen = [c \in Callbacks |-> "none"] /\ missed = [c \in Callbacks |-> TRUE]

Subscribed(c) == c \in ToSet(subs)

\* A callback may be subscribed twice; it is then called twice.
Subscribe(c) ==
    /\ Len(subs) < MaxSubs
    /\ subs' = Append(subs, c)
    /\ UNCHANGED <<history, todo, event, seen, missed>>

\* list.remove() takes the first.
Unsubscribe(c) ==
    /\ \E i \in 1..Len(subs) :
        /\ subs[i] = c /\ \A j \in 1..(i - 1) : subs[j] # c
        /\ subs' = RemoveAt(subs, i)
    /\ UNCHANGED <<history, todo, event, seen, missed>>

\* A deque with a maxlen drops its oldest event.
Remember(e) ==
    history' = Append(IF Len(history) = HistorySize THEN Tail(history) ELSE history, e)

\* publish(), up to the first callback.
Publish(t, e) ==
    /\ Remember(e)
    /\ todo' = [todo EXCEPT ![t] = subs]
    /\ event' = [event EXCEPT ![t] = IF subs = <<>> THEN "none" ELSE e]
    /\ missed' = [c \in Callbacks |-> ~Subscribed(c)]
    /\ UNCHANGED <<subs, seen>>

\* The next callback is called.
CallNext(t) ==
    /\ todo[t] # <<>>
    /\ seen' = [seen EXCEPT ![Head(todo[t])] = event[t]]
    /\ todo' = [todo EXCEPT ![t] = Tail(@)]
    /\ event' = [event EXCEPT ![t] = IF Len(todo[t]) = 1 THEN "none" ELSE @]
    /\ UNCHANGED <<subs, history, missed>>

\* Every variable of the bus has a value of its kind.
BusTypeOK ==
    /\ subs \in Seq(Callbacks) /\ Len(subs) <= MaxSubs
    /\ history \in Seq(Events) /\ Len(history) <= HistorySize
    /\ todo \in [Threads -> Seq(Callbacks)]
    /\ event \in [Threads -> Events \cup {"none"}]
    /\ seen \in [Callbacks -> Events \cup {"none"}]
    /\ missed \in [Callbacks -> BOOLEAN]
=============================================================================
