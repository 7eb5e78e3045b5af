---------------------------- MODULE AttemptLedger ----------------------------
(***************************************************************************)
(* What a caller of the durable job queue may rely on, without threads,    *)
(* locks or rows: every posted job is attempted a bounded number of times, *)
(* one attempt at a time, and never again once an attempt succeeded or the *)
(* attempts are used up.  A job may be withdrawn only while no attempt of  *)
(* it is open; the attempts open at a crash are interrupted, and the jobs  *)
(* they belong to are lost unless they had been withdrawn meanwhile.       *)
(***************************************************************************)
EXTENDS Naturals

CONSTANTS
    Jobs,    \* jobs that may be posted
    Limits   \* numbers of attempts a caller may ask for, at least one each

VARIABLES phase, limit, used
vars == <<phase, limit, used>>

Init ==
    /\ phase = [j \in Jobs |-> "none"]
    /\ limit = [j \in Jobs |-> 0]
    /\ used = [j \in Jobs |-> 0]

Move(j, from, to) == phase[j] \in from /\ phase' = [phase EXCEPT ![j] = to]

Post(j, m) ==
    /\ Move(j, {"none"}, "ready")
    /\ limit' = [limit EXCEPT ![j] = m]
    /\ UNCHANGED used

Begin(j) ==
    /\ Move(j, {"ready"}, "open")
    /\ used[j] < limit[j]
    /\ used' = [used EXCEPT ![j] = @ + 1]
    /\ UNCHANGED limit

Succeed(j) == Move(j, {"open"}, "succeeded") /\ UNCHANGED <<limit, used>>
Retry(j) == Move(j, {"open"}, "ready") /\ used[j] < limit[j] /\ UNCHANGED <<limit, used>>
Exhaust(j) == Move(j, {"open"}, "exhausted") /\ used[j] = limit[j] /\ UNCHANGED <<limit, used>>
Withdraw(j) == Move(j, {"ready", "lost"}, "withdrawn") /\ UNCHANGED <<limit, used>>

\* Several attempts may be open when a crash interrupts them.
Interrupt ==
    /\ \E withdrawn \in SUBSET {j \in Jobs : phase[j] = "open"} :
        phase' = [j \in Jobs |-> IF j \in withdrawn THEN "withdrawn"
                                 ELSE IF phase[j] = "open" THEN "lost" ELSE phase[j]]
    /\ UNCHANGED <<limit, used>>

\* One worker may be lost without the others.
InterruptOne(j) ==
    /\ \E to \in {"lost", "withdrawn"} : Move(j, {"open"}, to)
    /\ UNCHANGED <<limit, used>>

Next ==
    \/ \E j \in Jobs :
        \/ \E m \in Limits : Post(j, m)
        \/ Begin(j) \/ Succeed(j) \/ Retry(j) \/ Exhaust(j) \/ Withdraw(j)
        \/ InterruptOne(j)
    \/ Interrupt

Spec == Init /\ [][Next]_vars
=============================================================================
