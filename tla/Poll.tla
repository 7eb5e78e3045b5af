-------------------------------- MODULE Poll --------------------------------
(***************************************************************************)
(* What a caller of gather() may rely on, without tasks, threads or an     *)
(* event loop: each agent replies once.  A poll is closed when all have    *)
(* replied, at the deadline or with a quorum of answers, and never before; *)
(* who has not replied by then is cut off.  The outcome counts each answer *)
(* given before the poll was closed, and none that came later.  A reply    *)
(* that is an outside cancellation makes an open poll raise.               *)
(***************************************************************************)
EXTENDS Naturals, FiniteSets

CONSTANTS
    Polls,
    Agents,
    Quorum,
    AtOnce   \* how many polls may be under way

VARIABLES
    stage,    \* "idle", "open", "closed", "voted", "failed" or "raised"
    reply,    \* the reply of each agent in each poll
    expired,  \* whether the deadline of a poll is over
    cut,      \* the agents that were cut off
    counted   \* the answers of the outcome

vars == <<stage, reply, expired, cut, counted>>

Answered(p) == {a \in Agents : reply[p][a] = "answered"}
Silent(p) == {a \in Agents : reply[p][a] = "none"}
UnderWay == {p \in Polls : stage[p] \in {"open", "closed"}}

Init ==
    /\ stage = [p \in Polls |-> "idle"]
    /\ reply = [p \in Polls |-> [a \in Agents |-> "none"]]
    /\ expired = [p \in Polls |-> FALSE]
    /\ cut = [p \in Polls |-> {}]
    /\ counted = [p \in Polls |-> {}]

Move(p, from, to) == stage[p] = from /\ stage' = [stage EXCEPT ![p] = to]

Open(p) ==
    /\ Move(p, "idle", "open") /\ Cardinality(UnderWay) < AtOnce
    /\ UNCHANGED <<reply, expired, cut, counted>>

\* The agents of a poll that has raised go on.
Reply(p, a, how) ==
    /\ stage[p] \in {"open", "raised"}
    /\ a \in Silent(p)
    /\ reply' = [reply EXCEPT ![p] = [@ EXCEPT ![a] = how]]
    /\ UNCHANGED <<stage, expired, cut, counted>>

\* An agent that was cut off ends without an answer.
End(p, a) ==
    /\ a \in cut[p] \cap Silent(p)
    /\ reply' = [reply EXCEPT ![p] = [@ EXCEPT ![a] = "cancelled"]]
    /\ UNCHANGED <<stage, expired, cut, counted>>

Expire(p) ==
    /\ stage[p] = "open"
    /\ expired' = [expired EXCEPT ![p] = TRUE]
    /\ UNCHANGED <<stage, reply, cut, counted>>

Close(p) ==
    /\ Move(p, "open", "closed")
    /\ \A a \in Agents : reply[p][a] # "cancelled"
    /\ \/ Silent(p) = {}
       \/ expired[p]
       \/ Cardinality(Answered(p)) >= Quorum
    /\ cut' = [cut EXCEPT ![p] = Silent(p)]
    /\ UNCHANGED <<reply, expired, counted>>

Decide(p) ==
    /\ Move(p, "closed", IF Answered(p) = {} THEN "failed" ELSE "voted")
    /\ Silent(p) = {}
    /\ counted' = [counted EXCEPT ![p] = Answered(p)]
    /\ UNCHANGED <<reply, expired, cut>>

Raise(p) ==
    /\ Move(p, "open", "raised")
    /\ \E a \in Agents : reply[p][a] = "cancelled"
    /\ UNCHANGED <<reply, expired, cut, counted>>

Next ==
    \E p \in Polls :
        \/ Open(p) \/ Expire(p) \/ Close(p) \/ Decide(p) \/ Raise(p)
        \/ \E a \in Agents :
            \/ \E how \in {"answered", "failed", "cancelled"} : Reply(p, a, how)
            \/ End(p, a)

Spec == Init /\ [][Next]_vars
=============================================================================
