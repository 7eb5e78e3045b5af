----------------------- MODULE QuantumGatherRefinement -----------------------
(***************************************************************************)
(* gather() implements Poll: an agent has replied when its task is done.   *)
(* The answers counted are those that gather() has collected, not those    *)
(* that the tasks hold.                                                    *)
(***************************************************************************)
EXTENDS QuantumGather

StageName(p) == IF p = "wait" THEN "open" ELSE IF p = "settle" THEN "closed" ELSE p

StageBar == [g \in Gathers |-> StageName(pc[g])]

ReplyBar ==
    [g \in Gathers |->
        [a \in Agents |-> IF task[g][a] \in Finished THEN task[g][a] ELSE "none"]]

CountedBar == [g \in Gathers |-> IF pc[g] \in {"voted", "failed"} THEN answers[g] ELSE {}]

Promise == INSTANCE Poll WITH
    Polls <- Gathers,
    AtOnce <- Concurrency,
    stage <- StageBar,
    reply <- ReplyBar,
    expired <- late,
    cut <- asked,
    counted <- CountedBar

\* Every gather of a batch, with its timeouts, early exits and cancellations and
\* whatever the executor does, is a poll: it closes for a reason, and its outcome
\* counts exactly the answers given until then.
ImplementsPoll == Promise!Spec
=============================================================================
