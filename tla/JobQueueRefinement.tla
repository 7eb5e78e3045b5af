------------------------- MODULE JobQueueRefinement -------------------------
(***************************************************************************)
(* The job queue of one process implements AttemptLedger: the phase of a   *)
(* job is read off its row, except that an attempt is open from the moment *)
(* the executor is called until its outcome is recorded, whatever cancel() *)
(* writes into the row in between.                                         *)
(***************************************************************************)
EXTENDS JobQueue

StatusPhase(s) ==
    IF s = "absent" THEN "none" ELSE IF s = "queued" THEN "ready"
    ELSE IF s = "running" THEN "lost" ELSE IF s = "completed" THEN "succeeded"
    ELSE IF s = "failed" THEN "exhausted" ELSE "withdrawn"

PhaseOf(j) == IF Live(j) THEN "open" ELSE StatusPhase(row[j].status)

\* The values of max(1, int(max_attempts)).
AttemptLimits == {AtLeastOne(m) : m \in 0..MaxTry}

Ledger == INSTANCE AttemptLedger WITH
    Limits <- AttemptLimits,
    phase <- [j \in Jobs |-> PhaseOf(j)],
    limit <- [j \in Jobs |-> row[j].max],
    used <- starts

\* Every behaviour of the queue of one process, with its cancels, stops,
\* crashes and database errors, is a behaviour of the ledger: bounded attempts,
\* one at a time, none after a success.
ImplementsLedger == Ledger!Spec
=============================================================================
