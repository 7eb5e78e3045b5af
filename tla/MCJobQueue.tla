---------------------------- MODULE MCJobQueue ----------------------------
(***************************************************************************)
(* A small instance of JobQueue for TLC: one server process with two       *)
(* worker threads, the kernel's thread and one API thread.                 *)
(***************************************************************************)
EXTENDS JobQueueRefinement

CONSTANTS server,      \* process
          w1, w2,      \* worker threads
          boot, api    \* client threads: kernel, API handler

MCJobs == 1..2

ServerHome == [t \in {w1, w2, boot, api} |-> server]

NoFault == [k \in FaultKinds |-> 0]
EachFaultOnce == [k \in FaultKinds |-> 1]
=============================================================================
