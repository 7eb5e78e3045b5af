----------------------------- MODULE MCAutonomy -----------------------------
(* A small instance of Autonomy for TLC. *)
EXTENDS Autonomy

CONSTANTS sync, audit,   \* jobs
          w1, w2,        \* loop threads
          boot, api      \* API threads

TwoJobs == <<audit, sync>>
IntervalOfOne == [j \in JobNames |-> 1]
=============================================================================
