---------------------------- MODULE MCGoalGraph ----------------------------
(* Small instances of GoalGraph for TLC. *)
EXTENDS GoalGraph, TLC

CONSTANTS a, b, c,  \* goals
          t1, t2    \* threads

GoalSymmetry == Permutations(Goals)
=============================================================================
