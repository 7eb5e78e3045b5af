---------------------------- MODULE MCGoalOrder ----------------------------
(* A small instance of GoalOrder for TLC: every acyclic graph of three goals. *)
EXTENDS GoalOrder

CONSTANTS a, b, c
=============================================================================
