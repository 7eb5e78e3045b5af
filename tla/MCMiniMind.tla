----------------------------- MODULE MCMiniMind -----------------------------
(* A small instance of MiniMind for TLC. *)
EXTENDS MiniMind

CONSTANTS api1, api2
=============================================================================
