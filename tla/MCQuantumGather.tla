-------------------------- MODULE MCQuantumGather --------------------------
(* A small instance of QuantumGather for TLC. *)
EXTENDS QuantumGatherRefinement

CONSTANTS g1, g2, reasoner, critic, llm

TwoFunctions == <<reasoner, critic>>
=============================================================================
