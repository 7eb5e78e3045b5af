------------------------------ MODULE MCKernel ------------------------------
(* A small instance of Kernel for TLC. *)
EXTENDS Kernel

CONSTANTS api1

TwoServices == <<"aether", "wraith">>
=============================================================================
