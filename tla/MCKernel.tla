------------------------------ MODULE MCKernel ------------------------------
(***************************************************************************)
(* Kernel for TLC: all loads in one state space.                           *)
(***************************************************************************)
EXTENDS Kernel
=============================================================================
