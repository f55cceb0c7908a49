------------------------------ MODULE MCCsFile ------------------------------
(* Instance of CsFile for TLC. *)
EXTENDS CsFile, TLC

Symmetry == Permutations(Proc) \cup Permutations(File) \cup Permutations(Ino)
=============================================================================
