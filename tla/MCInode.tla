------------------------------ MODULE MCInode ------------------------------
(* Instance of Inode for TLC. *)
EXTENDS Inode, TLC

Symmetry == Permutations(Proc) \cup Permutations(Name) \cup Permutations(File)
=============================================================================
