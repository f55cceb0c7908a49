----------------------------- MODULE MCCleanup -----------------------------
(* Instance of Cleanup for TLC. *)
EXTENDS Cleanup

CONSTANTS d1, d2

NestedDirs == {<<d1, d2>>}
=============================================================================
