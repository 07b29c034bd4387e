----------------------------- MODULE MCWaitLock ------------------------------
(***************************************************************************)
(* A small instance of WaitLock for TLC.                                   *)
(***************************************************************************)
EXTENDS WaitLock, TLC

Symmetry == Permutations(Thread) \cup Permutations(Owned)
==============================================================================
