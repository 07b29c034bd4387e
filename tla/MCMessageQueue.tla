---------------------------- MODULE MCMessageQueue ----------------------------
(***************************************************************************)
(* Small instances of CoreMessageQueue for TLC.                            *)
(***************************************************************************)
EXTENDS CoreMessageQueue, TLC

PriorityEqual == [t \in Thread |-> 1]

Symmetry == Permutations(Thread) \cup Permutations(Message)
==============================================================================
