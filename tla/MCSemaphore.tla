----------------------------- MODULE MCSemaphore -----------------------------
(***************************************************************************)
(* Small instances of CoreSemaphore for TLC.                               *)
(***************************************************************************)
EXTENDS CoreSemaphore, TLC

CONSTANTS t1, t2, t3

\* Two threads of the same priority and one below them.
PriorityPair == [t \in Thread |-> IF t = t3 THEN 2 ELSE 1]

Symmetry == Permutations({t1, t2})
==============================================================================
