---------------------------- MODULE BarrierBounds ----------------------------
(***************************************************************************)
(* The bounds of CoreBarrier.                                              *)
(***************************************************************************)
EXTENDS Naturals

CONSTANTS
  MaximumCount,  \* largest count of an automatic barrier considered
  WaitBound      \* bound on number_of_waiting_threads

ASSUME CoreBarrierAssumption ==
  /\ MaximumCount \in Nat \ {0}
  /\ WaitBound \in Nat
==============================================================================
