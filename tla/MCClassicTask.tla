---------------------------- MODULE MCClassicTask ----------------------------
(***************************************************************************)
(* A small instance of ClassicTask for TLC.                                *)
(***************************************************************************)
EXTENDS ClassicTask

CONSTANTS t1, t2

\* The waits: the event class and the period wait of each thread.
Waits == Thread \X {"EVENT", "PERIOD"}

EqualPriority == [t \in Thread |-> 1]
==============================================================================
