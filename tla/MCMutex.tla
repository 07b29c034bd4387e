------------------------------- MODULE MCMutex -------------------------------
(***************************************************************************)
(* Two small instances of CoreMutex for TLC in one run: a multiprocessor   *)
(* with an inheritance mutex and a ceiling mutex, and a uniprocessor with  *)
(* two inheritance mutexes and every way to end a wait.                    *)
(***************************************************************************)
EXTENDS CoreMutex, TLC

CONSTANTS t1, t2, t3, m1, m2, m3

\* Threads t1 and t2 are equally urgent, so that they may be exchanged.
PriorityPair == t1 :> 2 @@ t2 :> 2 @@ t3 :> 3
Symmetry == Permutations({t1, t2})

\* Mutex m1 is locked recursively, or none is.
NestFirst == [m \in Mutex |-> IF m = m1 THEN 1 ELSE 0]
NestNone == [m \in Mutex |-> 0]

CeilingMiddle == [m \in Mutex |-> 2]

\* The constants of the configuration describe the uniprocessor.
Multi == INSTANCE CoreMutex
           WITH Smp <- TRUE, Flushes <- FALSE, Extracts <- FALSE,
                NewPriority <- {}, NewCeiling <- {1}, NestBound <- NestNone

VARIABLE system

BothInit == Init /\ system \in {"multiprocessor", "uniprocessor"}

\* The uniprocessor does not use m3 and only the priority of t3 changes there;
\* the multiprocessor does not use m2.
BothNext ==
  /\ \/ /\ system = "uniprocessor"
        /\ Next
        /\ owner'[m3] = None
        /\ \A t \in {t1, t2} : real'[t] = real[t]
     \/ /\ system = "multiprocessor"
        /\ Multi!Next
        /\ owner'[m2] = None
  /\ UNCHANGED system

BothSpec == BothInit /\ [][BothNext]_<<vars, system>>
==============================================================================
