---- MODULE MCSchedulerSmp ----
(***************************************************************************)
(* Small instances of SchedulerSmp: one scheduler instance with two        *)
(* processors, and two instances that help each other's threads.           *)
(***************************************************************************)
EXTENDS SchedulerSmp

CONSTANTS t1, t2, t3, t4, t5, s1, s2, c1, c2

\* Two instances of one processor: s2 helps t1 and has an MrsP semaphore.
Partitioned ==
  [cpusOf |-> s1 :> <<c1>> @@ s2 :> <<c2>>,
   home |-> [t \in Thread |-> IF t = t3 THEN s2 ELSE s1],
   initial |-> [t \in Thread |-> IF t = t1 THEN 2 ELSE 1],
   started |-> {t1, t2, t3},
   helped |-> {t1}, sticky |-> {t3}, changing |-> {}]

\* One instance of two processors: the priority of t1 changes.
Global ==
  [cpusOf |-> s1 :> <<c1, c2>> @@ s2 :> <<>>,
   home |-> [t \in Thread |-> s1],
   initial |-> [t \in Thread |-> IF t = t1 THEN 1 ELSE 2],
   started |-> {t1, t2, t4, t5},
   helped |-> {}, sticky |-> {}, changing |-> {t1}]

Both == {Partitioned, Global}

\* Only Global has the threads t4 and t5, and they are alike in it.
Symmetry == Permutations({t4, t5})
====
