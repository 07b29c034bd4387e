----------------------------- MODULE ClassicTask -----------------------------
(***************************************************************************)
(* Tasks of the Classic API that wait for events, for system events and    *)
(* for the end of periods.  The three share the wait flags, the return     *)
(* argument, the blocking steps and the clocks.                            *)
(***************************************************************************)
EXTENDS RateMonotonic

vars == <<tqVars, eventVars, periodVars, returnArgument>>

TypeOK ==
  /\ TQTypeOK
  /\ EventTypeOK
  /\ PeriodTypeOK
  /\ returnArgument \in [Thread -> Period \cup {None, "event_out"}]

Init ==
  /\ TQInit
  /\ EventInit
  /\ PeriodInit
  /\ returnArgument = [t \in Thread |-> None]

\* The steps of ThreadQueue.  A clock does one thing after the other.
WaitStep ==
  /\ \/ \E t \in Thread : Undisturbed(t) /\ EnqueueStep(t)
     \/ \E c \in Context : Undisturbed(c) /\ WakeStep(c)
     \/ \E k \in Clock : ending[k] = None /\ ClockStep(k)
  /\ UNCHANGED <<eventVars, periodVars, returnArgument>>

Next ==
  \/ /\ \E c \in Thread \cup Isr : Undisturbed(c) /\ EventOperation(c)
     /\ UNCHANGED periodVars
  \/ /\ PeriodOperation
     /\ UNCHANGED eventVars
  \/ /\ \E k \in Clock : PeriodClockStep(k)
     /\ UNCHANGED eventVars
  \/ WaitStep

Spec == Init /\ [][Next]_vars

\* Ticks keep coming, a clock serves the watchdogs in the order of their
\* expiration times, so that later ones do not keep it from a due one for
\* ever, and an interrupt service routine runs to its end.  Nothing is assumed
\* of the calls of the application.
Fairness ==
  LET rest == <<eventVars, periodVars, returnArgument>> IN
  \A k \in Clock :
    /\ SF_vars(PeriodClockStep(k) /\ UNCHANGED eventVars)
    /\ WF_vars((WakeStep(k) \/ Timeout(k)) /\ UNCHANGED rest)
    /\ \A t \in Receiver :
         SF_vars(ending[k] = None /\ Expire(k, t) /\ UNCHANGED rest)

FairSpec == Spec /\ Fairness

\* The end of a period comes: a thread that blocked in
\* rtems_rate_monotonic_period() gets ready again, unless another thread
\* deletes the period it waits for.
PeriodEnds ==
  \A t \in Thread, p \in Period :
    pc[t] = "dispatch" /\ blocked[t] /\ returnArgument[t] = p /\ owner[p] = t
      ~> ~blocked[t] \/ p \notin created
==============================================================================
