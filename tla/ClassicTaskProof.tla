--------------------------- MODULE ClassicTaskProof ---------------------------
(***************************************************************************)
(* Events and periods on a uniprocessor, for every number of tasks,        *)
(* interrupts, clocks, events and periods.                                 *)
(***************************************************************************)
EXTENDS ClassicTask, ThreadQueueProof

(***************************************************************************)
(* The inductive invariant.  What EventsMatchStatus says of a thread that  *)
(* waits for nothing also holds while it waits for a period, since such a  *)
(* wait leaves the status and *event_out alone.  For this nobody but the   *)
(* period itself may end it, so the timer of the thread has to be stopped. *)
(***************************************************************************)
EventWait(t) == \E class \in EventClass : waitQueue[t] = <<t, class>>
PeriodWait(t) == waitQueue[t] = <<t, "PERIOD">>

StatusInv ==
  \A t \in Thread :
    IF EventWait(t)
      THEN returnCode[t] = "SUCCESSFUL" /\ eventOut[t] = {}
      ELSE condition[t] # {} =>
             IF returnCode[t] = "SUCCESSFUL"
               THEN IsSatisfied(eventOut[t], condition[t], any[t])
               ELSE eventOut[t] = {}

WaitKinds ==
  \A t \in Thread :
    /\ waitQueue[t] # None => EventWait(t) \/ PeriodWait(t)
    /\ returnArgument[t] \in Period => PeriodWait(t)

PeriodWaitUntimed ==
  \A t \in Thread : PeriodWait(t) =>
    /\ pc[t] # "callout"
    /\ timer[t] = None
    /\ \A k \in Clock : firing[k] # t

EndingInv ==
  \A k \in Clock : ending[k] # None =>
    /\ ~Serving(k)
    /\ \A j \in Clock : ending[j] = ending[k] => j = k

OwnerInv == \A p \in Period : state[p] # "INACTIVE" => owner[p] \in Thread

\* What ActiveIffTimed needs: an expired period is timed like an active one.
PeriodInv ==
  \A p \in Period :
    /\ state[p] # "INACTIVE" <=> IsTimed(p)
    /\ periodTimer[p] # None => \A k \in Clock : ending[k] # p

ClassicInv ==
  /\ UniInv
  /\ TypeOK
  /\ NoSatisfiedWaiter
  /\ StatusInv
  /\ WaitKinds
  /\ PeriodWaitUntimed
  /\ EndingInv
  /\ OwnerInv
  /\ PeriodInv

\* A wait for events is not a wait for a period, and both are waits.
LEMMA WaitsDiffer ==
  \A t \in Thread : /\ EventWait(t) => waitQueue[t] # None
                    /\ PeriodWait(t) => waitQueue[t] # None
                    /\ ~(EventWait(t) /\ PeriodWait(t))
<1> SUFFICES ASSUME NEW t \in Thread
             PROVE  /\ EventWait(t) => waitQueue[t] # None
                    /\ PeriodWait(t) => waitQueue[t] # None
                    /\ ~(EventWait(t) /\ PeriodWait(t))
  OBVIOUS
<1>1. \A class \in EventClass : <<t, class>> \in Queue /\ <<t, class>> # <<t, "PERIOD">>
  BY EventAssumption, PeriodAssumption
<1>2. <<t, "PERIOD">> \in Queue
  BY PeriodAssumption
<1>3. None \notin Queue
  BY ThreadQueueAssumption
<1> QED BY <1>1, <1>2, <1>3 DEF EventWait, PeriodWait

\* Initially nobody waits and no period exists.
LEMMA ClassicInvInit == Init => ClassicInv
<1> SUFFICES ASSUME Init PROVE ClassicInv
  OBVIOUS
<1>1. UniInv
  BY UniInitInv DEF Init
<1>2. TypeOK
  BY <1>1, PeriodAssumption
  DEF Init, TypeOK, EventInit, EventTypeOK, PeriodInit, PeriodTypeOK, UniInv, WaitInv
<1>3. \A t \in Thread : waitQueue[t] = None /\ ~EventWait(t) /\ ~PeriodWait(t)
  BY WaitsDiffer DEF Init, TQInit
<1>4. NoSatisfiedWaiter
  BY <1>3 DEF NoSatisfiedWaiter, EventWait
<1>5. StatusInv /\ WaitKinds /\ PeriodWaitUntimed
  BY <1>3, PeriodAssumption
  DEF Init, EventInit, StatusInv, WaitKinds, PeriodWaitUntimed
<1>6. EndingInv /\ OwnerInv /\ PeriodInv
  BY PeriodAssumption
  DEF Init, PeriodInit, EndingInv, OwnerInv, PeriodInv, IsTimed
<1> QED BY <1>1, <1>2, <1>4, <1>5, <1>6 DEF ClassicInv

------------------------------------------------------------------------------
(***************************************************************************)
(* The steps of the handler.                                               *)
(***************************************************************************)

\* They start no wait, and end one without success if it may have a timeout.
LEMMA HandlerEndsWait ==
  ASSUME WaitInv, PeriodWaitUntimed, WaitKinds, TQStep
  PROVE  \/ UNCHANGED <<waitQueue, returnCode>>
         \/ \E t \in Thread :
              /\ EventWait(t)
              /\ waitQueue' = [waitQueue EXCEPT ![t] = None]
              /\ \E s \in Status \ {"SUCCESSFUL"} :
                   returnCode' = [returnCode EXCEPT ![t] = s]
<1>1. ASSUME NEW t \in Thread, EndsWait(t) PROVE EventWait(t)
  BY <1>1 DEF EndsWait, WaitKinds, PeriodWaitUntimed
<1> QED BY <1>1, HandlerEnds DEF EndsWait

\* They arm a timer only for a thread in the enqueue callout.
LEMMA HandlerTimers ==
  ASSUME WaitInv, TQStep, NEW t \in Thread
  PROVE  /\ pc'[t] = "callout" => pc[t] = "callout"
         /\ timer'[t] # None => timer[t] # None \/ pc[t] = "callout"
         /\ \A k \in Clock : firing'[k] = t => firing[k] = t \/ timer[t] # None
<1> USE DEF WaitInv, TQTypeOK
<1>1. ASSUME NEW u \in Thread, EnqueueStep(u)
      PROVE  /\ pc'[t] = "callout" => pc[t] = "callout"
             /\ timer'[t] # None => timer[t] # None \/ pc[t] = "callout"
             /\ UNCHANGED firing
  BY <1>1
  DEF EnqueueStep, CalloutNoTimeout, CalloutInsert, CalloutExpired, SetState,
      TryBlock, RemoveOwnTimer, UnblockSelf, Return, CanStep
<1>2. ASSUME NEW c \in Context, WakeStep(c)
      PROVE  UNCHANGED <<pc, firing>> /\ (timer'[t] # None => timer[t] # None)
  BY <1>2 DEF WakeStep, RemoveTimer, Unblock
<1>3. ASSUME NEW k \in Clock, ClockStep(k)
      PROVE  /\ UNCHANGED pc /\ (timer'[t] # None => timer[t] # None)
             /\ \A j \in Clock : firing'[j] = t => firing[j] = t \/ timer[t] # None
  BY <1>3, ThreadQueueAssumption DEF ClockStep, Expire, Timeout
<1> QED BY <1>1, <1>2, <1>3 DEF TQStep

\* The steps of the handler, taken while no clock ends a period.
LEMMA WaitStepInv ==
  ASSUME ~Smp, ClassicInv, WaitStep
  PROVE  ClassicInv'
<1>1. TQStep /\ UNCHANGED <<eventVars, periodVars, returnArgument>>
  BY DEF WaitStep, TQStep
<1>2. UniInv' /\ UniInv /\ WaitInv /\ TQTypeOK /\ TQTypeOK'
  BY <1>1, UniStepInv DEF ClassicInv, UniInv, WaitInv
<1>3. TypeOK'
  BY <1>1, <1>2
  DEF ClassicInv, TypeOK, EventTypeOK, PeriodTypeOK, eventVars, periodVars
<1>4. \/ UNCHANGED <<waitQueue, returnCode>>
      \/ \E t \in Thread :
           /\ EventWait(t)
           /\ waitQueue' = [waitQueue EXCEPT ![t] = None]
           /\ \E s \in Status \ {"SUCCESSFUL"} :
                returnCode' = [returnCode EXCEPT ![t] = s]
  BY <1>1, <1>2, HandlerEndsWait DEF ClassicInv
<1>5. NoSatisfiedWaiter' /\ StatusInv' /\ WaitKinds'
  <2>1. CASE UNCHANGED <<waitQueue, returnCode>>
    BY <1>1, <2>1
    DEF ClassicInv, NoSatisfiedWaiter, StatusInv, WaitKinds, EventWait,
        PeriodWait, eventVars
  <2>2. ASSUME NEW t \in Thread, EventWait(t),
               waitQueue' = [waitQueue EXCEPT ![t] = None],
               NEW s \in Status \ {"SUCCESSFUL"},
               returnCode' = [returnCode EXCEPT ![t] = s]
        PROVE  NoSatisfiedWaiter' /\ StatusInv' /\ WaitKinds'
    <3>1. waitQueue'[t] = None /\ returnCode'[t] # "SUCCESSFUL"
      BY <1>2, <2>2 DEF TQTypeOK
    <3>2. ~EventWait(t)' /\ ~PeriodWait(t)
      BY Zenon, <2>2, <3>1, WaitsDiffer, ThreadQueueAssumption, EventAssumption
      DEF EventWait
    <3>3. \A u \in Thread \ {t} :
            /\ waitQueue'[u] = waitQueue[u]
            /\ returnCode'[u] = returnCode[u]
            /\ EventWait(u)' <=> EventWait(u)
            /\ PeriodWait(u)' <=> PeriodWait(u)
      BY <1>2, <2>2 DEF TQTypeOK, EventWait, PeriodWait
    <3>4. NoSatisfiedWaiter'
      BY <1>1, <3>2, <3>3 DEF ClassicInv, NoSatisfiedWaiter, EventWait, eventVars
    <3>5. StatusInv'
      BY <1>1, <2>2, <3>1, <3>2, <3>3 DEF ClassicInv, StatusInv, eventVars
    <3>6. WaitKinds'
      BY <1>1, <3>1, <3>2, <3>3 DEF ClassicInv, WaitKinds
    <3> QED BY <3>4, <3>5, <3>6
  <2> QED BY <1>4, <2>1, <2>2
<1>6. PeriodWaitUntimed'
  <2>1. \A t \in Thread : PeriodWait(t)' => PeriodWait(t)
    <3>1. \A t \in Thread : <<t, "PERIOD">> # None
      BY ThreadQueueAssumption, PeriodAssumption
    <3> QED BY Zenon, <1>2, <1>4, <3>1 DEF PeriodWait, TQTypeOK
  <2> QED BY <1>1, <1>2, <2>1, HandlerTimers DEF ClassicInv, PeriodWaitUntimed
<1>7. EndingInv'
  <2> SUFFICES ASSUME NEW k \in Clock, ending[k] # None PROVE ~Serving(k)'
    BY <1>1 DEF ClassicInv, EndingInv, periodVars
  <2>1. ~Serving(k) /\ k \notin Thread
    BY ThreadQueueAssumption DEF ClassicInv, EndingInv
  <2>2. ASSUME NEW t \in Thread, EnqueueStep(t) PROVE UNCHANGED <<cleanup, wake, firing>>
    BY <2>2
    DEF EnqueueStep, CalloutNoTimeout, CalloutInsert, CalloutExpired, SetState,
        TryBlock, RemoveOwnTimer, UnblockSelf, Return
  <2>3. ASSUME NEW c \in Context, WakeStep(c) PROVE ~Serving(k)'
    BY <1>2, <2>1, <2>3
    DEF WakeStep, RemoveTimer, Unblock, Serving, HasWork, TQTypeOK, Context
  <2>4. ASSUME NEW j \in Clock, ending[j] = None, ClockStep(j) PROVE ~Serving(k)'
    BY <1>2, <2>1, <2>4
    DEF ClockStep, Expire, Timeout, Serving, HasWork, TQTypeOK, Context
  <2> QED BY <2>1, <2>2, <2>3, <2>4 DEF WaitStep, Serving, HasWork
<1>8. OwnerInv' /\ PeriodInv'
  BY <1>1 DEF ClassicInv, OwnerInv, PeriodInv, IsTimed, periodVars
<1> QED BY <1>2, <1>3, <1>5, <1>6, <1>7, <1>8 DEF ClassicInv

------------------------------------------------------------------------------
(***************************************************************************)
(* The event operations.                                                   *)
(***************************************************************************)

\* The periods are not concerned by a step that does not touch them.
LEMMA PeriodsKept ==
  ASSUME ClassicInv, UNCHANGED <<periodVars, firing>>,
         \A k \in Clock : cleanup'[k] = cleanup[k] /\ wake'[k] = wake[k]
  PROVE  EndingInv' /\ OwnerInv' /\ PeriodInv'
  BY DEF ClassicInv, EndingInv, OwnerInv, PeriodInv, IsTimed, periodVars,
         Serving, HasWork

\* Events are taken or posted and no wait begins or ends.
LEMMA PostInv ==
  ASSUME ClassicInv, NEW t \in Thread, NEW class \in EventClass,
         NEW new \in SUBSET Event,
         pending' = [pending EXCEPT ![<<t, class>>] = new],
         UNCHANGED <<condition, any, eventOut, returnArgument, tqVars, periodVars>>,
         waitQueue[t] = <<t, class>> => ~IsSatisfied(new, condition[t], any[t])
  PROVE  ClassicInv'
<1> USE DEF ClassicInv
<1>1. UniInv' /\ TQTypeOK'
  BY UniStutterInv DEF UniInv, WaitInv
<1>2. TypeOK'
  BY <1>1 DEF TypeOK, EventTypeOK, PeriodTypeOK, periodVars
<1>3. NoSatisfiedWaiter'
  BY DEF NoSatisfiedWaiter, tqVars, TypeOK, EventTypeOK
<1>4. StatusInv' /\ WaitKinds' /\ PeriodWaitUntimed'
  BY Zenon DEF StatusInv, WaitKinds, PeriodWaitUntimed, EventWait, PeriodWait, tqVars
<1>5. EndingInv' /\ OwnerInv' /\ PeriodInv'
  BY PeriodsKept DEF tqVars
<1> QED BY <1>1, <1>2, <1>3, <1>4, <1>5

\* _Event_Seize() starts a wait: the condition does not hold yet.
LEMMA SeizeEventsWaitInv ==
  ASSUME ~Smp, ClassicInv, NEW t \in Thread, NEW class \in EventClass,
         NEW wanted \in SUBSET Event, NEW anyOf \in BOOLEAN,
         SeizeEventsWait(t, class, wanted, anyOf), UNCHANGED periodVars
  PROVE  ClassicInv'
<1> DEFINE q == <<t, class>>
<1>1. q \in Queue /\ CanCall(t) /\ Enqueue(q, t)
  BY EventAssumption DEF SeizeEventsWait
<1>2. UniInv' /\ TQTypeOK /\ TQTypeOK'
  BY <1>1, UniEnqueueInv DEF ClassicInv, UniInv, WaitInv
<1>3. TypeOK'
  BY <1>2
  DEF ClassicInv, TypeOK, EventTypeOK, PeriodTypeOK, periodVars, SeizeEventsWait
<1>4. \A u \in Thread \ {t} :
        /\ waitQueue'[u] = waitQueue[u] /\ returnCode'[u] = returnCode[u]
        /\ pc'[u] = pc[u]
        /\ EventWait(u)' <=> EventWait(u)
        /\ PeriodWait(u)' <=> PeriodWait(u)
  BY <1>1, <1>2 DEF Enqueue, TQTypeOK, EventWait, PeriodWait
<1>5. waitQueue'[t] = q /\ EventWait(t)' /\ returnCode'[t] = "SUCCESSFUL"
  BY <1>1, <1>2 DEF Enqueue, TQTypeOK, EventWait
<1>6. ~PeriodWait(t)'
  BY <1>5, PeriodAssumption DEF PeriodWait
<1>7. /\ condition'[t] = wanted /\ any'[t] = anyOf /\ eventOut'[t] = {}
      /\ returnArgument'[t] = "event_out"
      /\ \A u \in Thread \ {t} :
           /\ condition'[u] = condition[u] /\ any'[u] = any[u]
           /\ eventOut'[u] = eventOut[u] /\ returnArgument'[u] = returnArgument[u]
  BY DEF SeizeEventsWait, ClassicInv, TypeOK, EventTypeOK
<1>8. NoSatisfiedWaiter'
  <2> SUFFICES ASSUME NEW u \in Thread, NEW e \in EventClass,
                      waitQueue'[u] = <<u, e>>
               PROVE  ~IsSatisfied(pending[<<u, e>>], condition'[u], any'[u])
    BY DEF NoSatisfiedWaiter, SeizeEventsWait
  <2>1. CASE u = t
    BY Zenon, <1>5, <1>7, <2>1 DEF SeizeEventsWait
  <2>2. CASE u # t
    BY <1>4, <1>7, <2>2 DEF ClassicInv, NoSatisfiedWaiter
  <2> QED BY <2>1, <2>2
<1>9. StatusInv'
  BY <1>4, <1>5, <1>7 DEF ClassicInv, StatusInv
<1>10. WaitKinds'
  BY <1>4, <1>5, <1>7, PeriodAssumption DEF ClassicInv, WaitKinds
<1>11. PeriodWaitUntimed'
  BY Zenon, <1>1, <1>4, <1>6 DEF ClassicInv, PeriodWaitUntimed, Enqueue
<1>12. EndingInv' /\ OwnerInv' /\ PeriodInv'
  BY <1>1, PeriodsKept DEF Enqueue
<1> QED BY <1>2, <1>3, <1>8, <1>9, <1>10, <1>11, <1>12 DEF ClassicInv

\* _Event_Surrender() ends a wait with the events it is satisfied with.
LEMMA SurrenderSatisfyInv ==
  ASSUME ~Smp, ClassicInv, NEW c \in Thread \cup Isr, NEW t \in Thread,
         NEW class \in EventClass, NEW events \in SUBSET Event,
         SurrenderSatisfy(c, t, class, events), UNCHANGED periodVars
  PROVE  ClassicInv'
<1> DEFINE posted == pending[<<t, class>>] \cup events
<1>1. /\ waitQueue[t] = <<t, class>> /\ CanCall(c) /\ Extract(c, {t})
      /\ UNCHANGED <<condition, any, returnArgument, returnCode>>
      /\ pending' = [pending EXCEPT ![<<t, class>>] = posted \ condition[t]]
      /\ eventOut' = [eventOut EXCEPT ![t] = posted \cap condition[t]]
      /\ IsSatisfied(posted, condition[t], any[t])
  BY DEF SurrenderSatisfy, IsBlockingOnEvent
<1>2. EventWait(t) /\ ~PeriodWait(t) /\ waitQueue[t] # None
  BY Zenon, <1>1, WaitsDiffer DEF EventWait
<1>3. UniInv' /\ TQTypeOK /\ TQTypeOK'
  <2>1. c \in Context /\ {t} \in SUBSET Thread
    BY Zenon DEF Context
  <2>2. UniInv /\ returnCode' \in [Thread -> Status]
    BY Zenon, <1>1 DEF ClassicInv, TypeOK, TQTypeOK
  <2> QED BY <1>1, <1>2, <2>1, <2>2, UniExtractInv DEF UniInv, WaitInv
<1>4. TypeOK'
  BY Zenon, <1>1, <1>3
  DEF ClassicInv, TypeOK, EventTypeOK, PeriodTypeOK, periodVars
<1>5. waitQueue'[t] = None /\ ~EventWait(t)' /\ ~PeriodWait(t)'
  <2>1. waitQueue'[t] = None
    BY Zenon, <1>1 DEF Extract, LeaveQueue
  <2>2. \A e \in EventClass \cup {"PERIOD"} : <<t, e>> # None
    BY Zenon, ThreadQueueAssumption, EventAssumption, PeriodAssumption
  <2> QED BY <2>1, <2>2 DEF EventWait, PeriodWait
<1>6. \A u \in Thread \ {t} :
        /\ waitQueue'[u] = waitQueue[u]
        /\ EventWait(u)' <=> EventWait(u)
        /\ PeriodWait(u)' <=> PeriodWait(u)
  BY <1>1 DEF Extract, LeaveQueue, EventWait, PeriodWait
<1>7. /\ eventOut'[t] = posted \cap condition[t]
      /\ \A u \in Thread \ {t} : eventOut'[u] = eventOut[u]
      /\ \A u \in Thread \ {t}, e \in EventClass :
           pending'[<<u, e>>] = pending[<<u, e>>]
  BY Zenon, <1>1 DEF ClassicInv, TypeOK, EventTypeOK
<1>8. NoSatisfiedWaiter'
  <2> SUFFICES ASSUME NEW u \in Thread, NEW e \in EventClass, waitQueue'[u] = <<u, e>>
               PROVE  ~IsSatisfied(pending'[<<u, e>>], condition'[u], any'[u])
    BY Zenon DEF NoSatisfiedWaiter, IsSatisfied
  <2>1. u # t
    BY Zenon, <1>5 DEF EventWait
  <2>2. /\ waitQueue[u] = <<u, e>> /\ pending'[<<u, e>>] = pending[<<u, e>>]
        /\ condition' = condition /\ any' = any
    BY Zenon, <1>1, <1>6, <1>7, <2>1
  <2> QED BY Zenon, <2>2 DEF ClassicInv, NoSatisfiedWaiter
<1>9. StatusInv'
  <2>1. returnCode[t] = "SUCCESSFUL"
    BY Zenon, <1>2 DEF ClassicInv, StatusInv
  <2>2. IsSatisfied(posted \cap condition[t], condition[t], any[t])
    BY Zenon, <1>1 DEF IsSatisfied
  <2> QED BY ZenonT(30), <1>1, <1>5, <1>6, <1>7, <2>1, <2>2 DEF ClassicInv, StatusInv
<1>10. WaitKinds'
  BY Zenon, <1>1, <1>2, <1>5, <1>6 DEF ClassicInv, WaitKinds
<1>11. PeriodWaitUntimed'
  BY Zenon, <1>1, <1>5, <1>6 DEF ClassicInv, PeriodWaitUntimed, Extract
<1>12. EndingInv' /\ OwnerInv' /\ PeriodInv'
  <2>1. \A k \in Clock : k # c
    BY ThreadQueueAssumption
  <2> QED BY Zenon, <1>1, <1>3, <2>1, PeriodsKept DEF Extract, TQTypeOK, Context
<1> QED BY <1>3, <1>4, <1>8, <1>9, <1>10, <1>11, <1>12 DEF ClassicInv

\* Every call of the event manager preserves the invariant.
LEMMA EventOperationInv ==
  ASSUME ~Smp, ClassicInv, NEW c \in Thread \cup Isr, EventOperation(c),
         UNCHANGED periodVars
  PROVE  ClassicInv'
<1>1. PICK class \in EventClass :
        \/ /\ c \in Receiver
           /\ \E wanted \in SUBSET Event, anyOf \in BOOLEAN :
                \/ SeizeEvents(c, class, wanted, anyOf)
                \/ SeizeEventsWait(c, class, wanted, anyOf)
        \/ \E t \in Receiver, events \in SUBSET Event \ {{}} :
             \/ SurrenderSatisfy(c, t, class, events)
             \/ SurrenderPost(c, t, class, events)
  BY Zenon DEF EventOperation
<1>2. Receiver \subseteq Thread
  BY EventAssumption
<1>3. \A t \in Thread : pending[<<t, class>>] \in SUBSET Event
  BY DEF ClassicInv, TypeOK, EventTypeOK
<1>4. ASSUME c \in Thread, NEW wanted \in SUBSET Event, NEW anyOf \in BOOLEAN,
             SeizeEvents(c, class, wanted, anyOf)
      PROVE  ClassicInv'
  <2>1. waitQueue[c] # <<c, class>>
    BY <1>4, WaitingNotRunning, WaitsDiffer
    DEF SeizeEvents, CanCall, EventWait, ClassicInv, UniInv
  <2>2. (pending[<<c, class>>] \ wanted) \in SUBSET Event
    BY <1>3, <1>4
  <2> QED BY Zenon, <1>4, <2>1, <2>2, PostInv DEF SeizeEvents
<1>5. ASSUME NEW t \in Thread, NEW events \in SUBSET Event,
             SurrenderPost(c, t, class, events)
      PROVE  ClassicInv'
  <2>1. (pending[<<t, class>>] \cup events) \in SUBSET Event
    BY <1>3
  <2> QED BY Zenon, <1>5, <2>1, PostInv DEF SurrenderPost, IsBlockingOnEvent
<1> QED BY <1>1, <1>2, <1>4, <1>5, SeizeEventsWaitInv, SurrenderSatisfyInv

------------------------------------------------------------------------------
(***************************************************************************)
(* The period operations.                                                  *)
(***************************************************************************)

\* What an operation that only touches periods leaves alone.
LEMMA WaitsKept ==
  ASSUME ClassicInv, UNCHANGED <<tqVars, eventVars, returnArgument>>
  PROVE  /\ UniInv' /\ TQTypeOK' /\ EventTypeOK'
         /\ returnArgument' \in [Thread -> Period \cup {None, "event_out"}]
         /\ NoSatisfiedWaiter' /\ StatusInv' /\ WaitKinds' /\ PeriodWaitUntimed'
<1> USE DEF ClassicInv
<1>1. UniInv' /\ TQTypeOK'
  BY UniStutterInv DEF UniInv, WaitInv
<1>2. EventTypeOK' /\ returnArgument' \in [Thread -> Period \cup {None, "event_out"}]
  BY Zenon DEF TypeOK, EventTypeOK, eventVars
<1>3. NoSatisfiedWaiter' /\ StatusInv' /\ WaitKinds' /\ PeriodWaitUntimed'
  BY Zenon DEF NoSatisfiedWaiter, StatusInv, WaitKinds, PeriodWaitUntimed, EventWait,
         PeriodWait, tqVars, eventVars
<1> QED BY <1>1, <1>2, <1>3

\* No thread runs while a clock ends a period.
LEMMA NoEnding ==
  ASSUME ~Smp, NEW t \in Thread, Undisturbed(t)
  PROVE  \A k \in Clock : ending[k] = None
  BY DEF Undisturbed

\* Create, cancel, delete, activate and the call of an owner that is late.
LEMMA PeriodCallInv ==
  ASSUME ~Smp, ClassicInv, UNCHANGED eventVars, NEW t \in Thread, NEW p \in Period,
         \/ Create(t, p) \/ (\E k \in Clock : Activate(t, p, k))
         \/ BlockWhileExpired(t, p) \/ Cancel(t, p) \/ DeletePeriod(t, p)
  PROVE  ClassicInv'
<1> USE DEF ClassicInv
<1>1. Undisturbed(t) /\ CanCall(t)
  BY DEF Create, Activate, BlockWhileExpired, Cancel, DeletePeriod, CallsPeriod
<1>2. \A k \in Clock : ending[k] = None
  BY <1>1, NoEnding
<1>3. PeriodTypeOK /\ None \notin Thread \cup Clock \cup Period
  BY ThreadQueueAssumption, PeriodAssumption DEF TypeOK
<1>4. UNCHANGED <<ending, returnArgument, tqVars>>
  <2>1. ASSUME NEW k \in Clock, Activate(t, p, k)
        PROVE  UNCHANGED <<ending, returnArgument, tqVars>>
    <3>1. periodTimer[p] = None
      BY Zenon, <2>1 DEF Activate, PeriodInv, IsTimed
    <3>2. fatal = FALSE /\ fatal' = FALSE
      BY <1>1, <2>1, <3>1
      DEF Activate, InsertTimer, CanCall, UniInv, WaitInv, TQTypeOK
    <3> QED BY Zenon, <2>1, <3>2 DEF Activate, tqVars
  <2> QED BY <2>1 DEF Create, BlockWhileExpired, Cancel, DeletePeriod
<1>5. /\ UniInv' /\ TQTypeOK' /\ EventTypeOK'
      /\ returnArgument' \in [Thread -> Period \cup {None, "event_out"}]
      /\ NoSatisfiedWaiter' /\ StatusInv' /\ WaitKinds' /\ PeriodWaitUntimed'
  BY <1>4, WaitsKept
<1>6. EndingInv'
  BY <1>4 DEF EndingInv, Serving, HasWork, tqVars
<1>7. PeriodTypeOK'
  <2>1. \A n \in 0 .. PostponedMaximum : Decrement(n) \in 0 .. PostponedMaximum
    BY PeriodAssumption DEF Decrement
  <2>2. 0 \in 0 .. PostponedMaximum
    BY PeriodAssumption
  <2>3. CASE Create(t, p)
    BY Zenon, <1>3, <2>3 DEF Create, PeriodTypeOK
  <2>4. ASSUME NEW k \in Clock, Activate(t, p, k) PROVE PeriodTypeOK'
    BY <1>3, <2>2, <2>4 DEF Activate, InsertTimer, PeriodTypeOK
  <2>5. CASE BlockWhileExpired(t, p)
    BY <1>3, <2>1, <2>5 DEF BlockWhileExpired, PeriodTypeOK
  <2>6. CASE Cancel(t, p)
    BY <1>3, <2>6 DEF Cancel, CancelPeriod, PeriodTypeOK
  <2>7. CASE DeletePeriod(t, p)
    BY Zenon, <1>3, <2>7 DEF DeletePeriod, CancelPeriod, PeriodTypeOK
  <2> QED BY <2>3, <2>4, <2>5, <2>6, <2>7
<1>8. OwnerInv'
  BY <1>3
  DEF OwnerInv, PeriodTypeOK, Create, Activate, BlockWhileExpired, Cancel,
      DeletePeriod, CancelPeriod, CallsPeriod
<1>9. PeriodInv'
  <2> DEFINE Timed(q) == state[q] # "INACTIVE" <=> periodTimer[q] # None
  <2>1. \A q \in Period : Timed(q)
    BY Zenon, <1>2, <1>3 DEF PeriodInv, IsTimed
  <2>2. \A q \in Period : Timed(q)'
    <3>1. CASE Create(t, p) \/ \E k \in Clock : Activate(t, p, k)
      BY <1>3, <2>1, <3>1 DEF PeriodTypeOK, Create, Activate, InsertTimer
    <3>2. CASE BlockWhileExpired(t, p)
      BY <1>3, <2>1, <3>2 DEF PeriodTypeOK, BlockWhileExpired, InsertTimer
    <3>3. CASE Cancel(t, p) \/ DeletePeriod(t, p)
      BY <1>3, <2>1, <3>3 DEF PeriodTypeOK, Cancel, DeletePeriod, CancelPeriod
    <3> QED BY Zenon, <3>1, <3>2, <3>3
  <2>3. \A q \in Period, k \in Clock : ending'[k] # q
    BY Zenon, <1>2, <1>3, <1>4
  <2> QED BY Zenon, <2>2, <2>3 DEF PeriodInv, IsTimed
<1> QED BY <1>5, <1>6, <1>7, <1>8, <1>9 DEF TypeOK

\* The owner waits for the end of its period.
LEMMA BlockWhileActiveInv ==
  ASSUME ~Smp, ClassicInv, UNCHANGED eventVars, NEW t \in Thread, NEW p \in Period,
         BlockWhileActive(t, p)
  PROVE  ClassicInv'
<1> DEFINE q == <<t, "PERIOD">>
<1>1. q \in Queue /\ q # None
  BY PeriodAssumption, ThreadQueueAssumption
<1>2. /\ CanCall(t) /\ WaitInv /\ TQTypeOK /\ TimerInv
      /\ pc[t] = "run" /\ ~blocked[t] /\ timer[t] = None /\ waitQueue[t] = None
      /\ waitFlags[t] \in {"INITIAL", "READY_AGAIN"}
  BY Zenon DEF BlockWhileActive, CallsPeriod, CanCall, ClassicInv, UniInv, WaitInv,
         LocationInv, FlagsMatchQueue, TimerInv
<1>3. \A k \in Clock : firing[k] = None
  BY Zenon, <1>2, ThreadQueueAssumption DEF CanCall, HasProcessor, Serving
<1>4. /\ waitQueue' = [waitQueue EXCEPT ![t] = q]
      /\ ahead' = AheadAfterEnqueue(q, t)
      /\ waitFlags' = [waitFlags EXCEPT ![t] = "INTEND_TO_BLOCK"]
      /\ pc' = [pc EXCEPT ![t] = "set_state"]
      /\ returnArgument' = [returnArgument EXCEPT ![t] = p]
      /\ UNCHANGED <<returnCode, blocked, timer, firing, cleanup, wake, fatal,
                     periodVars>>
  BY Zenon DEF BlockWhileActive
<1>5. TQTypeOK'
  BY <1>1, <1>2, <1>4
  DEF TQTypeOK, AheadAfterEnqueue, Waiters, Location, Blocking, WaitFlags
<1>6. LocationInv' /\ ClockInv'
  BY Zenon, <1>2, <1>4 DEF LocationInv, ClockInv, WaitInv, TQTypeOK, HasWork
<1>7. FlagsMatchQueue'
  BY Zenon, <1>1, <1>2, <1>4 DEF FlagsMatchQueue, WaitInv, TQTypeOK
<1>8. NoLostWakeup' /\ NoStrayWakeup'
  <2>1. \A u \in Thread : Wakers(u)' = Wakers(u)
    BY Zenon, <1>4 DEF Wakers
  <2>2. Wakers(t) = {}
    BY Zenon, <1>2 DEF WaitInv, NoStrayWakeup
  <2>3. \A u \in Thread \ {t} : pc'[u] = pc[u] /\ waitQueue'[u] = waitQueue[u]
    BY Zenon, <1>2, <1>4 DEF TQTypeOK
  <2>4. pc'[t] # "dispatch"
    BY Zenon, <1>2, <1>4 DEF TQTypeOK
  <2>5. NoLostWakeup'
    BY Zenon, <1>2, <1>4, <2>1, <2>3, <2>4 DEF WaitInv, NoLostWakeup
  <2>6. NoStrayWakeup'
    BY Zenon, <1>2, <1>4, <2>1, <2>2, <2>3 DEF WaitInv, NoStrayWakeup
  <2> QED BY <2>5, <2>6
<1>9. UniInv'
  <2>1. TimerInv'
    BY <1>2, <1>3, <1>4, ThreadQueueAssumption DEF TimerInv, TQTypeOK
  <2>2. ~fatal'
    BY <1>4 DEF ClassicInv, UniInv, WatchdogInactiveAtInsert
  <2> QED BY <1>5, <1>6, <1>7, <1>8, <2>1, <2>2
      DEF UniInv, WaitInv, WatchdogInactiveAtInsert
<1>10. TypeOK'
  BY <1>4, <1>5
  DEF ClassicInv, TypeOK, EventTypeOK, PeriodTypeOK, eventVars, periodVars
<1>11. PeriodWait(t)' /\ ~EventWait(t)' /\ ~EventWait(t)
  <2>1. waitQueue'[t] = q
    BY <1>2, <1>4 DEF TQTypeOK
  <2>2. \A class \in EventClass : <<t, class>> # q /\ <<t, class>> # None
    BY Zenon, EventAssumption, PeriodAssumption, ThreadQueueAssumption
  <2> QED BY Zenon, <1>2, <2>1, <2>2 DEF PeriodWait, EventWait
<1>12. \A u \in Thread \ {t} :
         /\ waitQueue'[u] = waitQueue[u] /\ pc'[u] = pc[u]
         /\ returnArgument'[u] = returnArgument[u]
         /\ EventWait(u)' <=> EventWait(u)
         /\ PeriodWait(u)' <=> PeriodWait(u)
  BY Zenon, <1>2, <1>4 DEF TQTypeOK, EventWait, PeriodWait, ClassicInv, TypeOK
<1>13. NoSatisfiedWaiter'
  BY ZenonT(30), <1>11, <1>12 DEF ClassicInv, NoSatisfiedWaiter, EventWait, eventVars
<1>14. StatusInv'
  BY ZenonT(30), <1>4, <1>11, <1>12 DEF ClassicInv, StatusInv, eventVars
<1>15. WaitKinds'
  BY Zenon, <1>11, <1>12 DEF ClassicInv, WaitKinds
<1>16. PeriodWaitUntimed'
  <2>1. pc'[t] # "callout" /\ timer'[t] = None /\ \A k \in Clock : firing'[k] # t
    BY <1>2, <1>3, <1>4, ThreadQueueAssumption DEF TQTypeOK
  <2> QED BY Zenon, <1>4, <1>12, <2>1 DEF ClassicInv, PeriodWaitUntimed
<1>17. EndingInv' /\ OwnerInv' /\ PeriodInv'
  BY Zenon, <1>4, PeriodsKept
<1> QED BY <1>9, <1>10, <1>13, <1>14, <1>15, <1>16, <1>17 DEF ClassicInv

------------------------------------------------------------------------------
(***************************************************************************)
(* The end of a period.                                                    *)
(***************************************************************************)

\* The clock that ends a period serves nothing else, so that its timer can be
\* inserted again.
LEMMA EndingFacts ==
  ASSUME ClassicInv, NEW k \in Clock, NEW p \in Period, ending[k] = p
  PROVE  /\ periodTimer[p] = None /\ state[p] # "INACTIVE"
         /\ owner[p] \in Thread /\ ~Serving(k) /\ p # None
         /\ \A j \in Clock : ending[j] = p => j = k
  BY Zenon, PeriodAssumption
  DEF ClassicInv, PeriodInv, IsTimed, OwnerInv, EndingInv

\* What the end of the routine of a period does to the periods.
LEMMA RestartInv ==
  ASSUME ClassicInv, NEW k \in Clock, NEW p \in Period, ending[k] = p,
         periodTimer' = [periodTimer EXCEPT ![p] = k],
         ending' = [ending EXCEPT ![k] = None],
         UNCHANGED <<created, owner>>,
         \/ UNCHANGED <<state, postponed>>
         \/ /\ state' = [state EXCEPT ![p] = "EXPIRED"]
            /\ postponed' = [postponed EXCEPT ![p] = Increment(@)]
  PROVE  PeriodTypeOK' /\ OwnerInv' /\ PeriodInv'
<1>1. /\ periodTimer[p] = None /\ state[p] # "INACTIVE" /\ owner[p] \in Thread
      /\ p # None /\ \A j \in Clock : ending[j] = p => j = k
  BY EndingFacts
<1>2. PeriodTypeOK /\ None \notin Clock /\ None \notin Period
  BY ThreadQueueAssumption, PeriodAssumption DEF ClassicInv, TypeOK
<1>3. PeriodTypeOK'
  <2>1. \A n \in 0 .. PostponedMaximum : Increment(n) \in 0 .. PostponedMaximum
    BY PeriodAssumption DEF Increment
  <2> QED BY <1>2, <2>1 DEF PeriodTypeOK
<1>4. OwnerInv'
  BY Zenon, <1>1, <1>2 DEF ClassicInv, OwnerInv, PeriodTypeOK
<1>5. ASSUME NEW q \in Period
      PROVE  /\ state'[q] # "INACTIVE" <=> IsTimed(q)'
             /\ periodTimer'[q] # None => \A j \in Clock : ending'[j] # q
  <2>1. CASE q = p
    <3>1. periodTimer'[p] = k /\ state'[p] # "INACTIVE"
      BY <1>1, <1>2 DEF PeriodTypeOK
    <3>2. \A j \in Clock : ending'[j] # p
      BY <1>1, <1>2 DEF PeriodTypeOK
    <3> QED BY <1>2, <2>1, <3>1, <3>2 DEF IsTimed
  <2>2. CASE q # p
    <3>1. periodTimer'[q] = periodTimer[q] /\ state'[q] = state[q]
      BY <1>2, <2>2 DEF PeriodTypeOK
    <3>2. \A j \in Clock : ending'[j] = q <=> ending[j] = q
      BY <1>2, <2>2 DEF PeriodTypeOK
    <3> QED BY <3>1, <3>2 DEF ClassicInv, PeriodInv, IsTimed
  <2> QED BY <2>1, <2>2
<1> QED BY <1>3, <1>4, <1>5 DEF PeriodInv

\* The watchdog of a period expires.
LEMMA EndPeriodInv ==
  ASSUME ClassicInv, UNCHANGED eventVars, NEW k \in Clock, NEW p \in Period,
         EndPeriod(k, p)
  PROVE  ClassicInv'
<1> USE DEF ClassicInv
<1>1. PeriodTypeOK /\ None \notin Thread \cup Clock \cup Period
  BY Zenon, ThreadQueueAssumption, PeriodAssumption DEF TypeOK
<1>2. /\ ending' = [ending EXCEPT ![k] = p]
      /\ periodTimer' = [periodTimer EXCEPT ![p] = None]
      /\ ~Serving(k) /\ ending[k] = None /\ periodTimer[p] = k
      /\ UNCHANGED <<created, owner, state, postponed, returnArgument, tqVars>>
  BY DEF EndPeriod
<1>3. /\ UniInv' /\ TQTypeOK' /\ EventTypeOK'
      /\ returnArgument' \in [Thread -> Period \cup {None, "event_out"}]
      /\ NoSatisfiedWaiter' /\ StatusInv' /\ WaitKinds' /\ PeriodWaitUntimed'
  BY <1>2, WaitsKept
<1>4. PeriodTypeOK' /\ OwnerInv'
  BY Zenon, <1>1, <1>2 DEF PeriodTypeOK, OwnerInv
<1>5. \A j \in Clock : ending[j] # p
  BY Zenon, <1>1, <1>2 DEF PeriodInv
<1>6. \A j \in Clock : ending'[j] = IF j = k THEN p ELSE ending[j]
  BY Zenon, <1>1, <1>2 DEF PeriodTypeOK
<1>7. EndingInv'
  <2>1. \A j \in Clock : Serving(j)' <=> Serving(j)
    BY Zenon, <1>2 DEF Serving, HasWork, tqVars
  <2> QED BY <1>2, <1>5, <1>6, <2>1 DEF EndingInv
<1>8. ASSUME NEW q \in Period
      PROVE  /\ state'[q] # "INACTIVE" <=> IsTimed(q)'
             /\ periodTimer'[q] # None => \A j \in Clock : ending'[j] # q
  <2>1. CASE q = p
    BY <1>1, <1>2, <1>6, <2>1 DEF PeriodInv, IsTimed, PeriodTypeOK
  <2>2. CASE q # p
    <3>1. \A j \in Clock : ending'[j] = q <=> ending[j] = q
      BY <1>1, <1>2, <1>6, <2>2
    <3> QED BY <1>1, <1>2, <2>2, <3>1 DEF PeriodInv, IsTimed, PeriodTypeOK
  <2> QED BY <2>1, <2>2
<1> QED BY <1>3, <1>4, <1>7, <1>8 DEF TypeOK, PeriodInv

\* The owner did not call in time.
LEMMA RenewDeadlineInv ==
  ASSUME ClassicInv, UNCHANGED eventVars, NEW k \in Clock, NEW p \in Period,
         RenewDeadline(k, p)
  PROVE  ClassicInv'
<1>1. ending[k] = p /\ periodTimer[p] = None
  BY Zenon, EndingFacts DEF RenewDeadline
<1>2. PeriodTypeOK' /\ OwnerInv' /\ PeriodInv'
  BY Zenon, <1>1, RestartInv DEF RenewDeadline, InsertTimer
<1>3. UNCHANGED <<tqVars, returnArgument>>
  <2>1. fatal = FALSE /\ fatal' = FALSE
    BY Zenon, <1>1
    DEF RenewDeadline, InsertTimer, ClassicInv, UniInv, WaitInv, TQTypeOK
  <2> QED BY Zenon, <2>1 DEF RenewDeadline, tqVars
<1>4. /\ UniInv' /\ TQTypeOK' /\ EventTypeOK'
      /\ returnArgument' \in [Thread -> Period \cup {None, "event_out"}]
      /\ NoSatisfiedWaiter' /\ StatusInv' /\ WaitKinds' /\ PeriodWaitUntimed'
  BY Zenon, <1>3, WaitsKept
<1>5. EndingInv'
  <2>1. \A j \in Clock : ending'[j] # None => j # k /\ ending'[j] = ending[j]
    BY DEF RenewDeadline, ClassicInv, TypeOK, PeriodTypeOK
  <2> QED BY Zenon, <1>3, <2>1 DEF ClassicInv, EndingInv, Serving, HasWork, tqVars
<1> QED BY Zenon, <1>2, <1>4, <1>5 DEF ClassicInv, TypeOK

\* The owner waits: its wait ends and the next period begins.
LEMMA ReleaseOwnerInv ==
  ASSUME ClassicInv, UNCHANGED eventVars, NEW k \in Clock, NEW p \in Period,
         ReleaseOwner(k, p)
  PROVE  ClassicInv'
<1>1. /\ ending[k] = p /\ periodTimer[p] = None /\ owner[p] \in Thread
      /\ ~Serving(k) /\ p # None
  BY Zenon, EndingFacts DEF ReleaseOwner
<1> PICK t \in Thread : t = owner[p]
  BY <1>1
<1>2. /\ LeaveQueue({t}) /\ returnArgument[t] = p
      /\ returnArgument' = [returnArgument EXCEPT ![t] = None]
      /\ wake' = [wake EXCEPT ![k] = MustUnblock({t})]
      /\ UNCHANGED <<created, owner, state, postponed, pc, returnCode, blocked,
                     timer, firing, cleanup>>
  BY DEF ReleaseOwner, WaitsForPeriod
<1>3. fatal = FALSE /\ fatal' = FALSE
  BY ZenonT(30), <1>1
  DEF ReleaseOwner, InsertTimer, ClassicInv, UniInv, WaitInv, TQTypeOK
<1>4. PeriodTypeOK' /\ OwnerInv' /\ PeriodInv'
  BY ZenonT(30), <1>1, RestartInv DEF ReleaseOwner, InsertTimer
<1>5. PeriodWait(t) /\ waitQueue[t] # None /\ ~EventWait(t) /\ timer[t] = None
  BY Zenon, <1>1, <1>2, WaitsDiffer DEF ClassicInv, WaitKinds, PeriodWaitUntimed
<1>6. /\ WaitInv /\ TQTypeOK /\ TimerInv
      /\ cleanup[k] = {} /\ wake[k] = {} /\ firing[k] = None
      /\ waitFlags[t] \in {"INTEND_TO_BLOCK", "BLOCKED"}
  BY ZenonT(30), <1>1, <1>5
  DEF ClassicInv, UniInv, WaitInv, Serving, HasWork, FlagsMatchQueue
<1>7. \A d \in Context : t \notin cleanup[d] /\ t \notin wake[d]
  BY ZenonT(30), <1>1, <1>5, <1>6 DEF WaitInv, NoStrayWakeup, Wakers
<1>8. TQTypeOK'
  BY ZenonT(30), <1>1, <1>2, <1>3, <1>6
  DEF TQTypeOK, LeaveQueue, AheadAfterExtract, MustUnblock, WaitFlags
<1>9. LocationInv' /\ FlagsMatchQueue'
  BY ZenonT(30), <1>1, <1>2, <1>6
  DEF WaitInv, LocationInv, FlagsMatchQueue, LeaveQueue, TQTypeOK
<1>10. ClockInv'
  BY ZenonT(30), <1>1, <1>2, <1>6, ThreadQueueAssumption
  DEF WaitInv, ClockInv, LeaveQueue, HasWork, TQTypeOK, Context
<1>11. \A u \in Thread : u # t => Wakers(u)' = Wakers(u)
  BY ZenonT(30), <1>1, <1>2, <1>6 DEF Wakers, MustUnblock, TQTypeOK
<1>12. Wakers(t)' = IF waitFlags[t] = "BLOCKED" THEN {k} ELSE {}
  BY ZenonT(30), <1>1, <1>2, <1>6, <1>7 DEF Wakers, MustUnblock, TQTypeOK, Context
<1>13. NoLostWakeup'
  <2>1. pc[t] = "dispatch" => Wakers(t)' # {}
    BY ZenonT(30), <1>6, <1>12 DEF WaitInv, LocationInv
  <2>2. \A u \in Thread \ {t} : waitQueue'[u] = waitQueue[u]
    BY ZenonT(30), <1>2 DEF LeaveQueue
  <2> QED BY ZenonT(30), <1>2, <1>6, <1>11, <2>1, <2>2 DEF WaitInv, NoLostWakeup
<1>14. NoStrayWakeup'
  <2>1. \A u \in Thread : u # t => waitQueue'[u] = waitQueue[u]
    BY Zenon, <1>2 DEF LeaveQueue
  <2>2. ASSUME NEW u \in Thread, u # t, NEW c \in Wakers(u)'
        PROVE  /\ pc'[u] = "dispatch" /\ blocked'[u] /\ waitQueue'[u] = None
               /\ Wakers(u)' = {c} /\ u \notin cleanup[c] \cap wake[c]
    <3>1. Wakers(u)' = Wakers(u)
      BY Zenon, <1>11, <2>2
    <3>2. c \in Wakers(u)
      BY Zenon, <2>2, <3>1
    <3>3. /\ pc[u] = "dispatch" /\ blocked[u] /\ waitQueue[u] = None
          /\ Wakers(u) = {c} /\ u \notin cleanup[c] \cap wake[c]
      BY Zenon, <1>6, <3>2 DEF WaitInv, NoStrayWakeup
    <3> QED BY Zenon, <1>2, <2>1, <2>2, <3>1, <3>3
  <2>3. ASSUME NEW u \in Thread, u # t, NEW c \in Context
        PROVE  u \in wake'[c] => u \in wake[c]
    BY Zenon, <1>2, <1>6, <2>3 DEF MustUnblock, TQTypeOK
  <2>4. ASSUME NEW c \in Wakers(t)'
        PROVE  /\ pc'[t] = "dispatch" /\ blocked'[t] /\ waitQueue'[t] = None
               /\ Wakers(t)' = {c} /\ t \notin cleanup'[c]
    <3>1. waitFlags[t] = "BLOCKED" /\ Wakers(t)' = {c} /\ c \in Context
      BY <1>12, <2>4 DEF Wakers
    <3>2. pc[t] = "dispatch" /\ blocked[t]
      BY Zenon, <1>6, <3>1 DEF WaitInv, FlagsMatchQueue
    <3>3. waitQueue'[t] = None
      BY Zenon, <1>2 DEF LeaveQueue
    <3> QED BY Zenon, <1>2, <1>7, <3>1, <3>2, <3>3
  <2>5. \A u \in Thread : \A c \in Wakers(u)' : c \in Context
    BY Zenon DEF Wakers, Context
  <2>6. ASSUME NEW u \in Thread, NEW c \in Wakers(u)'
        PROVE  /\ pc'[u] = "dispatch" /\ blocked'[u] /\ waitQueue'[u] = None
               /\ Wakers(u)' = {c} /\ u \notin cleanup'[c] \cap wake'[c]
    <3>1. CASE u = t
      BY <2>4, <2>6, <3>1
    <3>2. CASE u # t
      BY Zenon, <1>2, <2>2, <2>3, <2>5, <2>6, <3>2
    <3> QED BY Zenon, <3>1, <3>2
  <2> QED BY Zenon, <2>6 DEF NoStrayWakeup
<1>15. TimerInv'
  <2>1. \A c \in Context, u \in Thread : u \in wake'[c] => u \in wake[c] \/ u = t
    BY Zenon, <1>2, <1>6 DEF MustUnblock, TQTypeOK
  <2> QED BY Zenon, <1>2, <1>5, <1>6, <2>1 DEF TimerInv
<1>16. UniInv'
  BY Zenon, <1>3, <1>8, <1>9, <1>10, <1>13, <1>14, <1>15
  DEF UniInv, WaitInv, WatchdogInactiveAtInsert
<1>17. TypeOK'
  BY <1>2, <1>4, <1>8 DEF ClassicInv, TypeOK, EventTypeOK, eventVars
<1>18. ~EventWait(t)' /\ ~PeriodWait(t)' /\ waitQueue'[t] = None
  <2>1. waitQueue'[t] = None
    BY Zenon, <1>1, <1>2 DEF LeaveQueue
  <2>2. \A e \in EventClass \cup {"PERIOD"} : <<t, e>> # None
    BY Zenon, <1>1, ThreadQueueAssumption, EventAssumption, PeriodAssumption
  <2> QED BY Zenon, <2>1, <2>2 DEF EventWait, PeriodWait
<1>19. \A u \in Thread \ {t} :
         /\ waitQueue'[u] = waitQueue[u] /\ returnArgument'[u] = returnArgument[u]
         /\ EventWait(u)' <=> EventWait(u)
         /\ PeriodWait(u)' <=> PeriodWait(u)
  BY Zenon, <1>2 DEF LeaveQueue, EventWait, PeriodWait, ClassicInv, TypeOK
<1>20. NoSatisfiedWaiter'
  BY ZenonT(30), <1>18, <1>19 DEF ClassicInv, NoSatisfiedWaiter, EventWait, eventVars
<1>21. StatusInv'
  <2>1. UNCHANGED <<returnCode, eventOut, condition, any>>
    BY Zenon, <1>2 DEF eventVars
  <2>2. \A u \in Thread : EventWait(u)' <=> EventWait(u)
    BY Zenon, <1>5, <1>18, <1>19
  <2> QED BY Zenon, <2>1, <2>2 DEF ClassicInv, StatusInv, IsSatisfied
<1>22. WaitKinds'
  <2>1. returnArgument'[t] = None /\ None \notin Period
    BY <1>1, <1>2, PeriodAssumption DEF ClassicInv, TypeOK
  <2> QED BY Zenon, <1>18, <1>19, <2>1 DEF ClassicInv, WaitKinds
<1>23. PeriodWaitUntimed'
  BY ZenonT(30), <1>2, <1>18, <1>19 DEF ClassicInv, PeriodWaitUntimed
<1>24. EndingInv'
  <2>1. \A j \in Clock : ending'[j] # None => j # k /\ ending'[j] = ending[j]
    BY Zenon DEF ReleaseOwner, ClassicInv, TypeOK, PeriodTypeOK
  <2>2. \A j \in Clock \ {k} : Serving(j)' <=> Serving(j)
    BY Zenon, <1>2, <1>6 DEF Serving, HasWork, TQTypeOK, Context
  <2> QED BY Zenon, <2>1, <2>2 DEF ClassicInv, EndingInv
<1> QED BY Zenon, <1>4, <1>16, <1>17, <1>20, <1>21, <1>22, <1>23, <1>24 DEF ClassicInv

------------------------------------------------------------------------------
\* Every step preserves the invariant.
LEMMA ClassicInvStep ==
  ASSUME ~Smp, ClassicInv, [Next]_vars
  PROVE  ClassicInv'
<1>1. CASE UNCHANGED vars
  <2>1. UNCHANGED <<tqVars, eventVars, periodVars, returnArgument>>
    BY <1>1 DEF vars
  <2>2. /\ UniInv' /\ TQTypeOK' /\ EventTypeOK'
        /\ returnArgument' \in [Thread -> Period \cup {None, "event_out"}]
        /\ NoSatisfiedWaiter' /\ StatusInv' /\ WaitKinds' /\ PeriodWaitUntimed'
    BY Zenon, <2>1, WaitsKept
  <2>3. EndingInv' /\ OwnerInv' /\ PeriodInv'
    BY Zenon, <2>1, PeriodsKept DEF tqVars
  <2>4. PeriodTypeOK'
    BY <2>1 DEF ClassicInv, TypeOK, PeriodTypeOK, periodVars
  <2> QED BY <2>2, <2>3, <2>4 DEF ClassicInv, TypeOK
<1>2. CASE WaitStep
  BY <1>2, WaitStepInv
<1>3. ASSUME NEW c \in Thread \cup Isr, EventOperation(c), UNCHANGED periodVars
      PROVE  ClassicInv'
  BY <1>3, EventOperationInv
<1>4. CASE PeriodOperation /\ UNCHANGED eventVars
  BY <1>4, PeriodCallInv, BlockWhileActiveInv DEF PeriodOperation
<1>5. ASSUME NEW k \in Clock, PeriodClockStep(k), UNCHANGED eventVars
      PROVE  ClassicInv'
  BY <1>5, EndPeriodInv, ReleaseOwnerInv, RenewDeadlineInv DEF PeriodClockStep
<1> QED BY <1>1, <1>2, <1>3, <1>4, <1>5 DEF Next

\* On a uniprocessor no thread waits for events that are pending
\* (_Event_Surrender(), _Event_Seize()).
THEOREM NobodyWaitsSatisfied == ~Smp => (Spec => []NoSatisfiedWaiter)
<1> SUFFICES ASSUME ~Smp PROVE Spec => []NoSatisfiedWaiter
  OBVIOUS
<1>1. ClassicInv /\ [Next]_vars => ClassicInv'
  BY ClassicInvStep
<1>2. ClassicInv => NoSatisfiedWaiter
  BY Zenon DEF ClassicInv
<1> QED BY <1>1, <1>2, ClassicInvInit, PTL DEF Spec

\* On a uniprocessor an event wait returns the events it was satisfied with, or
\* no events and a status that says why, also if waits for periods lie between
\* it and the look at its result (_Event_Satisfy(), _Thread_Continue()).
THEOREM StatusTellsEvents == ~Smp => (Spec => []EventsMatchStatus)
<1> SUFFICES ASSUME ~Smp PROVE Spec => []EventsMatchStatus
  OBVIOUS
<1>1. ClassicInv /\ [Next]_vars => ClassicInv'
  BY ClassicInvStep
<1>2. ClassicInv => EventsMatchStatus
  BY WaitsDiffer DEF ClassicInv, StatusInv, EventsMatchStatus
<1> QED BY <1>1, <1>2, ClassicInvInit, PTL DEF Spec

\* On a uniprocessor an active period has its
\* watchdog scheduled or their routine about to be called, and a watchdog is
\* never inserted twice (_Rate_monotonic_Timeout(), rtems_rate_monotonic_cancel()).
THEOREM PeriodsTimed == ~Smp => (Spec => [](ActiveIffTimed /\ WatchdogInactiveAtInsert))
<1> SUFFICES ASSUME ~Smp
             PROVE  Spec => [](ActiveIffTimed /\ WatchdogInactiveAtInsert)
  OBVIOUS
<1>1. ClassicInv /\ [Next]_vars => ClassicInv'
  BY ClassicInvStep
<1>2. ClassicInv => ActiveIffTimed /\ WatchdogInactiveAtInsert
  BY DEF ClassicInv, UniInv, PeriodInv, ActiveIffTimed
<1> QED BY <1>1, <1>2, ClassicInvInit, PTL DEF Spec

\* On a uniprocessor the timeout of a thread only hits the wait it was started
\* for, also with waits for events and periods in any order (_Thread_Timeout()).
THEOREM TaskTimeout == ~Smp => (Spec => []TimerBelongsToWait)
<1> SUFFICES ASSUME ~Smp PROVE Spec => []TimerBelongsToWait
  OBVIOUS
<1>1. ClassicInv /\ [Next]_vars => ClassicInv'
  BY ClassicInvStep
<1>2. ClassicInv => TimerBelongsToWait
  BY UniInvImplies DEF ClassicInv
<1> QED BY <1>1, <1>2, ClassicInvInit, PTL DEF Spec
===============================================================================
