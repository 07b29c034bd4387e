---------------------------- MODULE EventManager -----------------------------
(***************************************************************************)
(* The Classic API event manager, and the system events that use the same  *)
(* code.                                                                   *)
(*                                                                         *)
(* A thread waits for events without a thread queue: Wait.queue is NULL,   *)
(* and the class in the wait flags tells what the thread waits for.  The   *)
(* blocking itself is the protocol of ThreadQueue (the same steps in       *)
(* _Event_Seize() and _Thread_queue_Enqueue(), the same compare and swap,  *)
(* the same _Thread_Timeout()).  The pair <<t, class>> stands for the wait *)
(* of thread t in that class.                                              *)
(***************************************************************************)
EXTENDS ThreadQueue

CONSTANTS
  Event,      \* the bits of a rtems_event_set
  EventClass, \* the wait classes, e.g. "EVENT" and "SYSTEM_EVENT"
  Receiver    \* the threads that receive events

ASSUME EventAssumption ==
  /\ Receiver \subseteq Thread
  /\ Thread \X EventClass \subseteq Queue

VARIABLES
  pending,        \* pending_events of each thread and class
  condition,      \* Wait.count: the events the thread waits for
  any,            \* Wait.option: RTEMS_EVENT_ANY
  eventOut,       \* *event_out of the latest wait
  returnArgument  \* Wait.return_argument: where the events go, or in
                  \* RateMonotonic the period the thread waits for

eventVars == <<pending, condition, any, eventOut>>

EventTypeOK ==
  /\ pending \in [Thread \X EventClass -> SUBSET Event]
  /\ condition \in [Thread -> SUBSET Event]
  /\ any \in [Thread -> BOOLEAN]
  /\ eventOut \in [Thread -> SUBSET Event]

EventInit ==
  /\ pending = [w \in Thread \X EventClass |-> {}]
  /\ condition = [t \in Thread |-> {}]
  /\ any = [t \in Thread |-> FALSE]
  /\ eventOut = [t \in Thread |-> {}]

\* _Event_Is_satisfied(), and the same test in _Event_Seize()
IsSatisfied(events, wanted, anyOf) ==
  LET seized == events \cap wanted
  IN seized # {} /\ (anyOf \/ seized = wanted)

\* _Event_Seize(): the condition holds already.  The events are returned and
\* no wait begins.
SeizeEvents(t, class, wanted, anyOf) ==
  /\ CanCall(t)
  /\ IsSatisfied(pending[<<t, class>>], wanted, anyOf)
  /\ pending' = [pending EXCEPT ![<<t, class>>] = @ \ wanted]
  /\ UNCHANGED <<condition, any, eventOut, returnArgument, tqVars>>

\* _Event_Seize() up to the release of the lock, the thread has to wait.
SeizeEventsWait(t, class, wanted, anyOf) ==
  /\ CanCall(t)
  /\ wanted # {}
  /\ ~IsSatisfied(pending[<<t, class>>], wanted, anyOf)
  /\ condition' = [condition EXCEPT ![t] = wanted]
  /\ any' = [any EXCEPT ![t] = anyOf]
  /\ eventOut' = [eventOut EXCEPT ![t] = {}]
  /\ returnArgument' = [returnArgument EXCEPT ![t] = "event_out"]
  /\ Enqueue(<<t, class>>, t)
  /\ UNCHANGED pending

\* Mutant: a thread that intends to block is not noticed.
IsBlockingOnEventLate(t, class) ==
  waitQueue[t] = <<t, class>> /\ waitFlags[t] = "BLOCKED"

\* _Event_Is_blocking_on_event()
IsBlockingOnEvent(t, class) == waitQueue[t] = <<t, class>>

\* _Event_Surrender(): the wait of thread t ends with the events it wants.
SurrenderSatisfy(c, t, class, events) ==
  LET posted == pending[<<t, class>>] \cup events IN
    /\ CanCall(c)
    /\ IsBlockingOnEvent(t, class)
    /\ IsSatisfied(posted, condition[t], any[t])
    /\ pending' = [pending EXCEPT ![<<t, class>>] = posted \ condition[t]]
    /\ eventOut' = [eventOut EXCEPT ![t] = posted \cap condition[t]]
    /\ Extract(c, {t})
    /\ UNCHANGED <<condition, any, returnArgument, returnCode>>

\* _Event_Surrender(): thread t does not wait, or for more than that.
SurrenderPost(c, t, class, events) ==
  LET posted == pending[<<t, class>>] \cup events IN
    /\ CanCall(c)
    /\ ~(IsBlockingOnEvent(t, class)
           /\ IsSatisfied(posted, condition[t], any[t]))
    /\ pending' = [pending EXCEPT ![<<t, class>>] = posted]
    /\ UNCHANGED <<condition, any, eventOut, returnArgument, tqVars>>

EventOperation(c) ==
  \E class \in EventClass :
    \/ /\ c \in Receiver
       /\ \E wanted \in SUBSET Event, anyOf \in BOOLEAN :
            \/ SeizeEvents(c, class, wanted, anyOf)
            \/ SeizeEventsWait(c, class, wanted, anyOf)
    \/ \E t \in Receiver, events \in SUBSET Event \ {{}} :
         \/ SurrenderSatisfy(c, t, class, events)
         \/ SurrenderPost(c, t, class, events)

------------------------------------------------------------------------------
\* No thread waits while the events it waits for are pending: whatever order
\* a send, a timeout and the steps of the blocking thread come in, the events
\* are either left for the next call or end the wait (_Event_Surrender()).
NoSatisfiedWaiter ==
  \A t \in Thread, class \in EventClass :
    waitQueue[t] = <<t, class>>
      => ~IsSatisfied(pending[<<t, class>>], condition[t], any[t])

\* The status tells what was received: a wait that ended with
\* STATUS_SUCCESSFUL has the events in *event_out, one that ended with
\* STATUS_TIMEOUT has taken none (_Event_Satisfy() and _Thread_Continue()
\* end a wait once, and never both).
EventsMatchStatus ==
  \A t \in Thread :
    condition[t] # {} /\ waitQueue[t] = None =>
      IF returnCode[t] = "SUCCESSFUL"
        THEN IsSatisfied(eventOut[t], condition[t], any[t])
        ELSE eventOut[t] = {}
==============================================================================
