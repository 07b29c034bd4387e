-------------------------- MODULE CountingSemaphore --------------------------
(***************************************************************************)
(* What counting semaphores promise, without thread queues, wait flags,    *)
(* timers and unblocking: a surrendered unit goes to the count or to       *)
(* exactly one waiting thread, whose call then returns with success; a     *)
(* wait can also fail (timeout, flush, deletion), and then it takes no     *)
(* unit with it.  The variable balance is what the callers know: a         *)
(* surrender adds one, a seize that returns with success takes one.  Hence *)
(* a step that ends a wait with success is a surrender, and a surrender    *)
(* does something.                                                         *)
(***************************************************************************)
EXTENDS Integers

CONSTANTS Thread, Semaphore, None, MaximumCount

VARIABLES
  count,       \* units available, per semaphore
  open,        \* the semaphores that exist
  waitingFor,  \* the semaphore a thread waits for, or None
  outcome,     \* of a wait that ended and did not return yet, else "none"
  asked,       \* the semaphore of a call that did not return yet, or None
  balance      \* the units the callers may still take, per semaphore

semVars == <<count, open, waitingFor, outcome, asked, balance>>

Booked(s, units) == balance' = [balance EXCEPT ![s] = @ + units]

Idle(t) == waitingFor[t] = None /\ outcome[t] = "none"

WaitersOf(s) == {t \in Thread : waitingFor[t] = s}

AbsInit ==
  /\ count = [s \in Semaphore |-> 0]
  /\ open = [s \in Semaphore |-> FALSE]
  /\ waitingFor = [t \in Thread |-> None]
  /\ outcome = [t \in Thread |-> "none"]
  /\ asked = [t \in Thread |-> None]
  /\ balance = [s \in Semaphore |-> 0]

Create(s, v) ==
  /\ ~open[s]
  /\ open' = [open EXCEPT ![s] = TRUE]
  /\ count' = [count EXCEPT ![s] = v]
  /\ Booked(s, v)
  /\ UNCHANGED <<waitingFor, outcome, asked>>

Take(s) ==
  /\ open[s]
  /\ count[s] > 0
  /\ count' = [count EXCEPT ![s] = @ - 1]
  /\ Booked(s, -1)
  /\ UNCHANGED <<open, waitingFor, outcome, asked>>

Wait(t, s) ==
  /\ open[s]
  /\ count[s] = 0
  /\ Idle(t)
  /\ waitingFor' = [waitingFor EXCEPT ![t] = s]
  /\ asked' = [asked EXCEPT ![t] = s]
  /\ UNCHANGED <<count, open, outcome, balance>>

\* A unit is released to the count: only if nobody waits for it.
Give(s) ==
  /\ open[s]
  /\ WaitersOf(s) = {}
  /\ count[s] < MaximumCount
  /\ count' = [count EXCEPT ![s] = @ + 1]
  /\ Booked(s, 1)
  /\ UNCHANGED <<open, waitingFor, outcome, asked>>

EndWaits(S, result) ==
  /\ waitingFor' = [t \in Thread |-> IF t \in S THEN None ELSE waitingFor[t]]
  /\ outcome' = [t \in Thread |-> IF t \in S THEN result ELSE outcome[t]]

\* A unit is released to one waiting thread.
Grant(t, s) ==
  /\ waitingFor[t] = s
  /\ EndWaits({t}, "granted")
  /\ Booked(s, 1)
  /\ UNCHANGED <<count, open, asked>>

Fail(t) ==
  /\ waitingFor[t] # None
  /\ EndWaits({t}, "failed")
  /\ UNCHANGED <<count, open, asked, balance>>

FailAll(s) ==
  /\ EndWaits(WaitersOf(s), "failed")
  /\ UNCHANGED <<count, open, asked, balance>>

Delete(s) ==
  /\ open[s]
  /\ open' = [open EXCEPT ![s] = FALSE]
  /\ EndWaits(WaitersOf(s), "failed")
  /\ Booked(s, -count[s])
  /\ UNCHANGED <<count, asked>>

\* The call returns; only a granted unit is taken.
Finish(t) ==
  /\ outcome[t] # "none"
  /\ outcome' = [outcome EXCEPT ![t] = "none"]
  /\ asked' = [asked EXCEPT ![t] = None]
  /\ IF outcome[t] = "granted" THEN Booked(asked[t], -1)
                               ELSE UNCHANGED balance
  /\ UNCHANGED <<count, open, waitingFor>>

AbsNext ==
  \/ \E s \in Semaphore, v \in 0 .. MaximumCount : Create(s, v)
  \/ \E s \in Semaphore : Take(s) \/ Give(s) \/ FailAll(s) \/ Delete(s)
  \/ \E t \in Thread, s \in Semaphore : Wait(t, s) \/ Grant(t, s)
  \/ \E t \in Thread : Fail(t) \/ Finish(t)

AbsSpec == AbsInit /\ [][AbsNext]_semVars
==============================================================================
