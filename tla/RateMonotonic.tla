---------------------------- MODULE RateMonotonic ----------------------------
(***************************************************************************)
(* The Classic API rate monotonic manager.                                 *)
(*                                                                         *)
(* A period has a watchdog of its own.  Its owner waits for the end of the *)
(* period like a thread of ThreadQueue, but without a queue and without a  *)
(* timeout.  A period that ends while the owner still executes its job is  *)
(* counted as a postponed job.                                             *)
(*                                                                         *)
(* Left out: the statistics, the length of a period, and the deadlines,    *)
(* which only the EDF schedulers use.  ThreadQueue removes the timer of a  *)
(* thread that finds its wait ended before it blocked; on the thread timer *)
(* of a period wait, which was not started, this has no effect.  The       *)
(* module extends EventManager for Wait.return_argument, which the waits   *)
(* of both use.                                                            *)
(***************************************************************************)
EXTENDS EventManager

CONSTANTS
  Period,           \* the period objects (Rate_monotonic_Control)
  PostponedMaximum  \* UINT32_MAX

ASSUME PeriodAssumption ==
  /\ Thread \X {"PERIOD"} \subseteq Queue
  /\ "PERIOD" \notin EventClass
  /\ Period \cap {None, "event_out"} = {}
  /\ PostponedMaximum \in Nat

VARIABLES
  created,       \* the periods that exist
  owner,         \* the thread that created the period last, or None
  state,         \* RATE_MONOTONIC_INACTIVE, ..._ACTIVE, ..._EXPIRED
  postponed,     \* postponed_jobs
  periodTimer,   \* Timer: the clock that has it scheduled, or None
  ending         \* for each clock, the period whose _Rate_monotonic_Timeout()
                 \* it will call

periodVars == <<created, owner, state, postponed, periodTimer, ending>>

PeriodTypeOK ==
  /\ created \subseteq Period
  /\ owner \in [Period -> Thread \cup {None}]
  /\ state \in [Period -> {"INACTIVE", "ACTIVE", "EXPIRED"}]
  /\ postponed \in [Period -> 0 .. PostponedMaximum]
  /\ periodTimer \in [Period -> Clock \cup {None}]
  /\ ending \in [Clock -> Period \cup {None}]

PeriodInit ==
  /\ created = {}
  /\ owner = [p \in Period |-> None]
  /\ state = [p \in Period |-> "INACTIVE"]
  /\ postponed = [p \in Period |-> 0]
  /\ periodTimer = [p \in Period |-> None]
  /\ ending = [k \in Clock |-> None]

\* On a uniprocessor no thread executes while a clock ends a period.
Undisturbed(c) ==
  \/ Smp
  \/ c \notin Thread
  \/ \A k \in Clock : ending[k] = None

\* rtems_rate_monotonic_create()
Create(t, p) ==
  /\ CanCall(t)
  /\ Undisturbed(t)
  /\ p \notin created
  /\ created' = created \cup {p}
  /\ owner' = [owner EXCEPT ![p] = t]
  /\ state' = [state EXCEPT ![p] = "INACTIVE"]
  /\ periodTimer' = [periodTimer EXCEPT ![p] = None]
  /\ UNCHANGED <<postponed, ending, returnArgument, tqVars>>

\* _Watchdog_Per_CPU_insert_ticks() asserts that the watchdog is inactive.
InsertTimer(p, k) ==
  /\ periodTimer' = [periodTimer EXCEPT ![p] = k]
  /\ fatal' = (fatal \/ periodTimer[p] # None)

\* The owner of a period calls rtems_rate_monotonic_period().
CallsPeriod(t, p) ==
  /\ CanCall(t)
  /\ Undisturbed(t)
  /\ p \in created
  /\ owner[p] = t

\* _Rate_monotonic_Activate()
Activate(t, p, k) ==
  /\ CallsPeriod(t, p)
  /\ state[p] = "INACTIVE"
  /\ postponed' = [postponed EXCEPT ![p] = 0]
  /\ state' = [state EXCEPT ![p] = "ACTIVE"]
  /\ InsertTimer(p, k)
  /\ UNCHANGED <<created, owner, ending, returnArgument, pc, waitQueue, ahead,
                 waitFlags, returnCode, blocked, timer, firing, cleanup, wake>>

\* _Rate_monotonic_Block_while_active() up to the release of the lock
BlockWhileActive(t, p) ==
  /\ CallsPeriod(t, p)
  /\ state[p] = "ACTIVE"
  /\ postponed[p] = 0
  /\ returnArgument' = [returnArgument EXCEPT ![t] = p]
  /\ waitQueue' = [waitQueue EXCEPT ![t] = <<t, "PERIOD">>]
  /\ ahead' = AheadAfterEnqueue(<<t, "PERIOD">>, t)
  /\ waitFlags' = [waitFlags EXCEPT ![t] = "INTEND_TO_BLOCK"]
  /\ pc' = [pc EXCEPT ![t] = "set_state"]
  /\ UNCHANGED <<returnCode, blocked, timer, firing, cleanup, wake, fatal,
                 periodVars>>

\* --postponed_jobs of a uint32_t
Decrement(n) == IF n = 0 THEN PostponedMaximum ELSE n - 1

\* _Rate_monotonic_Block_while_expired(), which does not block but returns
\* RTEMS_TIMEOUT.
BlockWhileExpired(t, p) ==
  /\ CallsPeriod(t, p)
  /\ state[p] = "EXPIRED" \/ (state[p] = "ACTIVE" /\ postponed[p] > 0)
  /\ state' = [state EXCEPT ![p] = "ACTIVE"]
  /\ postponed' = [postponed EXCEPT ![p] = Decrement(@)]
  /\ UNCHANGED <<created, owner, periodTimer, ending, returnArgument, tqVars>>

\* Mutant: the timer goes on.
CancelPeriodNoRemove(p) ==
  /\ state' = [state EXCEPT ![p] = "INACTIVE"]
  /\ UNCHANGED periodTimer

\* _Rate_monotonic_Cancel()
CancelPeriod(p) ==
  /\ periodTimer' = [periodTimer EXCEPT ![p] = None]
  /\ state' = [state EXCEPT ![p] = "INACTIVE"]

\* rtems_rate_monotonic_cancel()
Cancel(t, p) ==
  /\ CallsPeriod(t, p)
  /\ CancelPeriod(p)
  /\ UNCHANGED <<created, owner, postponed, ending, returnArgument, tqVars>>

\* rtems_rate_monotonic_delete(), by any thread.  A thread that waits for the
\* period is left waiting.
DeletePeriod(t, p) ==
  /\ CanCall(t)
  /\ Undisturbed(t)
  /\ p \in created
  /\ created' = created \ {p}
  /\ CancelPeriod(p)
  /\ UNCHANGED <<owner, postponed, ending, returnArgument, tqVars>>

------------------------------------------------------------------------------
\* The clock takes the due watchdog off its tree, releases the watchdog lock
\* and calls the routine (_Watchdog_Do_tickle()).
EndPeriod(k, p) ==
  /\ ~fatal
  /\ ~Serving(k)
  /\ ending[k] = None
  /\ periodTimer[p] = k
  /\ periodTimer' = [periodTimer EXCEPT ![p] = None]
  /\ ending' = [ending EXCEPT ![k] = p]
  /\ UNCHANGED <<created, owner, state, postponed, returnArgument, tqVars>>

\* Only a wait for a period stores one in the return argument, so this is
\* also the test of the wait class.
WaitsForPeriod(t, p) == returnArgument[t] = p

\* Mutant: the thread is not unblocked.
ReleaseOwnerForgotten(k, p) ==
  LET t == owner[p] IN
    /\ ~fatal
    /\ ending[k] = p
    /\ WaitsForPeriod(t, p)
    /\ returnArgument' = [returnArgument EXCEPT ![t] = None]
    /\ LeaveQueue({t})
    /\ InsertTimer(p, k)
    /\ ending' = [ending EXCEPT ![k] = None]
    /\ UNCHANGED <<created, owner, state, postponed, pc, returnCode, blocked,
                   timer, firing, cleanup, wake>>

\* _Rate_monotonic_Timeout(): the owner waits, the next period begins.
ReleaseOwner(k, p) ==
  LET t == owner[p] IN
    /\ ~fatal
    /\ ending[k] = p
    /\ WaitsForPeriod(t, p)
    /\ returnArgument' = [returnArgument EXCEPT ![t] = None]
    /\ LeaveQueue({t})
    /\ wake' = [wake EXCEPT ![k] = MustUnblock({t})]
    /\ InsertTimer(p, k)
    /\ ending' = [ending EXCEPT ![k] = None]
    /\ UNCHANGED <<created, owner, state, postponed, pc, returnCode, blocked,
                   timer, firing, cleanup>>

\* ++postponed_jobs of a uint32_t, unless it is at its maximum
Increment(n) == IF n = PostponedMaximum THEN n ELSE n + 1

\* _Rate_monotonic_Timeout(): the owner does not wait,
\* _Rate_monotonic_Renew_deadline().
RenewDeadline(k, p) ==
  /\ ~fatal
  /\ ending[k] = p
  /\ ~WaitsForPeriod(owner[p], p)
  /\ postponed' = [postponed EXCEPT ![p] = Increment(@)]
  /\ state' = [state EXCEPT ![p] = "EXPIRED"]
  /\ InsertTimer(p, k)
  /\ ending' = [ending EXCEPT ![k] = None]
  /\ UNCHANGED <<created, owner, returnArgument, pc, waitQueue, ahead,
                 waitFlags, returnCode, blocked, timer, firing, cleanup, wake>>

PeriodOperation ==
  \E t \in Thread, p \in Period :
    \/ Create(t, p)
    \/ \E k \in Clock : Activate(t, p, k)
    \/ BlockWhileActive(t, p)
    \/ BlockWhileExpired(t, p)
    \/ Cancel(t, p)
    \/ DeletePeriod(t, p)

PeriodClockStep(k) ==
  \E p \in Period : EndPeriod(k, p) \/ ReleaseOwner(k, p) \/ RenewDeadline(k, p)

------------------------------------------------------------------------------
IsTimed(p) == periodTimer[p] # None \/ \E k \in Clock : ending[k] = p

\* The end of an active period will come: the period is on the watchdog tree of
\* a clock or its routine is about to be called, and never both, so that a
\* watchdog is not inserted twice.  An inactive period (new, cancelled or
\* deleted) stays off, so that the end of a cancelled period does not come.
\* Of an expired period nothing is claimed here; PeriodEnds has its part.
ActiveIffTimed ==
  \A p \in Period :
    /\ state[p] = "ACTIVE" => IsTimed(p)
    /\ state[p] = "INACTIVE" => ~IsTimed(p)
    /\ periodTimer[p] # None => \A k \in Clock : ending[k] # p

==============================================================================
