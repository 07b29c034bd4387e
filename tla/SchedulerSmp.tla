---- MODULE SchedulerSmp ----
(***************************************************************************)
(* The SMP scheduler framework (schedulersmpimpl.h) as the simple SMP      *)
(* scheduler instantiates it, with several scheduler instances, the        *)
(* scheduler helping protocol between them, sticky nodes (MrsP) and thread *)
(* dispatch.                                                               *)
(*                                                                         *)
(* Every thread has a scheduler node in each instance; the nodes of its    *)
(* home instance and of the instances that currently help it take part in  *)
(* scheduling.  A step is one critical section of one instance's lock.  A  *)
(* call about a thread holds the thread's state lock over several such     *)
(* sections, so that calls about one thread are serialised while those     *)
(* about different threads interleave between the sections.                *)
(***************************************************************************)
EXTENDS Naturals, Integers, FiniteSets, SequencesExt

CONSTANTS
  Thread,         \* the ordinary threads
  Instance,       \* the scheduler instances
  Cpu,            \* the processors
  None,
  LateRelease,    \* may a thread be blocked before it has released its stickiness?
  HelpPriority,   \* priorities of the waiters of other instances (bound)
  Priority,       \* priorities of ordinary threads; smaller is more urgent
  Application     \* the configured applications, each a record with the fields
                  \*   cpusOf    sequence of the processors of each instance
                  \*   home      home instance of each thread
                  \*   initial   priority of each thread at the start
                  \*   started   the threads it has
                  \*   helped    ... that other instances may help (bound)
                  \*   sticky    ... that use MrsP semaphores (bound)
                  \*   changing  ... whose priority changes (bound)

Idle(c) == <<"idle", c>>
IdleThread == {Idle(c) : c \in Cpu}
AnyThread == Thread \cup IdleThread

\* PRIORITY_MAXIMUM, the priority of the idle threads.
IdlePriority == 1 + CHOOSE p \in Priority : \A o \in Priority : o <= p

Node == AnyThread \X Instance

ASSUME SchedulerAssumption ==
  /\ Priority # {} /\ Priority \subseteq Nat
  /\ \A a \in Application :
       /\ a.home \in [Thread -> Instance]
       /\ a.initial \in [Thread -> Priority]
       /\ \A c \in Cpu : \E i \in Instance : c \in Range(a.cpusOf[i])

VARIABLES
  app,       \* the application, never changes
  node,      \* scheduler node: state, priority, sticky level, idle thread in use
  chain,     \* scheduler instance: the Scheduled, Ready and Idle_threads chains
  thr,       \* thread: Scheduler.state, processor, processor whose need-for-help chain it is on
  heir,      \* heir of each processor
  live,      \* thread whose context is on the processor (Registers.is_executing)
  ready,     \* the thread's current_state is STATES_READY
  wanted,    \* Priority.value and Priority.prepend_it of a node
  waitNodes, \* instances of Wait_nodes other than the home instance
  requests,  \* pending requests to add or remove helping nodes
  helping,   \* instances of Scheduler_nodes after the home instance
  due,       \* a priority update of the thread is to come
  todo,      \* the sections still to come of the call that holds the state lock
  helper,    \* thread a processor took from its need-for-help chain
  cleanup    \* the thread still has to run its post-switch cleanup

threadVars == <<ready, wanted, waitNodes, requests, helping, due>>
schedVars == <<node, chain, thr, heir>>
vars == <<app, schedVars, threadVars, live, todo, helper, cleanup>>

Home == app.home
CpusOf == app.cpusOf

\* The idle thread of a processor belongs to the instance of the processor.
HomeOf(t) ==
  IF t \in Thread THEN Home[t] ELSE CHOOSE i \in Instance : t[2] \in Range(CpusOf[i])
HomeNode(t) == <<t, HomeOf(t)>>

\* The state the scheduler operations below transform.
Now == [node |-> node, chain |-> chain, thr |-> thr, heir |-> heir]

Becomes(k) ==
  /\ node' = k.node
  /\ chain' = k.chain
  /\ thr' = k.thr
  /\ heir' = k.heir

Init ==
  /\ app \in Application
  /\ node = [n \in Node |->
       [state |-> IF n[1] \in IdleThread /\ n = HomeNode(n[1])
                  THEN "SCHEDULED" ELSE "BLOCKED",
        priority |-> IF n[1] \in IdleThread THEN IdlePriority
                     ELSE app.initial[n[1]],
        sticky |-> 0, idle |-> None]]
  /\ chain = [i \in Instance |->
       [scheduled |-> [j \in DOMAIN CpusOf[i] |-> <<Idle(CpusOf[i][j]), i>>],
        ready |-> <<>>,
        idle |-> Reverse([j \in DOMAIN CpusOf[i] |-> Idle(CpusOf[i][j])])]]
  /\ thr = [t \in AnyThread |->
       [state |-> IF t \in IdleThread THEN "SCHEDULED" ELSE "BLOCKED",
        cpu |-> IF t \in IdleThread THEN t[2] ELSE CpusOf[Home[t]][1],
        help |-> None]]
  /\ heir = [c \in Cpu |-> Idle(c)]
  /\ live = [c \in Cpu |-> Idle(c)]
  /\ ready = [t \in Thread |-> FALSE]
  /\ wanted = [n \in Node |-> [value |-> node[n].priority, prepend |-> FALSE]]
  /\ waitNodes = [t \in Thread |-> {}]
  /\ requests = [t \in Thread |-> <<>>]
  /\ helping = [t \in Thread |-> <<>>]
  /\ due = [t \in Thread |-> FALSE]
  /\ todo = [t \in Thread |-> <<>>]
  /\ helper = [c \in Cpu |-> None]
  /\ cleanup = [t \in Thread |-> FALSE]

-----------------------------------------------------------------------------
(* Helpers: nodes, threads and chains.                                     *)

\* _Scheduler_Node_get_user: the idle thread in use, else the owner.
User(k, n) == IF k.node[n].idle = None THEN n[1] ELSE k.node[n].idle

SetNodeState(k, n, s) == [k EXCEPT !.node[n].state = s]
SetThreadState(k, t, s) == [k EXCEPT !.thr[t].state = s]
SetHeir(k, c, t) == [k EXCEPT !.heir[c] = t]
SetCpu(k, t, c) == [k EXCEPT !.thr[t].cpu = c]

\* _Thread_Scheduler_cancel_need_for_help
CancelHelp(k, t) == [k EXCEPT !.thr[t].help = None]

\* helping_nodes of a thread; idle threads are never helped.
Helpers(t) == IF t \in Thread THEN Len(helping[t]) ELSE 0

\* Does a node of priority p go before node n?
Before(k, lifo, p, n) == IF lifo THEN p <= k.node[n].priority ELSE p < k.node[n].priority

\* _Chain_Insert_ordered_unprotected
InsertOrdered(k, s, n, lifo) ==
  LET j == SelectInSeq(s, LAMBDA m : Before(k, lifo, k.node[n].priority, m))
  IN  IF j = 0 THEN Append(s, n) ELSE InsertAt(s, j, n)

InsertScheduled(k, i, n, lifo) ==
  [k EXCEPT !.chain[i].scheduled = InsertOrdered(k, @, n, lifo)]
InsertReady(k, i, n, lifo) ==
  [k EXCEPT !.chain[i].ready = InsertOrdered(k, @, n, lifo)]
ExtractFromScheduled(k, i, n) == [k EXCEPT !.chain[i].scheduled = Remove(@, n)]
ExtractFromReady(k, i, n) == [k EXCEPT !.chain[i].ready = Remove(@, n)]
MoveFromScheduledToReady(k, i, n) == InsertReady(ExtractFromScheduled(k, i, n), i, n, TRUE)
MoveFromReadyToScheduled(k, i, n) == InsertScheduled(ExtractFromReady(k, i, n), i, n, FALSE)

-----------------------------------------------------------------------------
(* Idle threads that stand in for the owner of a sticky node.              *)

\* _Scheduler_Use_idle_thread: the first idle thread becomes the node's user.
UseIdle(k, i, n, c) ==
  LET idle == Head(k.chain[i].idle)
  IN  [k EXCEPT !.chain[i].idle = Tail(@), !.node[n].idle = idle, !.thr[idle].cpu = c]

\* _Scheduler_Release_idle_thread
ReleaseIdle(k, i, n) ==
  IF k.node[n].idle = None THEN k
  ELSE [k EXCEPT !.chain[i].idle = <<k.node[n].idle>> \o @, !.node[n].idle = None]

\* _Scheduler_Exchange_idle_thread
ExchangeIdle(k, needs, uses) ==
  [k EXCEPT !.node[needs].idle = k.node[uses].idle, !.node[uses].idle = None]

\* _Scheduler_Discard_idle_thread: the owner takes the processor over.
DiscardIdle(k, i, t, n) ==
  LET c == k.thr[k.node[n].idle].cpu
  IN  SetHeir(SetCpu(ReleaseIdle(k, i, n), t, c), c, t)

\* _Scheduler_Try_to_schedule_node: what is to be done with a node that has
\* its turn, given the idle thread of the node it displaces.
TryAction(k, n, idle) ==
  LET s == k.thr[n[1]].state
  IN  CASE s = "READY" -> "SCHEDULE"
        [] s = "SCHEDULED" /\ k.node[n].sticky <= 1 -> "BLOCK"
        [] s # "READY" /\ k.node[n].sticky = 0 -> "BLOCK"
        [] OTHER -> IF idle # None THEN "EXCHANGE" ELSE "SCHEDULE"

\* The state change that goes with the action SCHEDULE.
TryToSchedule(k, i, n) ==
  IF k.thr[n[1]].state = "READY"
  THEN SetThreadState(CancelHelp(k, n[1]), n[1], "SCHEDULED")
  ELSE UseIdle(k, i, n, k.thr[n[1]].cpu)

-----------------------------------------------------------------------------
(* Processor allocation.                                                   *)

IsLive(t) == t \in Range(live)

\* Mutant: the displaced heir is not told its new processor.
AllocateKeepsCpu(k, i, n, victimThread, victimCpu) ==
  LET u == User(k, n)
      c == k.thr[u].cpu
      stays == IsLive(u) /\ c \in Range(CpusOf[i])
      h == IF stays THEN k.heir[c] ELSE u
      k1 == SetNodeState(IF stays THEN SetHeir(k, c, u) ELSE k, n, "SCHEDULED")
  IN  IF h = victimThread THEN k1 ELSE SetHeir(SetCpu(k1, u, victimCpu), victimCpu, h)

\* _Scheduler_SMP_Allocate_processor with the lazy policy: a thread that
\* still executes on a processor of the instance stays there, and the heir
\* of that processor moves instead.
Allocate(k, i, n, victimThread, victimCpu) ==
  LET u == User(k, n)
      c == k.thr[u].cpu
      stays == IsLive(u) /\ c \in Range(CpusOf[i])
      h == IF stays THEN k.heir[c] ELSE u
      k1 == SetNodeState(IF stays THEN SetHeir(k, c, u) ELSE k, n, "SCHEDULED")
  IN  IF h = victimThread THEN k1 ELSE SetHeir(SetCpu(k1, h, victimCpu), victimCpu, h)

\* Mutant: the preempted thread does not ask for help.
PreemptUnheard(k, i, n, victim) ==
  LET t == User(k, victim)
      k1 == SetNodeState(k, victim, "READY")
      k2 == IF k.thr[t].state # "SCHEDULED" THEN k1 ELSE SetThreadState(k1, t, "READY")
  IN  Allocate(k2, i, n, t, k.thr[t].cpu)

\* _Scheduler_SMP_Preempt
Preempt(k, i, n, victim) ==
  LET t == User(k, victim)
      c == k.thr[t].cpu
      k1 == SetNodeState(k, victim, "READY")
      k2 == IF k.thr[t].state # "SCHEDULED" THEN k1
            ELSE [k1 EXCEPT !.thr[t].state = "READY",
                            !.thr[t].help = IF Helpers(t) > 0 THEN c ELSE @]
  IN  Allocate(k2, i, n, t, c)

\* _Scheduler_SMP_Enqueue_to_scheduled
EnqueueToScheduled(k, i, n, lowest, lifo) ==
  LET action == TryAction(k, n, k.node[lowest].idle)
      Swap(j) == MoveFromScheduledToReady(InsertScheduled(j, i, n, lifo), i, lowest)
  IN  CASE action = "SCHEDULE" ->
             ReleaseIdle(Swap(Preempt(TryToSchedule(k, i, n), i, n, lowest)), i, lowest)
        [] action = "EXCHANGE" ->
             ExchangeIdle(
               Swap(SetNodeState(SetNodeState(k, lowest, "READY"), n, "SCHEDULED")), n, lowest)
        [] OTHER -> SetNodeState(k, n, "BLOCKED")

\* _Scheduler_SMP_Enqueue_ordered: does the node find a place on a processor,
\* and the state with the node enqueued.
FindsPlace(k, i, n, lifo) ==
  Before(k, lifo, k.node[n].priority, Last(k.chain[i].scheduled))

Enqueue(k, i, n, lifo) ==
  IF FindsPlace(k, i, n, lifo)
  THEN EnqueueToScheduled(k, i, n, Last(k.chain[i].scheduled), lifo)
  ELSE InsertReady(k, i, n, lifo)

\* The loops over the ready chain set aside the nodes that cannot use a
\* processor: those before the first one of stops, which end the loop.
SetAside(k, i, stops) ==
  LET s == k.chain[i].ready
      j == SelectInSeq(s, LAMBDA m : m \in stops)
      dropped == {s[m] : m \in 1..(j - 1)}
  IN  [k EXCEPT !.chain[i].ready = SubSeq(s, j, Len(s)),
                !.node = [n \in Node |-> IF n \in dropped
                            THEN [k.node[n] EXCEPT !.state = "BLOCKED"] ELSE k.node[n]]]

\* _Scheduler_SMP_Enqueue_scheduled_ordered: place a node that was extracted
\* from the scheduled chain.
EnqueueScheduled(k, i, n, lifo) ==
  LET Stays(m) == k.node[n].sticky > 0 /\ Before(k, lifo, k.node[n].priority, m)
      Takes(m) == TryAction(k, m, k.node[n].idle) # "BLOCK"
      k1 == SetAside(k, i, {m \in ToSet(k.chain[i].ready) : Stays(m) \/ Takes(m)})
      first == Head(k1.chain[i].ready)
      Swap(j) == MoveFromReadyToScheduled(InsertReady(j, i, n, lifo), i, first)
  IN  IF Stays(first)
      THEN LET k2 == InsertScheduled(k1, i, n, lifo)
           IN  IF k.node[n].idle # None /\ k.thr[n[1]].state = "READY"
               THEN SetThreadState(DiscardIdle(CancelHelp(k2, n[1]), i, n[1], n), n[1], "SCHEDULED")
               ELSE k2
      ELSE IF TryAction(k, first, k.node[n].idle) = "SCHEDULE"
      THEN ReleaseIdle(Swap(Preempt(TryToSchedule(k1, i, first), i, first, n)), i, n)
      ELSE ExchangeIdle(
             Swap(SetNodeState(SetNodeState(k1, n, "READY"), first, "SCHEDULED")), first, n)

\* _Scheduler_SMP_Schedule_highest_ready
ScheduleHighestReady(k, i, victim, victimCpu) ==
  LET k1 == SetAside(k, i, {m \in ToSet(k.chain[i].ready) :
                               TryAction(k, m, None) # "BLOCK"})
      first == Head(k1.chain[i].ready)
  IN  MoveFromReadyToScheduled(
        Allocate(TryToSchedule(k1, i, first), i, first, User(k, victim), victimCpu), i, first)

-----------------------------------------------------------------------------
(* The scheduler operations, each inside the lock of instance i.           *)

\* _Scheduler_Ask_for_help and _Scheduler_Request_ask_for_help
RequestHelp(k, t) ==
  IF Helpers(t) > 0 /\ k.thr[t].help = None THEN [k EXCEPT !.thr[t].help = k.thr[t].cpu] ELSE k

\* _Scheduler_SMP_Block and _Scheduler_Block_node, for the home node
BlockNode(k, i, t) ==
  LET n == <<t, i>>
      c == k.thr[t].cpu
      was == k.node[n].state
      k1 == SetThreadState(CancelHelp([k EXCEPT !.node[n].sticky = @ - 1], t), t, "BLOCKED")
      k2 == SetNodeState(k1, n, "BLOCKED")
  IN  IF k1.node[n].sticky > 0
      THEN IF was = "SCHEDULED" /\ k.node[n].idle = None
           THEN LET k3 == UseIdle(k1, i, n, c) IN SetHeir(k3, c, k3.node[n].idle)
           ELSE k1
      ELSE CASE was = "SCHEDULED" -> ScheduleHighestReady(ExtractFromScheduled(k2, i, n), i, n, c)
             [] was = "READY" -> ExtractFromReady(k2, i, n)
             [] OTHER -> k2

\* _Scheduler_SMP_Unblock and _Scheduler_Unblock_node
UnblockNode(k, i, t) ==
  LET n == <<t, i>>
      k1 == [k EXCEPT !.node[n].sticky = @ + 1]
      k2 == [SetThreadState(k1, t, "READY") EXCEPT !.node[n].priority = wanted[n].value]
      k3 == SetNodeState(k2, n, "READY")
  IN  CASE k.node[n].state = "SCHEDULED" ->
             SetThreadState(DiscardIdle(k1, i, t, n), t, "SCHEDULED")
        [] k.node[n].state = "READY" -> RequestHelp(k2, t)
        [] OTHER -> LET k4 == Enqueue(k3, i, n, FALSE)
                    IN  IF FindsPlace(k3, i, n, FALSE) THEN k4 ELSE RequestHelp(k4, t)

\* Mutant: the thread is not asked whether it still needs help.
HelpSucceedsAnyway(k, i, t) ==
  LET n == <<t, i>>
  IN  \/ k.thr[t].state = "READY" /\ k.node[n].state = "SCHEDULED"
      \/ k.node[n].state = "BLOCKED" /\ FindsPlace(k, i, n, TRUE)

\* _Scheduler_SMP_Ask_for_help: does it succeed, and the state after it.
HelpSucceeds(k, i, t) ==
  LET n == <<t, i>>
  IN  /\ k.thr[t].state = "READY"
      /\ \/ k.node[n].state = "SCHEDULED"
         \/ k.node[n].state = "BLOCKED" /\ FindsPlace(k, i, n, TRUE)

AskForHelp(k, i, t) ==
  LET n == <<t, i>>
      lowest == Last(k.chain[i].scheduled)
      k1 == SetThreadState(CancelHelp(k, t), t, "SCHEDULED")
  IN  CASE HelpSucceeds(k, i, t) /\ k.node[n].state = "SCHEDULED" ->
             SetThreadState(DiscardIdle(CancelHelp(k, t), i, t, n), t, "SCHEDULED")
        [] HelpSucceeds(k, i, t) /\ k.node[n].state = "BLOCKED" ->
             ReleaseIdle(
               MoveFromScheduledToReady(
                 InsertScheduled(Preempt(k1, i, n, lowest), i, n, TRUE), i, lowest),
               i, lowest)
        [] ~HelpSucceeds(k, i, t) /\ k.thr[t].state = "READY" /\ k.node[n].state = "BLOCKED" ->
             InsertReady(SetNodeState(k, n, "READY"), i, n, TRUE)
        [] OTHER -> k

\* _Scheduler_SMP_Update_priority, after the sticky level change of
\* _Scheduler_Priority_and_sticky_update
UpdatePriority(k0, i, t, change) ==
  LET n == <<t, i>>
      k == [k0 EXCEPT !.node[n].sticky = @ + change]
      new == [k EXCEPT !.node[n].priority = wanted[n].value]
      lifo == wanted[n].prepend
      Help(j) == IF ready[t] THEN AskForHelp(j, i, t) ELSE j
  IN  CASE wanted[n].value = k.node[n].priority -> Help(k)
        [] wanted[n].value # k.node[n].priority /\ k.node[n].state = "SCHEDULED" ->
             EnqueueScheduled(ExtractFromScheduled(new, i, n), i, n, lifo)
        [] wanted[n].value # k.node[n].priority /\ k.node[n].state = "READY" ->
             Enqueue(ExtractFromReady(new, i, n), i, n, lifo)
        [] OTHER -> Help(new)

\* _Scheduler_SMP_Yield, for the home node
YieldNode(k, i, t) ==
  LET n == <<t, i>>
      k1 == ExtractFromReady(k, i, n)
  IN  CASE k.node[n].state = "SCHEDULED" ->
             EnqueueScheduled(ExtractFromScheduled(k, i, n), i, n, FALSE)
        [] k.node[n].state = "READY" ->
             IF FindsPlace(k1, i, n, FALSE) THEN Enqueue(k1, i, n, FALSE)
             ELSE RequestHelp(Enqueue(k1, i, n, FALSE), t)
        [] OTHER -> RequestHelp(k, t)

\* _Scheduler_SMP_Reconsider_help_request
Reconsider(k, i, t) ==
  LET n == <<t, i>>
  IN  IF k.thr[t].state = "SCHEDULED" /\ k.node[n].state = "READY" /\ k.node[n].sticky = 1
      THEN ExtractFromReady(SetNodeState(k, n, "BLOCKED"), i, n)
      ELSE k

\* _Scheduler_SMP_Withdraw_node
Withdraw(k, i, t, next) ==
  LET n == <<t, i>>
      k1 == SetNodeState(k, n, "BLOCKED")
  IN  CASE k.node[n].state = "SCHEDULED" ->
             ScheduleHighestReady(
               ExtractFromScheduled(SetThreadState(k1, t, next), i, n), i, n, k.thr[t].cpu)
        [] k.node[n].state = "READY" -> ExtractFromReady(k1, i, n)
        [] OTHER -> k1

-----------------------------------------------------------------------------
(* Calls about a thread.  A call starts when the state lock of the thread  *)
(* is free and leaves its remaining sections in todo.                      *)

Free(t) == todo[t] = <<>>

Section(call, i, arg) == [call |-> call, instance |-> i, arg |-> arg]
Sections(call, s, arg) == [j \in DOMAIN s |-> Section(call, s[j], arg)]

\* _Thread_Set_state and _Scheduler_Block: the home section, then a withdrawal
\* from each helping instance.
Block(t) ==
  /\ Free(t) /\ ready[t]
  /\ ready' = [ready EXCEPT ![t] = FALSE]
  /\ Becomes(BlockNode(Now, Home[t], t))
  /\ todo' = [todo EXCEPT ![t] = Sections("withdraw", helping[t], "BLOCKED")]
  /\ UNCHANGED <<live, wanted, waitNodes, requests, helping, due, helper, cleanup>>

\* _Thread_Clear_state and _Scheduler_Unblock
Unblock(t) ==
  /\ Free(t) /\ ~ready[t]
  /\ ready' = [ready EXCEPT ![t] = TRUE]
  /\ Becomes(UnblockNode(Now, Home[t], t))
  /\ UNCHANGED <<live, wanted, waitNodes, requests, helping, due, todo, helper, cleanup>>

\* _Thread_Yield by the executing thread
Yield(t) ==
  /\ Free(t) /\ ready[t] /\ IsLive(t) /\ ~cleanup[t]
  /\ Becomes(YieldNode(Now, Home[t], t))
  /\ UNCHANGED <<threadVars, live, todo, helper, cleanup>>

\* A call of _Thread_Priority_update or _Thread_Priority_and_sticky_update.
\* _Thread_Scheduler_process_requests applies the requests first; it starts
\* the withdrawal of the nodes that no longer help.
Requested(t, kind) == SelectSeq(requests[t], LAMBDA r : r.kind = kind)
Instances(s) == [j \in DOMAIN s |-> s[j].instance]

Update(t, change) ==
  LET added == Instances(Requested(t, "ADD"))
      removed == Instances(Requested(t, "REMOVE"))
      kept == SelectSeq(helping[t] \o added, LAMBDA i : i \notin Range(removed))
  IN  /\ Free(t)
      /\ ready[t] \/ change = 0 \/ (LateRelease /\ change = -1)
      /\ node[HomeNode(t)].sticky + change \in (IF ready[t] THEN {1, 2} ELSE {0, 1})
      /\ helping' = [helping EXCEPT ![t] = kept]
      /\ requests' = [requests EXCEPT ![t] = <<>>]
      /\ due' = [due EXCEPT ![t] = FALSE]
      /\ todo' = [todo EXCEPT ![t] =
           Sections("withdraw", Reverse(removed), "READY")
             \o <<Section("update", Home[t], change)>> \o Sections("update", kept, 0)]
      /\ UNCHANGED <<schedVars, live, ready, wanted, waitNodes, helper, cleanup>>

\* The next section of a call.  Asking for help ends with the first success.
Perform(k, t, s) ==
  CASE s.call = "withdraw" -> Withdraw(k, s.instance, t, s.arg)
    [] s.call = "update" -> UpdatePriority(k, s.instance, t, s.arg)
    [] s.call = "ask" -> AskForHelp(k, s.instance, t)
    [] OTHER -> Reconsider(k, s.instance, t)

NextSection(t) ==
  /\ ~Free(t)
  /\ LET s == Head(todo[t])
     IN  /\ Becomes(Perform(Now, t, s))
         /\ todo' = [todo EXCEPT ![t] =
              IF s.call = "ask" /\ HelpSucceeds(Now, s.instance, t) THEN <<>> ELSE Tail(@)]
  /\ UNCHANGED <<threadVars, live, helper, cleanup>>

-----------------------------------------------------------------------------
(* Priority changes and helping requests, made by the thread queues under  *)
(* the thread wait lock; the update call follows later.                    *)

\* _Thread_Priority_action_change: a node put into the aggregation raises the
\* priority and appends, one taken out lowers it and prepends.
ChangePriority(t, i, p) ==
  /\ t \in app.changing /\ ~due[t]
  /\ i = Home[t] \/ (i \in waitNodes[t] /\ p \in HelpPriority)
  /\ p # wanted[<<t, i>>].value
  /\ wanted' = [wanted EXCEPT ![<<t, i>>] = [value |-> p, prepend |-> p > wanted[<<t, i>>].value]]
  /\ due' = [due EXCEPT ![t] = TRUE]
  /\ UNCHANGED <<schedVars, live, ready, waitNodes, requests, helping, todo, helper, cleanup>>

\* _Thread_Scheduler_add_request
AddRequest(t, i, kind) ==
  LET pending == {r \in Range(requests[t]) : r.instance = i}
  IN  IF pending = {} THEN <<[instance |-> i, kind |-> kind]>> \o requests[t]
      ELSE [j \in DOMAIN requests[t] |->
             IF requests[t][j].instance # i THEN requests[t][j]
             ELSE [instance |-> i,
                   kind |-> IF requests[t][j].kind = "NOTHING" THEN kind ELSE "NOTHING"]]

\* _Thread_Priority_action_add: a waiter of instance i now waits for t.
AddWaitNode(t, i, p) ==
  /\ t \in app.helped /\ i \notin {Home[t]} \cup waitNodes[t]
  /\ waitNodes' = [waitNodes EXCEPT ![t] = @ \cup {i}]
  /\ requests' = [requests EXCEPT ![t] = AddRequest(t, i, "ADD")]
  /\ wanted' = [wanted EXCEPT ![<<t, i>>] = [value |-> p, prepend |-> FALSE]]
  /\ due' = [due EXCEPT ![t] = TRUE]
  /\ UNCHANGED <<schedVars, live, ready, helping, todo, helper, cleanup>>

\* _Thread_Priority_action_remove: no waiter of instance i waits for t.
RemoveWaitNode(t, i) ==
  /\ i \in waitNodes[t]
  /\ waitNodes' = [waitNodes EXCEPT ![t] = @ \ {i}]
  /\ requests' = [requests EXCEPT ![t] = AddRequest(t, i, "REMOVE")]
  /\ due' = [due EXCEPT ![t] = TRUE]
  /\ UNCHANGED <<schedVars, live, ready, wanted, helping, todo, helper, cleanup>>

-----------------------------------------------------------------------------
(* _Thread_Do_dispatch on a processor.                                     *)

\* _Thread_Preemption_intervention takes a thread off the need-for-help chain
TakeNeedForHelp(c, t) ==
  /\ live[c] # None /\ helper[c] = None /\ thr[t].help = c
  /\ helper' = [helper EXCEPT ![c] = t]
  /\ thr' = [thr EXCEPT ![t].help = None]
  /\ UNCHANGED <<node, chain, heir, threadVars, live, todo, cleanup>>

\* and asks for help on its behalf, once it has the thread's state lock.
Intervene(c) ==
  LET t == helper[c]
  IN  /\ t # None /\ Free(t)
      /\ helper' = [helper EXCEPT ![c] = None]
      /\ todo' = [todo EXCEPT ![t] = Sections("ask", <<Home[t]>> \o helping[t], None)]
      /\ UNCHANGED <<schedVars, threadVars, live, cleanup>>

\* _Context_Switch: the context of the executing thread is saved.  A thread may
\* have come onto the need-for-help chain after the intervention, then it is
\* left to the next dispatch,
SwitchFrom(c) ==
  /\ live[c] \notin {None, heir[c]} /\ helper[c] = None
  /\ live' = [live EXCEPT ![c] = None]
  /\ UNCHANGED <<schedVars, threadVars, todo, helper, cleanup>>

\* and that of the heir restored, once no other processor executes it.  Only
\* a helped thread has something to clean up.
SwitchTo(c) ==
  /\ live[c] = None /\ ~IsLive(heir[c])
  /\ live' = [live EXCEPT ![c] = heir[c]]
  /\ cleanup' = [t \in Thread |-> cleanup[t] \/ (t = heir[c] /\ t \in app.helped)]
  /\ UNCHANGED <<schedVars, threadVars, todo, helper>>

\* The heir executes already: somebody asked it to run its post-switch actions
\* (_Thread_Add_post_switch_action), or it was displaced for a moment only.
DispatchSame(c) ==
  /\ live[c] = heir[c] /\ helper[c] = None
  /\ heir[c] \in app.helped /\ ~cleanup[heir[c]]
  /\ cleanup' = [cleanup EXCEPT ![heir[c]] = TRUE]
  /\ UNCHANGED <<schedVars, threadVars, live, todo, helper>>

\* _Thread_Run_post_switch_actions with _Thread_Post_switch_cleanup
PostSwitch(t) ==
  /\ cleanup[t] /\ IsLive(t) /\ Free(t)
  /\ cleanup' = [cleanup EXCEPT ![t] = FALSE]
  /\ todo' = [todo EXCEPT ![t] = IF Helpers(t) > 0 /\ ready[t]
                THEN Sections("reconsider", <<Home[t]>> \o helping[t], None) ELSE <<>>]
  /\ UNCHANGED <<schedVars, threadVars, live, helper>>

-----------------------------------------------------------------------------
ThreadCall(t) ==
  \/ Block(t)
  \/ Unblock(t)
  \/ Yield(t)
  \/ \E change \in {-1, 0, 1} :
       /\ t \in app.sticky \/ (change = 0 /\ t \in app.helped \cup app.changing)
       /\ Update(t, change)
  \/ \E i \in Instance, p \in Priority : ChangePriority(t, i, p)
  \/ \E i \in Instance, p \in HelpPriority : AddWaitNode(t, i, p)
  \/ \E i \in Instance : RemoveWaitNode(t, i)

Dispatch(c) ==
  \/ \E t \in Thread : TakeNeedForHelp(c, t)
  \/ Intervene(c)
  \/ SwitchFrom(c)
  \/ SwitchTo(c)
  \/ DispatchSame(c)

Next ==
  /\ \/ \E t \in app.started : ThreadCall(t) \/ NextSection(t) \/ PostSwitch(t)
     \/ \E c \in Cpu : Dispatch(c)
  /\ UNCHANGED app

Spec == Init /\ [][Next]_vars

-----------------------------------------------------------------------------
(* Properties.                                                             *)

\* The threads that have a processor of instance i by its scheduled chain.
Users(i) == {User(Now, n) : n \in Range(chain[i].scheduled)}

TypeOK ==
  /\ \A n \in Node : /\ node[n].state \in {"BLOCKED", "READY", "SCHEDULED"}
                     /\ node[n].sticky \in 0..2
                     /\ node[n].idle \in {None} \cup IdleThread
  /\ heir \in [Cpu -> AnyThread]
  /\ live \in [Cpu -> AnyThread \cup {None}]
  /\ \A t \in AnyThread : thr[t].state \in {"BLOCKED", "READY", "SCHEDULED"}

\* The scheduled nodes of an instance, its processors and their heirs match
\* one to one: whatever the lazy _Scheduler_SMP_Allocate_processor() moves
\* around while threads still execute elsewhere, every processor has an heir
\* that knows its processor, and no thread is heir twice.
EveryProcessorServed ==
  \A i \in Instance :
    /\ Len(chain[i].scheduled) = Len(CpusOf[i])
    /\ Users(i) = {heir[c] : c \in Range(CpusOf[i])}
    /\ \A c \in Range(CpusOf[i]) : thr[heir[c]].cpu = c

\* No thread has a processor through two of its nodes: an instance that is
\* asked for help (_Scheduler_SMP_Ask_for_help()) finds out that another one
\* has scheduled the thread meanwhile.
ScheduledOnce ==
  LET scheduled == {n \in Node : node[n].state = "SCHEDULED"}
  IN  \A m, n \in scheduled : m # n => User(Now, m) # User(Now, n)

\* The thread itself and its processors are at rest.
Settled(t) == Free(t) /\ ~due[t] /\ thr[t].help = None /\ t \notin Range(helper)

\* A ready thread that has no processor is not more urgent than what runs in
\* its home instance or in an instance that helps it: a thread preempted in
\* one instance is offered to the others (_Scheduler_SMP_Preempt() puts it on
\* the need-for-help chain, _Thread_Preemption_intervention() asks for help),
\* and no request or priority update is lost on the way.
NoPriorityInversion ==
  \A t \in Thread :
    Settled(t) /\ ready[t] /\ thr[t].state # "SCHEDULED" =>
      \A i \in {Home[t]} \cup Range(helping[t]) :
        \A n \in Range(chain[i].scheduled) : node[n].priority <= node[<<t, i>>].priority
====
