--------------------------- MODULE CoreMessageQueue ---------------------------
(***************************************************************************)
(* Message queues (CORE_message_queue_Control) on top of the thread queue  *)
(* handler, in a configuration with the POSIX API.  One thread queue       *)
(* serves blocked receivers and blocked senders; only a POSIX sender may   *)
(* block.                                                                  *)
(*                                                                         *)
(* A message is an opaque value that is used again only after it left the  *)
(* system, so that each one can be followed.  A submit type is a number,   *)
(* smaller is more urgent: Urgent for rtems_message_queue_urgent(), Normal *)
(* for rtems_message_queue_send(), and the negated POSIX message priority  *)
(* in between.                                                             *)
(***************************************************************************)
EXTENDS ThreadQueue, Sequences

CONSTANTS
  Message,         \* message contents
  MessagePriority, \* the submit types of POSIX messages
  MaximumPending,  \* maximum_pending_messages
  BroadcastBound   \* bound on the deliveries of one broadcast

Urgent == 0
Normal == 1000

ASSUME CoreMessageQueueAssumption ==
  /\ None \notin Message
  /\ MessagePriority \subseteq Urgent + 1 .. Normal - 1
  /\ MaximumPending \in Nat \ {0}
  /\ BroadcastBound \in Nat

VARIABLES
  pending,    \* Pending_messages: a sequence of letters
  inactive,   \* the number of buffers on Inactive_messages
  notify,     \* notify_handler is set
  open,       \* the message queue exists
  posix,      \* it is a POSIX message queue, not a classic one
  role,       \* what a thread inside of _Thread_queue_Enqueue() called
  letter,     \* what a waiting sender wants to send, what a receiver was given
  broadcast   \* for each context, its broadcast under way, or None

mqVars == <<pending, inactive, notify, open, posix, role, letter, broadcast>>

vars == <<mqVars, tqVars>>

SubmitType(q) == IF posix[q] THEN MessagePriority ELSE {Urgent, Normal}

Letter == [msg : Message, type : MessagePriority \cup {Urgent, Normal}]

Empty == [msg |-> None, type |-> None]

TypeOK ==
  /\ TQTypeOK
  /\ pending \in [Queue -> Seq(Letter)]
  /\ inactive \in [Queue -> 0 .. MaximumPending]
  /\ notify \in [Queue -> BOOLEAN]
  /\ open \in [Queue -> BOOLEAN]
  /\ posix \in [Queue -> BOOLEAN]
  /\ role \in [Thread -> {"none", "send", "receive"}]
  /\ letter \in [Thread -> [msg : Message \cup {None},
                            type : MessagePriority \cup {Urgent, Normal, None}]]
  /\ broadcast \in [Context -> {None} \cup
       [queue : Queue, msg : Message, count : 0 .. BroadcastBound]]

Init ==
  /\ TQInit
  /\ pending = [q \in Queue |-> <<>>]
  /\ inactive = [q \in Queue |-> 0]
  /\ notify = [q \in Queue |-> FALSE]
  /\ open = [q \in Queue |-> FALSE]
  /\ posix \in [Queue -> BOOLEAN]
  /\ role = [t \in Thread |-> "none"]
  /\ letter = [t \in Thread |-> Empty]
  /\ broadcast = [c \in Context |-> None]

\* The context may start an operation on a message queue.
CanUse(c) == CanCall(c) /\ broadcast[c] = None

\* The messages that are somewhere in the system.
PendingMessages(q) == {pending[q][i].msg : i \in DOMAIN pending[q]}

Known ==
  (UNION {PendingMessages(q) : q \in Queue})
    \cup {letter[t].msg : t \in Thread}
    \cup {broadcast[c].msg : c \in {d \in Context : broadcast[d] # None}}

------------------------------------------------------------------------------
\* _CORE_message_queue_Initialize()
Initialize(q) ==
  /\ ~fatal
  /\ ~open[q]
  /\ open' = [open EXCEPT ![q] = TRUE]
  /\ pending' = [pending EXCEPT ![q] = <<>>]
  /\ inactive' = [inactive EXCEPT ![q] = MaximumPending]
  /\ notify' = [notify EXCEPT ![q] = FALSE]
  /\ UNCHANGED <<posix, role, letter, broadcast, tqVars>>

\* Mutant: in front of the messages of the same priority.
PlaceBeforeEqual(s, type) ==
  CHOOSE k \in 1 .. Len(s) + 1 :
    /\ \A j \in 1 .. k - 1 : ~(type <= s[j].type)
    /\ k <= Len(s) => type <= s[k].type

\* _Chain_Insert_ordered_unprotected() with _CORE_message_queue_Order(): in front
\* of the first message that is less urgent, or at the end.
PlaceFor(s, type) ==
  CHOOSE k \in 1 .. Len(s) + 1 :
    /\ \A j \in 1 .. k - 1 : ~(type < s[j].type)
    /\ k <= Len(s) => type < s[k].type

InsertAtPlace(s, k, l) == SubSeq(s, 1, k - 1) \o <<l>> \o SubSeq(s, k, Len(s))

\* _CORE_message_queue_Insert_message(): append, prepend, or insert in order.
InsertMessage(s, l) ==
  CASE l.type = Normal -> Append(s, l)
    [] l.type = Urgent -> <<l>> \o s
    [] OTHER -> InsertAtPlace(s, PlaceFor(s, l.type), l)

\* _CORE_message_queue_Submit(): _CORE_message_queue_Dequeue_receiver() finds
\* a receiver.
SubmitHandOver(c, q, l, t) ==
  /\ CanUse(c)
  /\ open[q]
  /\ pending[q] = <<>>
  /\ IsFirst(q, t)
  /\ letter' = [letter EXCEPT ![t] = l]
  /\ Extract(c, {t})
  /\ UNCHANGED <<returnCode, pending, inactive, notify, open, posix, role, broadcast>>

\* There is no receiver that could take a message.
NoReceiver(q) == pending[q] # <<>> \/ Waiters(q) = {}

\* _CORE_message_queue_Submit(): the message is queued.  The notification
\* handler is called, and removed, if the queue was empty.
SubmitQueue(c, q, l) ==
  /\ CanUse(c)
  /\ open[q]
  /\ NoReceiver(q)
  /\ inactive[q] # 0
  /\ inactive' = [inactive EXCEPT ![q] = @ - 1]
  /\ pending' = [pending EXCEPT ![q] = InsertMessage(@, l)]
  /\ notify' = [notify EXCEPT ![q] = @ /\ pending[q] # <<>>]
  /\ UNCHANGED <<open, posix, role, letter, broadcast, tqVars>>

\* _CORE_message_queue_Submit(): the sender blocks until there is a buffer.
SubmitWait(t, q, l) ==
  /\ CanUse(t)
  /\ open[q]
  /\ posix[q]
  /\ NoReceiver(q)
  /\ inactive[q] = 0
  /\ letter' = [letter EXCEPT ![t] = l]
  /\ role' = [role EXCEPT ![t] = "send"]
  /\ Enqueue(q, t)
  /\ UNCHANGED <<pending, inactive, notify, open, posix, broadcast>>

\* Mutant: the buffer is freed although a sender waits for it.
SeizeNowFreesBuffer(t, q) ==
  /\ CanUse(t) /\ open[q] /\ pending[q] # <<>>
  /\ pending' = [pending EXCEPT ![q] = Tail(@)]
  /\ inactive' = [inactive EXCEPT ![q] = @ + 1]
  /\ UNCHANGED <<notify, open, posix, role, letter, broadcast, tqVars>>

\* _CORE_message_queue_Seize(): a message is pending and nobody waits to send
\* one.
SeizeNow(t, q) ==
  /\ CanUse(t)
  /\ open[q]
  /\ pending[q] # <<>>
  /\ Waiters(q) = {}
  /\ pending' = [pending EXCEPT ![q] = Tail(@)]
  /\ inactive' = [inactive EXCEPT ![q] = @ + 1]
  /\ UNCHANGED <<notify, open, posix, role, letter, broadcast, tqVars>>

\* Mutant: the buffer goes to the sender and to the list of inactive ones.
SeizeAndRefillLeaks(t, q, u) ==
  /\ CanUse(t) /\ open[q] /\ pending[q] # <<>> /\ IsFirst(q, u)
  /\ pending' = [pending EXCEPT ![q] = InsertMessage(Tail(@), letter[u])]
  /\ inactive' = [inactive EXCEPT ![q] = @ + 1]
  /\ Extract(t, {u})
  /\ UNCHANGED <<returnCode, notify, open, posix, role, letter, broadcast>>

\* Mutant: the message of the sender takes the place of the last pending one.
SeizeAndRefillOverwrites(t, q, u) ==
  /\ CanUse(t) /\ open[q] /\ pending[q] # <<>> /\ IsFirst(q, u)
  /\ pending' = [pending EXCEPT ![q] = [Tail(@) \o <<letter[u]>> EXCEPT ![1] = letter[u]]]
  /\ Extract(t, {u})
  /\ UNCHANGED <<returnCode, inactive, notify, open, posix, role, letter, broadcast>>

\* _CORE_message_queue_Seize(): the buffer is used for the message of the first
\* waiting sender.
SeizeAndRefill(t, q, u) ==
  /\ CanUse(t)
  /\ open[q]
  /\ pending[q] # <<>>
  /\ IsFirst(q, u)
  /\ pending' = [pending EXCEPT ![q] = InsertMessage(Tail(@), letter[u])]
  /\ Extract(t, {u})
  /\ UNCHANGED <<returnCode, inactive, notify, open, posix, role, letter, broadcast>>

\* _CORE_message_queue_Seize(): wait for a message.
SeizeWait(t, q) ==
  /\ CanUse(t)
  /\ open[q]
  /\ pending[q] = <<>>
  /\ role' = [role EXCEPT ![t] = "receive"]
  /\ Enqueue(q, t)
  /\ UNCHANGED <<pending, inactive, notify, open, posix, letter, broadcast>>

Seize(t, q) ==
  \/ SeizeNow(t, q)
  \/ \E u \in Thread : SeizeAndRefill(t, q, u)
  \/ SeizeWait(t, q)

\* _CORE_message_queue_Flush(), classic API only
Flush(c, q) ==
  /\ CanUse(c)
  /\ open[q]
  /\ ~posix[q]
  /\ inactive' = [inactive EXCEPT ![q] = @ + Len(pending[q])]
  /\ pending' = [pending EXCEPT ![q] = <<>>]
  /\ UNCHANGED <<notify, open, posix, role, letter, broadcast, tqVars>>

\* Mutant: the flush filter does not set the status of the waiting threads.
CloseSilently(t, q) ==
  /\ CanUse(t) /\ open[q]
  /\ open' = [open EXCEPT ![q] = FALSE]
  /\ Extract(t, Waiters(q))
  /\ pending' = [pending EXCEPT ![q] = <<>>]
  /\ inactive' = [inactive EXCEPT ![q] = 0]
  /\ UNCHANGED <<returnCode, notify, posix, role, letter, broadcast>>

\* _CORE_message_queue_Close()
Close(t, q) ==
  /\ CanUse(t)
  /\ open[q]
  /\ open' = [open EXCEPT ![q] = FALSE]
  /\ Extract(t, Waiters(q))
  /\ SetReturnCode(Waiters(q), "OBJECT_WAS_DELETED")
  /\ pending' = [pending EXCEPT ![q] = <<>>]
  /\ inactive' = [inactive EXCEPT ![q] = 0]
  /\ UNCHANGED <<notify, posix, role, letter, broadcast>>

\* mq_notify()
SetNotify(t, q, enable) ==
  /\ CanUse(t)
  /\ open[q]
  /\ posix[q]
  /\ enable => ~notify[q]
  /\ notify' = [notify EXCEPT ![q] = enable]
  /\ UNCHANGED <<pending, inactive, open, posix, role, letter, broadcast, tqVars>>

------------------------------------------------------------------------------
(***************************************************************************)
(* _CORE_message_queue_Broadcast(), classic API only.  The queue lock is   *)
(* released and acquired again for each receiver.                          *)
(***************************************************************************)
BroadcastBegin(c, q, m) ==
  /\ CanUse(c)
  /\ open[q]
  /\ ~posix[q]
  /\ broadcast' = [broadcast EXCEPT
                     ![c] = [queue |-> q, msg |-> m, count |-> 0]]
  /\ UNCHANGED <<pending, inactive, notify, open, posix, role, letter, tqVars>>

BroadcastDeliver(c, t) ==
  /\ CanCall(c)
  /\ broadcast[c] # None
  /\ LET q == broadcast[c].queue IN
     /\ pending[q] = <<>>
     /\ IsFirst(q, t)
     /\ broadcast[c].count < BroadcastBound
     /\ letter' = [letter EXCEPT ![t] = [msg |-> broadcast[c].msg, type |-> None]]
     /\ broadcast' = [broadcast EXCEPT ![c].count = @ + 1]
     /\ Extract(c, {t})
  /\ UNCHANGED <<returnCode, pending, inactive, notify, open, posix, role>>

BroadcastEnd(c) ==
  /\ CanCall(c)
  /\ broadcast[c] # None
  /\ NoReceiver(broadcast[c].queue)
  /\ broadcast' = [broadcast EXCEPT ![c] = None]
  /\ UNCHANGED <<pending, inactive, notify, open, posix, role, letter, tqVars>>

Broadcast(c) ==
  \/ \E q \in Queue, m \in Message \ Known : BroadcastBegin(c, q, m)
  \/ \E t \in Thread : BroadcastDeliver(c, t)
  \/ BroadcastEnd(c)

------------------------------------------------------------------------------
\* A step of the handler.  A call that returns takes its letter along.
HandlerStep ==
  /\ TQStep
  /\ letter' = [t \in Thread |-> IF pc'[t] = "run" THEN Empty ELSE letter[t]]
  /\ role' = [t \in Thread |-> IF pc'[t] = "run" THEN "none" ELSE role[t]]
  /\ UNCHANGED <<pending, inactive, notify, open, posix, broadcast>>

Submit(c, q) ==
  \E m \in Message \ Known, s \in SubmitType(q) :
    LET l == [msg |-> m, type |-> s] IN
    \/ \E t \in Thread : SubmitHandOver(c, q, l, t)
    \/ SubmitQueue(c, q, l)
    \/ c \in Thread /\ SubmitWait(c, q, l)

Next ==
  \/ \E q \in Queue : Initialize(q)
  \/ \E c \in Thread \cup Isr, q \in Queue : Submit(c, q)
  \/ \E t \in Thread, q \in Queue : Seize(t, q)
  \/ \E c \in Thread \cup Isr, q \in Queue : Flush(c, q)
  \/ \E t \in Thread, q \in Queue : Close(t, q)
  \/ \E t \in Thread, q \in Queue, e \in BOOLEAN : SetNotify(t, q, e)
  \/ \E c \in Thread \cup Isr : Broadcast(c)
  \/ HandlerStep

Spec == Init /\ [][Next]_vars

------------------------------------------------------------------------------
\* Senders and receivers never wait at the same time.  Threads that wait to
\* receive find no message pending, threads that wait to send find every buffer
\* in use: _CORE_message_queue_Dequeue_receiver() and _CORE_message_queue_Seize()
\* take the first waiting thread for a receiver or a sender on that ground.
WaitersOfOneKind ==
  \A q \in Queue : \A t \in Waiters(q) :
    /\ role[t] = "receive" => pending[q] = <<>>
    /\ role[t] = "send" => Len(pending[q]) = MaximumPending

\* No buffer is lost or used twice, through every path that hands a buffer on.
BuffersConserved ==
  \A q \in Queue : open[q] => inactive[q] + Len(pending[q]) = MaximumPending

\* A message does not overtake one of the same priority, and one that is sent by
\* rtems_message_queue_send() does not overtake any.
NoOvertaking ==
  [][\A q \in Queue : \A i, j \in DOMAIN pending'[q] :
       LET l == pending'[q][i]
           r == pending'[q][j]
       IN  i < j /\ l.type # Urgent /\ l.type >= r.type
              /\ r.msg \in PendingMessages(q)
             => l.msg \in PendingMessages(q)]_vars

\* The messages that were accepted from a sender and not yet consumed.
Given == {t \in Thread : role[t] = "receive" /\ letter[t] # Empty}

Accepted ==
  (UNION {PendingMessages(q) : q \in Queue}) \cup {letter[t].msg : t \in Given}

\* A receive call that waited reports success exactly if it was given a message.
ReceiveReportsTruth ==
  \A t \in Thread :
    role[t] = "receive" /\ pc[t] # "run" /\ waitQueue[t] = None
      => (returnCode[t] = "SUCCESSFUL" <=> letter[t] # Empty)

\* An accepted message leaves the system only with a receive call, a flush or
\* the deletion of its queue.
NoMessageLost ==
  [][\A m \in Accepted \ Accepted' :
       \/ \E t \in Thread : letter[t].msg = m /\ pc'[t] = "run"
       \/ \E q \in Queue : m \in PendingMessages(q)
            /\ \/ pending'[q] = <<>> /\ (~open'[q] \/ ~posix[q])
               \/ pending[q][1].msg = m]_vars
==============================================================================
