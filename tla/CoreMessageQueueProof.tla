------------------------ MODULE CoreMessageQueueProof ------------------------
(***************************************************************************)
(* Message queues keep their buffers, their messages and their order, for  *)
(* every number of threads, interrupts, clocks, message queues, messages   *)
(* and buffers, on one or several processors.                              *)
(***************************************************************************)
EXTENDS CoreMessageQueue, ThreadQueueProof, Integers

(***************************************************************************)
(* What a thread inside of a call has in its letter.  A receiver that      *)
(* waits has nothing yet, and its status is still the initial one; only    *)
(* POSIX senders wait.                                                     *)
(***************************************************************************)
CallInv ==
  \A t \in Thread :
    /\ pc[t] = "run" => role[t] = "none" /\ letter[t] = Empty
    /\ role[t] = "send" => letter[t] \in Letter
    /\ waitQueue[t] # None =>
         /\ role[t] \in {"send", "receive"}
         /\ open[waitQueue[t]]
         /\ role[t] = "receive" => letter[t] = Empty /\ returnCode[t] = "SUCCESSFUL"
         /\ role[t] = "send" => /\ posix[waitQueue[t]]
                                /\ letter[t].type \in MessagePriority

\* The pending messages of a POSIX message queue are sorted by priority.
Sorted(s) ==
  /\ \A i \in 1 .. Len(s) : s[i].type \in MessagePriority
  /\ \A i, j \in 1 .. Len(s) : i < j => s[i].type <= s[j].type

PendingInv ==
  \A q \in Queue : /\ posix[q] => Sorted(pending[q])
                   /\ ~open[q] => pending[q] = <<>>

MqStateInv ==
  /\ TypeOK
  /\ CallInv
  /\ WaitersOfOneKind
  /\ BuffersConserved
  /\ ReceiveReportsTruth
  /\ PendingInv

\* A set of natural numbers has a smallest element.  True of every state; as a part
\* of the invariant it is at hand in every step.  The theorems derive it from the
\* library.
LeastNat == \A I \in SUBSET Nat : I # {} => \E x \in I : \A y \in I : x <= y

MqInv == WaitInv /\ MqStateInv /\ LeastNat

------------------------------------------------------------------------------
(***************************************************************************)
(* _CORE_message_queue_Insert_message()                                    *)
(***************************************************************************)

\* The facts about sequences that the proofs below use.
LEMMA LenProperties ==
  ASSUME NEW S, NEW s \in Seq(S)
  PROVE  Len(s) \in Nat /\ DOMAIN s = 1 .. Len(s) /\ s \in [1 .. Len(s) -> S]
  OBVIOUS

\* An element of a sequence is a member of the set it is over.
LEMMA ElementOfSeq ==
  ASSUME NEW S, NEW s \in Seq(S), NEW i \in 1 .. Len(s)
  PROVE  s[i] \in S
  OBVIOUS

\* The empty sequence is the one without elements.
LEMMA EmptySeq ==
  ASSUME NEW S
  PROVE  /\ <<>> \in Seq(S) /\ Len(<<>>) = 0
         /\ \A s \in Seq(S) : s # <<>> => Len(s) \in Nat \ {0}
  OBVIOUS

\* What Append adds, and what it keeps.
LEMMA AppendProperties ==
  ASSUME NEW S, NEW s \in Seq(S), NEW x \in S
  PROVE  /\ Append(s, x) \in Seq(S) /\ Len(Append(s, x)) = Len(s) + 1
         /\ \A i \in 1 .. Len(s) : Append(s, x)[i] = s[i]
         /\ Append(s, x)[Len(s) + 1] = x
  OBVIOUS

\* What stands where in a concatenation.
LEMMA ConcatProperties ==
  ASSUME NEW S, NEW r \in Seq(S), NEW s \in Seq(S)
  PROVE  /\ r \o s \in Seq(S) /\ Len(r \o s) = Len(r) + Len(s)
         /\ \A i \in 1 .. Len(r) + Len(s) :
              (r \o s)[i] = IF i <= Len(r) THEN r[i] ELSE s[i - Len(r)]
  OBVIOUS

\* What stands where in a part of a sequence.
LEMMA SubSeqProperties ==
  ASSUME NEW S, NEW s, NEW m \in Int, NEW n \in Int, \A i \in m .. n : s[i] \in S
  PROVE  /\ SubSeq(s, m, n) \in Seq(S)
         /\ Len(SubSeq(s, m, n)) = IF m <= n THEN n - m + 1 ELSE 0
         /\ \A i \in 1 .. n - m + 1 : SubSeq(s, m, n)[i] = s[m + i - 1]
  OBVIOUS

\* What is left of a sequence without its first element.
LEMMA HeadTailProperties ==
  ASSUME NEW S, NEW s \in Seq(S), s # <<>>
  PROVE  /\ Head(s) \in S /\ Tail(s) \in Seq(S) /\ Len(Tail(s)) = Len(s) - 1
         /\ \A i \in 1 .. Len(Tail(s)) : Tail(s)[i] = s[i + 1]
  OBVIOUS

\* A submit type is a natural number.
LEMMA SubmitTypes ==
  /\ \A x \in MessagePriority : x \in Nat /\ x # Normal /\ x # Urgent
  /\ \A x \in Letter : x.type \in Nat
<1>1. \A x \in MessagePriority : x \in Nat /\ x # Normal /\ x # Urgent
  BY CoreMessageQueueAssumption DEF Urgent, Normal
<1> QED BY <1>1 DEF Letter, Urgent, Normal

\* There is a place for a message: in front of the first one that is less
\* urgent, or at the end.
LEMMA PlaceExists ==
  ASSUME MqInv, NEW s \in Seq(Letter), NEW type \in Nat,
         \A j \in 1 .. Len(s) : s[j].type \in Nat
  PROVE  LET k == PlaceFor(s, type) IN
         /\ k \in 1 .. Len(s) + 1
         /\ \A j \in 1 .. k - 1 : ~(type < s[j].type)
         /\ k <= Len(s) => type < s[k].type
<1>0. Len(s) \in Nat
  BY LenProperties, Zenon
<1> DEFINE I == {j \in 1 .. Len(s) : type < s[j].type}
<1>1. \E k \in 1 .. Len(s) + 1 :
        /\ \A j \in 1 .. k - 1 : ~(type < s[j].type)
        /\ k <= Len(s) => type < s[k].type
  <2>1. CASE I = {}
    <3>1. \A j \in 1 .. Len(s) : ~(type < s[j].type)
      BY <2>1, Zenon
    <3> HIDE DEF I
    <3> QED BY <1>0, <3>1
  <2>2. CASE I # {}
    <3>1. I \in SUBSET Nat
      BY <1>0
    <3>2. PICK k \in I : \A y \in I : k <= y
      BY Zenon, <2>2, <3>1 DEF MqInv, LeastNat
    <3>3. k \in 1 .. Len(s) /\ type < s[k].type
      BY <3>2, Zenon
    <3>4. \A j \in 1 .. k - 1 : j \in 1 .. Len(s) /\ ~(k <= j)
      BY <1>0, <3>3
    <3>5. \A j \in 1 .. k - 1 : ~(type < s[j].type)
      BY <3>2, <3>4, Zenon
    <3> HIDE DEF I
    <3> QED BY <1>0, <3>3, <3>5
  <2> QED BY <2>1, <2>2, Zenon
<1> QED BY Zenon, <1>1 DEF PlaceFor

\* r is s with l inserted at position k.
InsertedAt(r, s, l, k) ==
  /\ r \in Seq(Letter)
  /\ k \in 1 .. Len(s) + 1
  /\ Len(r) = Len(s) + 1
  /\ \A j \in 1 .. k - 1 : r[j] = s[j]
  /\ r[k] = l
  /\ \A j \in k + 1 .. Len(s) + 1 : r[j] = s[j - 1]

\* The three ways to insert.
LEMMA InsertForms ==
  ASSUME NEW s \in Seq(Letter), NEW l \in Letter
  PROVE  /\ InsertedAt(Append(s, l), s, l, Len(s) + 1)
         /\ InsertedAt(<<l>> \o s, s, l, 1)
         /\ \A k \in 1 .. Len(s) + 1 : InsertedAt(InsertAtPlace(s, k, l), s, l, k)
<1>0. Len(s) \in Nat
  BY LenProperties, Zenon
<1>1. InsertedAt(Append(s, l), s, l, Len(s) + 1)
  BY <1>0, AppendProperties DEF InsertedAt
<1>2. <<l>> \in Seq(Letter) /\ Len(<<l>>) = 1 /\ <<l>>[1] = l
  OBVIOUS
<1>3. InsertedAt(<<l>> \o s, s, l, 1)
  BY <1>0, <1>2, ConcatProperties DEF InsertedAt
<1>4. ASSUME NEW k \in 1 .. Len(s) + 1
      PROVE  InsertedAt(InsertAtPlace(s, k, l), s, l, k)
  <2> DEFINE a == SubSeq(s, 1, k - 1)
             b == SubSeq(s, k, Len(s))
             c == a \o <<l>>
  <2>0. k \in Nat /\ k >= 1 /\ k <= Len(s) + 1
    BY <1>0
  <2>1. \A j \in 1 .. Len(s) : s[j] \in Letter
    BY ElementOfSeq, Zenon
  <2>2. /\ a \in Seq(Letter) /\ Len(a) = k - 1
        /\ \A j \in 1 .. k - 1 : a[j] = s[j]
    <3>1. \A j \in 1 .. k - 1 : s[j] \in Letter
      BY <1>0, <2>0, <2>1
    <3>2. /\ a \in Seq(Letter) /\ Len(a) = IF 1 <= k - 1 THEN k - 1 - 1 + 1 ELSE 0
          /\ \A j \in 1 .. k - 1 - 1 + 1 : a[j] = s[1 + j - 1]
      BY <3>1, <2>0, 1 \in Int, k - 1 \in Int, SubSeqProperties
    <3> HIDE DEF a
    <3> QED BY <2>0, <3>2
  <2>3. /\ b \in Seq(Letter) /\ Len(b) = Len(s) - k + 1
        /\ \A j \in 1 .. Len(s) - k + 1 : b[j] = s[k + j - 1]
    <3>1. \A j \in k .. Len(s) : s[j] \in Letter
      BY <1>0, <2>0, <2>1
    <3>2. /\ b \in Seq(Letter) /\ Len(b) = IF k <= Len(s) THEN Len(s) - k + 1 ELSE 0
          /\ \A j \in 1 .. Len(s) - k + 1 : b[j] = s[k + j - 1]
      BY <3>1, <1>0, <2>0, k \in Int, Len(s) \in Int, SubSeqProperties
    <3> HIDE DEF b
    <3> QED BY <1>0, <2>0, <3>2
  <2> HIDE DEF a, b
  <2>4. /\ c \in Seq(Letter) /\ Len(c) = k
        /\ \A j \in 1 .. k : c[j] = IF j <= k - 1 THEN a[j] ELSE <<l>>[j - (k - 1)]
    <3>1. /\ c \in Seq(Letter) /\ Len(c) = Len(a) + Len(<<l>>)
          /\ \A j \in 1 .. Len(a) + Len(<<l>>) :
               c[j] = IF j <= Len(a) THEN a[j] ELSE <<l>>[j - Len(a)]
      BY <1>2, <2>2, ConcatProperties, Zenon
    <3> HIDE DEF c
    <3> QED BY <1>2, <2>0, <2>2, <3>1
  <2> HIDE DEF c
  <2>5. c[k] = l /\ \A j \in 1 .. k - 1 : c[j] = s[j]
    BY <1>2, <2>0, <2>2, <2>4
  <2>6. /\ c \o b \in Seq(Letter) /\ Len(c \o b) = Len(s) + 1
        /\ \A j \in 1 .. Len(s) + 1 : (c \o b)[j] = IF j <= k THEN c[j] ELSE b[j - k]
    <3>1. /\ c \o b \in Seq(Letter) /\ Len(c \o b) = Len(c) + Len(b)
          /\ \A j \in 1 .. Len(c) + Len(b) :
               (c \o b)[j] = IF j <= Len(c) THEN c[j] ELSE b[j - Len(c)]
      BY Zenon, <2>3, <2>4, ConcatProperties
    <3>2. Len(c) + Len(b) = Len(s) + 1
      BY <1>0, <2>0, <2>3, <2>4
    <3> QED BY <2>4, <3>1, <3>2, Zenon
  <2>7. \A j \in k + 1 .. Len(s) + 1 : (c \o b)[j] = s[j - 1]
    <3> SUFFICES ASSUME NEW j \in k + 1 .. Len(s) + 1 PROVE (c \o b)[j] = s[j - 1]
      BY Zenon
    <3>1. j \in 1 .. Len(s) + 1 /\ ~(j <= k) /\ j - k \in 1 .. Len(s) - k + 1
          /\ k + (j - k) - 1 = j - 1
      BY <1>0, <2>0
    <3> QED BY <2>3, <2>6, <3>1, Zenon
  <2>8. InsertAtPlace(s, k, l) = c \o b
    BY Zenon DEF InsertAtPlace, a, b, c
  <2> QED BY <1>0, <2>0, <2>5, <2>6, <2>7, <2>8 DEF InsertedAt
<1> QED BY <1>1, <1>3, <1>4, Zenon

\* Where a message is inserted: at the end with a normal request, otherwise in
\* front of the first one that is less urgent.
LEMMA InsertMessagePlace ==
  ASSUME MqInv, NEW s \in Seq(Letter), NEW l \in Letter
  PROVE  \E k \in 1 .. Len(s) + 1 :
           /\ InsertedAt(InsertMessage(s, l), s, l, k)
           /\ l.type = Normal => k = Len(s) + 1
           /\ l.type \in MessagePriority =>
                /\ \A j \in 1 .. k - 1 : s[j].type <= l.type
                /\ k <= Len(s) => l.type < s[k].type
<1>0. Len(s) \in Nat
  BY LenProperties, Zenon
<1>1. /\ l.type \in Nat
      /\ \A j \in 1 .. Len(s) : s[j].type \in Nat
      /\ l.type \in MessagePriority => l.type # Normal /\ l.type # Urgent
  <2>1. \A j \in 1 .. Len(s) : s[j] \in Letter
    BY ElementOfSeq, Zenon
  <2> QED BY <2>1, SubmitTypes, Zenon
<1>2. CASE l.type = Normal
  <2>1. InsertMessage(s, l) = Append(s, l)
    BY <1>2 DEF InsertMessage, Urgent, Normal
  <2>2. InsertedAt(InsertMessage(s, l), s, l, Len(s) + 1)
    BY Zenon, <2>1, InsertForms
  <2> QED BY <1>0, <1>1, <1>2, <2>2
<1>3. CASE l.type = Urgent
  <2>1. InsertMessage(s, l) = <<l>> \o s /\ l.type # Normal
    BY <1>3 DEF InsertMessage, Urgent, Normal
  <2> QED BY <1>0, <1>1, <1>3, <2>1, InsertForms
<1>4. CASE l.type # Normal /\ l.type # Urgent
  <2>1. PICK k \in 1 .. Len(s) + 1 :
          /\ k = PlaceFor(s, l.type)
          /\ \A j \in 1 .. k - 1 : ~(l.type < s[j].type)
          /\ k <= Len(s) => l.type < s[k].type
    BY Zenon, <1>1, PlaceExists
  <2>2. InsertMessage(s, l) = InsertAtPlace(s, k, l)
    BY <1>4, <2>1, Zenon DEF InsertMessage
  <2>3. InsertedAt(InsertMessage(s, l), s, l, k)
    BY Zenon, <2>2, InsertForms
  <2>4. \A j \in 1 .. k - 1 : s[j].type <= l.type
    <3>1. \A j \in 1 .. k - 1 : j \in 1 .. Len(s)
      BY <1>0
    <3> QED BY <1>1, <2>1, <3>1
  <2> QED BY <1>4, <2>1, <2>3, <2>4, Zenon
<1> QED BY <1>2, <1>3, <1>4, Zenon

\* A POSIX message queue stays sorted when a message is inserted.
LEMMA InsertSorted ==
  ASSUME MqInv, NEW s \in Seq(Letter), NEW l \in Letter, Sorted(s),
         l.type \in MessagePriority
  PROVE  Sorted(InsertMessage(s, l))
<1> DEFINE r == InsertMessage(s, l)
<1>0. Len(s) \in Nat /\ MessagePriority \subseteq Nat
  BY LenProperties, CoreMessageQueueAssumption DEF Urgent, Normal
<1>1. PICK k \in 1 .. Len(s) + 1 :
        /\ InsertedAt(r, s, l, k)
        /\ \A j \in 1 .. k - 1 : s[j].type <= l.type
        /\ k <= Len(s) => l.type < s[k].type
  BY InsertMessagePlace, Zenon
<1> HIDE DEF r
<1>2. /\ Len(r) = Len(s) + 1
      /\ \A j \in 1 .. k - 1 : r[j] = s[j]
      /\ r[k] = l
      /\ \A j \in k + 1 .. Len(s) + 1 : r[j] = s[j - 1]
  BY <1>1, Zenon DEF InsertedAt
<1>3. \A j \in 1 .. Len(s) : s[j].type \in Nat
  BY Zenon, <1>0 DEF Sorted
<1>4. \A j \in k .. Len(s) : l.type < s[j].type
  <2> SUFFICES ASSUME NEW j \in k .. Len(s) PROVE l.type < s[j].type
    BY Zenon
  <2>1. k \in 1 .. Len(s) /\ j \in 1 .. Len(s) /\ l.type < s[k].type
    BY <1>0, <1>1
  <2>2. k = j \/ s[k].type <= s[j].type
    BY <1>0, <2>1 DEF Sorted
  <2>3. l.type \in Nat /\ s[k].type \in Nat /\ s[j].type \in Nat
    BY Zenon, <1>0, <1>3, <2>1
  <2> QED BY <2>1, <2>2, <2>3
<1>5. \A i \in 1 .. Len(r) : r[i].type \in MessagePriority
  <2> SUFFICES ASSUME NEW i \in 1 .. Len(r) PROVE r[i].type \in MessagePriority
    BY Zenon
  <2>1. \/ i \in 1 .. k - 1 /\ i \in 1 .. Len(s)
        \/ i = k
        \/ i \in k + 1 .. Len(s) + 1 /\ i - 1 \in 1 .. Len(s)
    BY <1>0, <1>2
  <2> QED BY <1>2, <2>1, Zenon DEF Sorted
<1>6. ASSUME NEW i \in 1 .. Len(r), NEW j \in 1 .. Len(r), i < j
      PROVE  r[i].type <= r[j].type
  <2>1. CASE j \in 1 .. k - 1
    <3>1. i \in 1 .. k - 1 /\ i \in 1 .. Len(s) /\ j \in 1 .. Len(s)
      BY <1>0, <1>2, <1>6, <2>1
    <3> QED BY <1>2, <1>6, <2>1, <3>1, Zenon DEF Sorted
  <2>2. CASE j = k
    <3>1. i \in 1 .. k - 1
      BY <1>0, <1>2, <1>6, <2>2
    <3> QED BY <1>1, <1>2, <2>2, <3>1, Zenon
  <2>3. CASE j \in k + 1 .. Len(s) + 1
    <3>1. j - 1 \in k .. Len(s) /\ j - 1 \in 1 .. Len(s)
      BY <1>0, <2>3
    <3>2. CASE i \in 1 .. k - 1
      <4>1. i \in 1 .. Len(s) /\ i < j - 1
        BY <1>0, <2>3, <3>2
      <4> QED BY <1>2, <2>3, <3>1, <3>2, <4>1, Zenon DEF Sorted
    <3>3. CASE i = k
      <4>1. l.type < s[j - 1].type /\ l.type \in Nat /\ s[j - 1].type \in Nat
        BY Zenon, <1>0, <1>3, <1>4, <3>1
      <4> QED BY <1>2, <2>3, <3>3, <4>1
    <3>4. CASE i \in k + 1 .. Len(s) + 1
      <4>1. i - 1 \in 1 .. Len(s) /\ i - 1 < j - 1
        BY <1>0, <1>6, <3>4, <2>3
      <4> QED BY <1>2, <2>3, <3>1, <3>4, <4>1, Zenon DEF Sorted
    <3> QED BY <1>0, <1>2, <3>2, <3>3, <3>4
  <2> QED BY <1>0, <1>2, <2>1, <2>2, <2>3
<1>7. Sorted(r)
  BY <1>5, <1>6, Zenon DEF Sorted
<1> QED BY <1>7, Zenon DEF r

\* Taking the first message leaves the others, in their order.
LEMMA TailSorted ==
  ASSUME NEW s \in Seq(Letter), s # <<>>, Sorted(s)
  PROVE  Sorted(Tail(s))
<1>1. /\ Tail(s) \in Seq(Letter)
      /\ Len(Tail(s)) = Len(s) - 1
      /\ \A i \in 1 .. Len(Tail(s)) : Tail(s)[i] = s[i + 1]
      /\ Len(s) \in Nat
  BY HeadTailProperties, LenProperties, Zenon
<1>2. \A i \in 1 .. Len(Tail(s)) : i + 1 \in 1 .. Len(s)
  BY <1>1
<1> QED BY <1>1, <1>2 DEF Sorted

\* What NoOvertaking says of a step, for one message queue.
KeepsOrder(old, new) ==
  \A i, j \in DOMAIN new :
    i < j /\ new[i].type # Urgent /\ new[i].type >= new[j].type
      /\ new[j].msg \in {old[k].msg : k \in DOMAIN old}
    => new[i].msg \in {old[k].msg : k \in DOMAIN old}

\* Inserting a message keeps the order, if the messages are those of a POSIX
\* message queue or the message goes to the front or to the end.
LEMMA InsertKeepsOrder ==
  ASSUME MqInv, NEW old \in Seq(Letter), NEW s \in Seq(Letter), NEW l \in Letter,
         \A i \in 1 .. Len(s) : \E k \in DOMAIN old : s[i] = old[k],
         l.type \in {Urgent, Normal} \/ (l.type \in MessagePriority /\ Sorted(s))
  PROVE  KeepsOrder(old, InsertMessage(s, l))
<1> DEFINE r == InsertMessage(s, l)
           Old == {old[k].msg : k \in DOMAIN old}
<1>0. Len(s) \in Nat
  BY LenProperties, Zenon
<1>1. PICK k \in 1 .. Len(s) + 1 :
        /\ InsertedAt(r, s, l, k)
        /\ l.type = Normal => k = Len(s) + 1
        /\ l.type \in MessagePriority =>
             /\ \A j \in 1 .. k - 1 : s[j].type <= l.type
             /\ k <= Len(s) => l.type < s[k].type
  BY InsertMessagePlace, Zenon
<1> HIDE DEF r
<1>2. /\ DOMAIN r = 1 .. Len(s) + 1
      /\ \A j \in 1 .. k - 1 : r[j] = s[j]
      /\ r[k] = l
      /\ \A j \in k + 1 .. Len(s) + 1 : r[j] = s[j - 1]
  BY <1>1, LenProperties, Zenon DEF InsertedAt
<1>3. \A i \in DOMAIN r : i # k => r[i].msg \in Old
  <2> SUFFICES ASSUME NEW i \in DOMAIN r, i # k PROVE r[i].msg \in Old
    BY Zenon
  <2>1. PICK j \in 1 .. Len(s) : r[i] = s[j]
    <3>1. \/ i \in 1 .. k - 1 /\ i \in 1 .. Len(s)
          \/ i \in k + 1 .. Len(s) + 1 /\ i - 1 \in 1 .. Len(s)
      BY <1>0, <1>2
    <3> QED BY Zenon, <1>2, <3>1
  <2> QED BY <2>1, Zenon
<1>4. ASSUME NEW j \in DOMAIN r, k < j, l.type # Urgent
      PROVE  l.type < r[j].type
  <2>1. j \in k + 1 .. Len(s) + 1 /\ j - 1 \in 1 .. Len(s) /\ k \in 1 .. Len(s) /\ k <= j - 1
    BY <1>0, <1>2, <1>4
  <2>2. l.type \in MessagePriority /\ Sorted(s)
    BY <1>0, <1>1, <1>4, <2>1
  <2>3. l.type < s[k].type
    BY <1>1, <2>1, <2>2
  <2>4. k = j - 1 \/ s[k].type <= s[j - 1].type
    BY <2>1, <2>2 DEF Sorted
  <2>5. l.type \in Nat /\ s[k].type \in Nat /\ s[j - 1].type \in Nat
    <3>1. s[k].type \in MessagePriority /\ s[j - 1].type \in MessagePriority
      BY <2>1, <2>2, Zenon DEF Sorted
    <3> QED BY <2>2, <3>1, SubmitTypes, Zenon
  <2>6. l.type < s[j - 1].type
    BY <2>3, <2>4, <2>5
  <2> QED BY <1>2, <2>1, <2>6, Zenon
<1>5. ASSUME NEW i \in DOMAIN r, NEW j \in DOMAIN r, i < j, r[i].type # Urgent,
             r[i].type >= r[j].type
      PROVE  r[i].msg \in Old
  <2>1. CASE i = k
    <3>1. l.type < r[j].type /\ l.type >= r[j].type
      BY <1>2, <1>4, <1>5, <2>1, Zenon
    <3>2. l.type \in Nat /\ r[j].type \in Nat
      <4>1. r \in Seq(Letter) /\ DOMAIN r = 1 .. Len(r)
        BY <1>1, LenProperties, Zenon DEF InsertedAt
      <4>2. r[j] \in Letter
        BY <4>1, ElementOfSeq, Zenon
      <4> QED BY <4>2, SubmitTypes, Zenon
    <3> QED BY <3>1, <3>2
  <2> QED BY <1>3, <2>1, Zenon
<1>6. KeepsOrder(old, r)
  BY <1>5, Zenon DEF KeepsOrder
<1> QED BY <1>6, Zenon DEF r

\* Inserting a message keeps the others.
LEMMA InsertKeepsAll ==
  ASSUME MqInv, NEW s \in Seq(Letter), NEW l \in Letter, NEW i \in 1 .. Len(s)
  PROVE  \E j \in DOMAIN InsertMessage(s, l) : InsertMessage(s, l)[j] = s[i]
<1> DEFINE r == InsertMessage(s, l)
<1>0. Len(s) \in Nat
  BY LenProperties, Zenon
<1>1. PICK k \in 1 .. Len(s) + 1 : InsertedAt(r, s, l, k)
  BY InsertMessagePlace, Zenon
<1> HIDE DEF r
<1>2. DOMAIN r = 1 .. Len(s) + 1
  BY <1>1, LenProperties, Zenon DEF InsertedAt
<1>3. ASSUME i < k PROVE \E j \in DOMAIN r : r[j] = s[i]
  <2>1. i \in 1 .. k - 1 /\ i \in 1 .. Len(s) + 1
    BY <1>0, <1>3
  <2> QED BY <1>1, <1>2, <2>1, Zenon DEF InsertedAt
<1>4. ASSUME i >= k PROVE \E j \in DOMAIN r : r[j] = s[i]
  <2>1. i + 1 \in k + 1 .. Len(s) + 1 /\ (i + 1) - 1 = i /\ i + 1 \in 1 .. Len(s) + 1
    BY <1>0, <1>1, <1>4
  <2>2. r[i + 1] = s[i]
    BY <1>1, <2>1, Zenon DEF InsertedAt
  <2> QED BY <1>2, <2>1, <2>2, Zenon
<1>5. i < k \/ i >= k
  BY <1>0
<1>6. \E j \in DOMAIN r : r[j] = s[i]
  BY <1>3, <1>4, <1>5, Zenon
<1> QED BY <1>6, Zenon DEF r

------------------------------------------------------------------------------
(***************************************************************************)
(* The steps.                                                              *)
(***************************************************************************)

\* Initially no message queue exists and nobody waits.
LEMMA MqInvInit == Init /\ LeastNat => MqInv
<1> SUFFICES ASSUME Init, LeastNat PROVE MqInv
  BY Zenon
<1>1. WaitInv
  BY TQInitInv, Zenon DEF Init
<1>2. TypeOK
  BY <1>1, EmptySeq, CoreMessageQueueAssumption
  DEF Init, TypeOK, WaitInv, Empty
<1>3. \A t \in Thread : waitQueue[t] = None /\ pc[t] = "run"
  BY Zenon DEF Init, TQInit
<1>4. CallInv /\ WaitersOfOneKind /\ BuffersConserved /\ ReceiveReportsTruth
  BY <1>3, ThreadQueueAssumption, Zenon
  DEF Init, CallInv, WaitersOfOneKind, BuffersConserved, ReceiveReportsTruth, Waiters
<1>5. PendingInv
  BY EmptySeq DEF Init, PendingInv, Sorted
<1> QED BY <1>1, <1>2, <1>4, <1>5, Zenon DEF MqInv, MqStateInv

\* Every step of the message queues is nothing, a step of the handler, one
\* enqueue or one extraction.
LEMMA StepKinds ==
  ASSUME MqInv, Next
  PROVE  \/ UNCHANGED tqVars
         \/ TQStep
         \/ \E t \in Thread, q \in Queue : CanCall(t) /\ Enqueue(q, t)
         \/ \E c \in Context, S \in SUBSET Thread :
              /\ CanCall(c)
              /\ \A t \in S : waitQueue[t] # None
              /\ Extract(c, S)
              /\ returnCode' \in [Thread -> Status]
<1>1. \A q \in Queue : /\ Waiters(q) \in SUBSET Thread
                       /\ \A t \in Waiters(q) : waitQueue[t] # None
  BY ThreadQueueAssumption, Zenon DEF Waiters
<1>2. \A q \in Queue, t \in Thread : IsFirst(q, t) => waitQueue[t] # None
  BY ThreadQueueAssumption, Zenon DEF IsFirst
<1>3. returnCode \in [Thread -> Status]
  BY Zenon DEF MqInv, WaitInv, TQTypeOK
<1>4. CASE \E q \in Queue : Initialize(q)
  BY <1>4, Zenon DEF Initialize
<1>5. CASE \E c \in Thread \cup Isr, q \in Queue : Submit(c, q)
  <2>1. ASSUME NEW c \in Thread \cup Isr, NEW q \in Queue, NEW l, NEW t \in Thread,
               SubmitHandOver(c, q, l, t)
        PROVE  /\ c \in Context /\ {t} \in SUBSET Thread /\ CanCall(c)
               /\ \A u \in {t} : waitQueue[u] # None
               /\ Extract(c, {t})
               /\ returnCode' \in [Thread -> Status]
    BY <1>2, <1>3, <2>1, Zenon DEF SubmitHandOver, CanUse, Context
  <2>2. \A c, q, l : SubmitQueue(c, q, l) => UNCHANGED tqVars
    BY Zenon DEF SubmitQueue
  <2>3. \A c, q, l : SubmitWait(c, q, l) => CanCall(c) /\ Enqueue(q, c)
    BY Zenon DEF SubmitWait, CanUse
  <2> QED BY Zenon, <1>5, <2>1, <2>2, <2>3 DEF Submit
<1>6. CASE \E t \in Thread, q \in Queue : Seize(t, q)
  <2>1. ASSUME NEW t \in Thread, NEW q \in Queue, NEW u \in Thread,
               SeizeAndRefill(t, q, u)
        PROVE  /\ t \in Context /\ {u} \in SUBSET Thread /\ CanCall(t)
               /\ \A v \in {u} : waitQueue[v] # None
               /\ Extract(t, {u})
               /\ returnCode' \in [Thread -> Status]
    BY <1>2, <1>3, <2>1, Zenon DEF SeizeAndRefill, CanUse, Context
  <2> QED BY Zenon, <1>6, <2>1 DEF Seize, SeizeNow, SeizeWait, CanUse
<1>7. CASE \E c \in Thread \cup Isr, q \in Queue : Flush(c, q)
  BY <1>7, Zenon DEF Flush
<1>8. CASE \E t \in Thread, q \in Queue : Close(t, q)
  <2>1. "OBJECT_WAS_DELETED" \in Status
    BY Zenon DEF Status
  <2> QED BY <1>1, <1>3, <1>8, <2>1 DEF Close, CanUse, Context, SetReturnCode
<1>9. CASE \E t \in Thread, q \in Queue, e \in BOOLEAN : SetNotify(t, q, e)
  BY <1>9, Zenon DEF SetNotify
<1>10. CASE \E c \in Thread \cup Isr : Broadcast(c)
  <2>1. ASSUME NEW c \in Thread \cup Isr, NEW t \in Thread, BroadcastDeliver(c, t)
        PROVE  /\ c \in Context /\ {t} \in SUBSET Thread /\ CanCall(c)
               /\ \A u \in {t} : waitQueue[u] # None
               /\ Extract(c, {t})
               /\ returnCode' \in [Thread -> Status]
    <3>1. c \in Context /\ CanCall(c) /\ Extract(c, {t})
          /\ UNCHANGED returnCode /\ broadcast[c] # None
          /\ IsFirst(broadcast[c].queue, t)
      BY <2>1, Zenon DEF BroadcastDeliver, Context
    <3>2. broadcast[c].queue \in Queue
      BY <3>1, Zenon DEF MqInv, MqStateInv, TypeOK
    <3> QED BY <1>2, <1>3, <3>1, <3>2, Zenon
  <2> QED BY Zenon, <1>10, <2>1 DEF Broadcast, BroadcastBegin, BroadcastEnd
<1>11. CASE HandlerStep
  BY <1>11, Zenon DEF HandlerStep
<1> QED BY <1>4, <1>5, <1>6, <1>7, <1>8, <1>9, <1>10, <1>11, Zenon DEF Next

\* So every step keeps the invariant of the wait protocol.
LEMMA WaitInvStep == MqInv /\ [Next]_vars => WaitInv'
<1> SUFFICES ASSUME MqInv, [Next]_vars PROVE WaitInv'
  BY Zenon
<1>1. CASE Next
  BY <1>1, StepKinds, TQStutterInv, TQStepInv, EnqueueInv, ExtractInv, Zenon DEF MqInv
<1>2. CASE UNCHANGED vars
  BY <1>2, TQStutterInv, Zenon DEF vars, MqInv
<1> QED BY <1>1, <1>2, Zenon

\* An empty message queue has no waiting sender, one with a free buffer neither;
\* one with a message has no waiting receiver.
LEMMA WhoWaits ==
  ASSUME MqInv, NEW t \in Thread, NEW q \in Queue, waitQueue[t] = q
  PROVE  /\ pending[q] = <<>> => role[t] = "receive"
         /\ pending[q] # <<>> => role[t] = "send"
         /\ role[t] = "send" => inactive[q] = 0 /\ posix[q]
         /\ open[q]
<1>1. /\ waitQueue[t] # None /\ t \in Waiters(q)
  BY ThreadQueueAssumption, Zenon DEF Waiters
<1>2. Len(pending[q]) \in Nat /\ inactive[q] \in Nat /\ MaximumPending \in Nat \ {0}
  BY LenProperties, CoreMessageQueueAssumption DEF MqInv, MqStateInv, TypeOK
<1>3. open[q] /\ role[t] \in {"send", "receive"} /\ (role[t] = "send" => posix[q])
  BY <1>1, Zenon DEF MqInv, MqStateInv, CallInv
<1>4. role[t] = "send" => Len(pending[q]) = MaximumPending
  BY <1>1, Zenon DEF MqInv, MqStateInv, WaitersOfOneKind
<1>5. role[t] = "receive" => pending[q] = <<>>
  BY <1>1, Zenon DEF MqInv, MqStateInv, WaitersOfOneKind
<1>6. inactive[q] + Len(pending[q]) = MaximumPending
  BY <1>3, Zenon DEF MqInv, MqStateInv, BuffersConserved
<1>7. pending[q] = <<>> => Len(pending[q]) = 0
  BY EmptySeq, Zenon
<1> QED BY <1>2, <1>3, <1>4, <1>5, <1>6, <1>7

\* A receiver is given a message and taken off the queue.
LEMMA DeliveryInv ==
  ASSUME MqInv, NEW t \in Thread, NEW q \in Queue, waitQueue[t] = q,
         pending[q] = <<>>, NEW x, x # Empty, letter' = [letter EXCEPT ![t] = x],
         LeaveQueue({t}),
         UNCHANGED <<pc, returnCode, pending, inactive, open, posix, role>>
  PROVE  /\ CallInv' /\ WaitersOfOneKind' /\ BuffersConserved'
         /\ ReceiveReportsTruth' /\ PendingInv'
<1>1. /\ role[t] = "receive" /\ waitQueue[t] # None
      /\ letter[t] = Empty /\ returnCode[t] = "SUCCESSFUL"
  BY Zenon, WhoWaits, ThreadQueueAssumption DEF MqInv, MqStateInv, CallInv
<1>2. \A u \in Thread :
        /\ waitQueue'[u] = IF u = t THEN None ELSE waitQueue[u]
        /\ letter'[u] = IF u = t THEN x ELSE letter[u]
  BY Zenon DEF LeaveQueue, MqInv, MqStateInv, TypeOK
<1>3. pc[t] # "run"
  BY <1>1, WaitingNotRunning, Zenon DEF MqInv
<1>4. CallInv'
  BY <1>1, <1>2, <1>3, Zenon DEF MqInv, MqStateInv, CallInv
<1>5. WaitersOfOneKind'
  BY <1>2, ThreadQueueAssumption, Zenon DEF MqInv, MqStateInv, WaitersOfOneKind, Waiters
<1>6. ReceiveReportsTruth'
  BY <1>1, <1>2, Zenon DEF MqInv, MqStateInv, ReceiveReportsTruth
<1>7. BuffersConserved' /\ PendingInv'
  BY Zenon DEF MqInv, MqStateInv, BuffersConserved, PendingInv
<1> QED BY Zenon, <1>4, <1>5, <1>6, <1>7

\* _CORE_message_queue_Submit() hands a message over.
LEMMA SubmitHandOverInv ==
  ASSUME MqInv, NEW c, NEW q \in Queue, NEW t \in Thread, NEW l \in Letter,
         SubmitHandOver(c, q, l, t), TQTypeOK'
  PROVE  MqStateInv'
<1>1. l # Empty
  BY CoreMessageQueueAssumption DEF Letter, Empty
<1>2. /\ CallInv' /\ WaitersOfOneKind' /\ BuffersConserved'
      /\ ReceiveReportsTruth' /\ PendingInv'
  BY Zenon, <1>1, DeliveryInv DEF SubmitHandOver, IsFirst, Extract
<1>3. TypeOK'
  BY Zenon DEF SubmitHandOver, MqInv, MqStateInv, TypeOK, Letter
<1> QED BY <1>2, <1>3, Zenon DEF MqStateInv

\* _CORE_message_queue_Broadcast() hands a message over.
LEMMA BroadcastDeliverInv ==
  ASSUME MqInv, NEW c \in Context, NEW t \in Thread, BroadcastDeliver(c, t), TQTypeOK'
  PROVE  MqStateInv'
<1>1. PICK q \in Queue, m \in Message, n \in 0 .. BroadcastBound :
        broadcast[c] = [queue |-> q, msg |-> m, count |-> n]
  BY Zenon DEF BroadcastDeliver, MqInv, MqStateInv, TypeOK
<1>2. [msg |-> m, type |-> None] # Empty
  BY CoreMessageQueueAssumption, Zenon DEF Empty
<1>3. /\ waitQueue[t] = q /\ pending[q] = <<>>
      /\ letter' = [letter EXCEPT ![t] = [msg |-> m, type |-> None]]
      /\ LeaveQueue({t})
      /\ n < BroadcastBound
      /\ broadcast' = [broadcast EXCEPT ![c].count = @ + 1]
      /\ UNCHANGED <<pc, returnCode, pending, inactive, notify, open, posix, role>>
  BY <1>1 DEF BroadcastDeliver, IsFirst, Extract
<1>4. /\ CallInv' /\ WaitersOfOneKind' /\ BuffersConserved'
      /\ ReceiveReportsTruth' /\ PendingInv'
  BY Zenon, <1>2, <1>3, DeliveryInv
<1>5. broadcast'[c] = [queue |-> q, msg |-> m, count |-> n + 1]
      /\ n + 1 \in 0 .. BroadcastBound
  BY <1>1, <1>3, CoreMessageQueueAssumption DEF MqInv, MqStateInv, TypeOK
<1>6. TypeOK'
  <2>1. broadcast' = [broadcast EXCEPT ![c] = [queue |-> q, msg |-> m, count |-> n + 1]]
    BY Zenon, <1>1, <1>3, <1>5 DEF MqInv, MqStateInv, TypeOK
  <2>2. broadcast' \in [Context -> {None} \cup
          [queue : Queue, msg : Message, count : 0 .. BroadcastBound]]
    BY <1>5, <2>1, Zenon DEF MqInv, MqStateInv, TypeOK
  <2> QED BY Zenon, <1>3, <2>2 DEF MqInv, MqStateInv, TypeOK
<1> QED BY <1>4, <1>6, Zenon DEF MqStateInv

\* The waiters of a message queue fit its messages if they fit what becomes of
\* them; nobody starts or stops to wait here.
LEMMA OneKindKept ==
  ASSUME WaitersOfOneKind, UNCHANGED tqVars, UNCHANGED role, NEW q \in Queue,
         \A r \in Queue : r # q => pending'[r] = pending[r],
         \A t \in Waiters(q) : /\ role[t] = "receive" => pending'[q] = <<>>
                               /\ role[t] = "send" => Len(pending'[q]) = MaximumPending
  PROVE  WaitersOfOneKind'
<1>1. \A r \in Queue : Waiters(r)' = Waiters(r)
  BY Zenon DEF tqVars, Waiters
<1> QED BY Zenon, <1>1 DEF WaitersOfOneKind

\* _CORE_message_queue_Submit() queues a message: nobody waits then.
LEMMA SubmitQueueInv ==
  ASSUME MqInv, NEW c, NEW q \in Queue, NEW l \in Letter,
         l.type \in SubmitType(q), SubmitQueue(c, q, l), TQTypeOK'
  PROVE  MqStateInv'
<1>0. TypeOK /\ CallInv /\ WaitersOfOneKind /\ BuffersConserved
      /\ ReceiveReportsTruth /\ PendingInv
  BY Zenon DEF MqInv, MqStateInv
<1>1. Waiters(q) = {}
  BY WhoWaits, Zenon DEF SubmitQueue, NoReceiver, Waiters
<1>2. /\ pending[q] \in Seq(Letter) /\ Len(pending[q]) \in Nat
      /\ inactive[q] \in 0 .. MaximumPending /\ MaximumPending \in Nat
  BY <1>0, LenProperties, CoreMessageQueueAssumption, Zenon DEF TypeOK
<1>3. PICK k : InsertedAt(InsertMessage(pending[q], l), pending[q], l, k)
  BY Zenon, <1>2, InsertMessagePlace
<1>4. /\ InsertMessage(pending[q], l) \in Seq(Letter)
      /\ Len(InsertMessage(pending[q], l)) = Len(pending[q]) + 1
  BY Zenon, <1>3 DEF InsertedAt
<1>5. /\ \A r \in Queue : pending'[r] = IF r = q THEN InsertMessage(pending[q], l)
                                                ELSE pending[r]
      /\ \A r \in Queue : inactive'[r] = IF r = q THEN inactive[q] - 1 ELSE inactive[r]
  BY Zenon, <1>0 DEF SubmitQueue, TypeOK
<1>6. TypeOK'
  <2>1. inactive[q] - 1 \in 0 .. MaximumPending
    BY <1>2 DEF SubmitQueue
  <2> QED BY <1>0, <1>4, <2>1, Zenon DEF SubmitQueue, TypeOK
<1>7. CallInv' /\ ReceiveReportsTruth'
  BY Zenon, <1>0 DEF SubmitQueue, tqVars, CallInv, ReceiveReportsTruth
<1>8. WaitersOfOneKind'
  BY Zenon, <1>0, <1>1, <1>5, OneKindKept DEF SubmitQueue
<1>9. BuffersConserved'
  <2>1. open' = open /\ (open[q] => inactive[q] + Len(pending[q]) = MaximumPending)
    BY Zenon, <1>0 DEF SubmitQueue, BuffersConserved
  <2>2. open[q] => inactive'[q] + Len(pending'[q]) = MaximumPending
    <3>1. inactive'[q] = inactive[q] - 1 /\ pending'[q] = InsertMessage(pending[q], l)
      BY Zenon, <1>5
    <3> QED BY <1>2, <1>4, <2>1, <3>1
  <2>3. \A r \in Queue : r # q => pending'[r] = pending[r] /\ inactive'[r] = inactive[r]
    BY Zenon, <1>5
  <2> QED BY Zenon, <1>0, <2>1, <2>2, <2>3 DEF BuffersConserved
<1>10. PendingInv'
  <2>1. posix[q] => Sorted(InsertMessage(pending[q], l))
    BY <1>0, <1>2, InsertSorted, Zenon DEF PendingInv, SubmitType
  <2> QED BY <1>0, <1>5, <2>1, Zenon DEF SubmitQueue, PendingInv
<1> QED BY <1>6, <1>7, <1>8, <1>9, <1>10, Zenon DEF MqStateInv

\* A thread that starts to wait has its role, and what it waits with.
LEMMA StartWaitInv ==
  ASSUME MqInv, NEW t \in Thread, NEW q \in Queue, CanUse(t), open[q], Enqueue(q, t),
         UNCHANGED <<pending, inactive, open, posix>>,
         \A u \in Thread \ {t} : role'[u] = role[u] /\ letter'[u] = letter[u],
         \/ /\ role'[t] = "receive" /\ pending[q] = <<>> /\ letter'[t] = Empty
         \/ /\ role'[t] = "send" /\ Len(pending[q]) = MaximumPending
            /\ posix[q] /\ letter'[t] \in Letter /\ letter'[t].type \in MessagePriority
  PROVE  /\ CallInv' /\ WaitersOfOneKind' /\ BuffersConserved'
         /\ ReceiveReportsTruth' /\ PendingInv'
<1>0. CallInv /\ WaitersOfOneKind /\ BuffersConserved /\ ReceiveReportsTruth /\ PendingInv
  BY Zenon DEF MqInv, MqStateInv
<1>1. q # None
  BY Zenon, ThreadQueueAssumption
<1>2. \A u \in Thread :
        /\ waitQueue'[u] = IF u = t THEN q ELSE waitQueue[u]
        /\ returnCode'[u] = IF u = t THEN "SUCCESSFUL" ELSE returnCode[u]
        /\ pc'[u] = IF u = t THEN "callout" ELSE pc[u]
  BY Zenon DEF Enqueue, MqInv, MqStateInv, TypeOK, TQTypeOK
<1>3. CallInv'
  <2>1. ASSUME NEW u \in Thread, u # t
        PROVE  /\ role'[u] = role[u] /\ letter'[u] = letter[u] /\ pc'[u] = pc[u]
               /\ waitQueue'[u] = waitQueue[u] /\ returnCode'[u] = returnCode[u]
    BY Zenon, <1>2, <2>1
  <2>2. waitQueue'[t] = q /\ returnCode'[t] = "SUCCESSFUL" /\ pc'[t] = "callout"
    BY Zenon, <1>2
  <2>3. /\ role'[t] = "send" => /\ letter'[t] \in Letter /\ posix[q]
                               /\ letter'[t].type \in MessagePriority
        /\ role'[t] \in {"send", "receive"}
        /\ role'[t] = "receive" => letter'[t] = Empty
    BY Zenon
  <2>4. open' = open /\ posix' = posix
    BY Zenon
  <2> SUFFICES ASSUME NEW u \in Thread
               PROVE  /\ pc'[u] = "run" => role'[u] = "none" /\ letter'[u] = Empty
                      /\ role'[u] = "send" => letter'[u] \in Letter
                      /\ waitQueue'[u] # None =>
                           /\ role'[u] \in {"send", "receive"}
                           /\ open'[waitQueue'[u]]
                           /\ role'[u] = "receive" => /\ letter'[u] = Empty
                                                      /\ returnCode'[u] = "SUCCESSFUL"
                           /\ role'[u] = "send" =>
                                /\ posix'[waitQueue'[u]]
                                /\ letter'[u].type \in MessagePriority
    BY Zenon DEF CallInv
  <2>5. CASE u = t
    BY Zenon, <2>2, <2>3, <2>4, <2>5
  <2>6. CASE u # t
    BY Zenon, <1>0, <2>1, <2>4, <2>6 DEF CallInv
  <2> QED BY Zenon, <2>5, <2>6
<1>4. WaitersOfOneKind'
  <2> SUFFICES ASSUME NEW r \in Queue, NEW u \in Thread, waitQueue'[u] = r
               PROVE  /\ role'[u] = "receive" => pending[r] = <<>>
                      /\ role'[u] = "send" => Len(pending[r]) = MaximumPending
    BY Zenon DEF WaitersOfOneKind, Waiters
  <2>1. CASE u = t
    BY Zenon, <1>2, <2>1
  <2>2. CASE u # t
    <3>1. u \in Waiters(r) /\ role'[u] = role[u]
      BY Zenon, <1>2, <2>2 DEF Waiters
    <3> QED BY <1>0, <3>1, Zenon DEF WaitersOfOneKind
  <2> QED BY Zenon, <2>1, <2>2
<1>5. ReceiveReportsTruth'
  BY <1>0, <1>1, <1>2, Zenon DEF ReceiveReportsTruth
<1> QED BY <1>0, <1>3, <1>4, <1>5, Zenon DEF BuffersConserved, PendingInv

\* _CORE_message_queue_Submit() lets a sender wait for a buffer.
LEMMA SubmitWaitInv ==
  ASSUME MqInv, NEW t \in Thread, NEW q \in Queue, NEW l \in Letter,
         l.type \in SubmitType(q), SubmitWait(t, q, l), TQTypeOK'
  PROVE  MqStateInv'
<1>1. /\ \A u \in Thread : role'[u] = IF u = t THEN "send" ELSE role[u]
      /\ \A u \in Thread : letter'[u] = IF u = t THEN l ELSE letter[u]
  BY Zenon DEF SubmitWait, MqInv, MqStateInv, TypeOK
<1>2. /\ open[q] /\ posix[q] /\ inactive[q] = 0 /\ CanUse(t) /\ Enqueue(q, t)
      /\ UNCHANGED <<pending, inactive, open, posix>>
  BY Zenon DEF SubmitWait
<1>3. Len(pending[q]) \in Nat /\ inactive[q] + Len(pending[q]) = MaximumPending
  BY <1>2, LenProperties, Zenon DEF MqInv, MqStateInv, TypeOK, BuffersConserved
<1>4. Len(pending[q]) = MaximumPending /\ l.type \in MessagePriority
  <2>1. l.type \in MessagePriority
    BY Zenon, <1>2 DEF SubmitType
  <2> QED BY <1>2, <1>3, <2>1
<1>5. /\ CallInv' /\ WaitersOfOneKind' /\ BuffersConserved'
      /\ ReceiveReportsTruth' /\ PendingInv'
  BY <1>1, <1>2, <1>4, StartWaitInv, Zenon
<1>6. TypeOK'
  BY Zenon DEF SubmitWait, MqInv, MqStateInv, TypeOK, Letter
<1> QED BY Zenon, <1>5, <1>6 DEF MqStateInv

\* _CORE_message_queue_Seize() lets a receiver wait for a message.
LEMMA SeizeWaitInv ==
  ASSUME MqInv, NEW t \in Thread, NEW q \in Queue, SeizeWait(t, q), TQTypeOK'
  PROVE  MqStateInv'
<1>1. \A u \in Thread : role'[u] = IF u = t THEN "receive" ELSE role[u]
  BY Zenon DEF SeizeWait, MqInv, MqStateInv, TypeOK
<1>2. /\ open[q] /\ pending[q] = <<>> /\ CanUse(t) /\ Enqueue(q, t)
      /\ UNCHANGED <<pending, inactive, open, posix, letter>>
  BY Zenon DEF SeizeWait
<1>3. letter[t] = Empty
  BY Zenon, <1>2 DEF MqInv, MqStateInv, CallInv, CanUse, CanCall
<1>4. /\ CallInv' /\ WaitersOfOneKind' /\ BuffersConserved'
      /\ ReceiveReportsTruth' /\ PendingInv'
  BY Zenon, <1>1, <1>2, <1>3, StartWaitInv
<1>5. TypeOK'
  BY Zenon DEF SeizeWait, MqInv, MqStateInv, TypeOK
<1> QED BY Zenon, <1>4, <1>5 DEF MqStateInv

\* _CORE_message_queue_Seize() takes the first message and frees its buffer.
LEMMA SeizeNowInv ==
  ASSUME MqInv, NEW t \in Thread, NEW q \in Queue, SeizeNow(t, q), TQTypeOK'
  PROVE  MqStateInv'
<1>0. TypeOK /\ CallInv /\ WaitersOfOneKind /\ BuffersConserved
      /\ ReceiveReportsTruth /\ PendingInv
  BY Zenon DEF MqInv, MqStateInv
<1>1. /\ Waiters(q) = {} /\ pending[q] # <<>> /\ open[q]
      /\ UNCHANGED <<notify, open, posix, role, letter, broadcast, tqVars>>
  BY Zenon DEF SeizeNow
<1>2. /\ pending[q] \in Seq(Letter) /\ Len(pending[q]) \in Nat \ {0}
      /\ inactive[q] \in 0 .. MaximumPending /\ MaximumPending \in Nat
  BY <1>0, <1>1, EmptySeq, CoreMessageQueueAssumption, Zenon DEF TypeOK
<1>3. Tail(pending[q]) \in Seq(Letter) /\ Len(Tail(pending[q])) = Len(pending[q]) - 1
  BY Zenon, <1>1, <1>2, HeadTailProperties
<1>4. inactive[q] + Len(pending[q]) = MaximumPending
  BY Zenon, <1>0, <1>1 DEF BuffersConserved
<1>5. /\ \A r \in Queue : pending'[r] = IF r = q THEN Tail(pending[q]) ELSE pending[r]
      /\ \A r \in Queue : inactive'[r] = IF r = q THEN inactive[q] + 1 ELSE inactive[r]
  BY Zenon, <1>0 DEF SeizeNow, TypeOK
<1>6. TypeOK'
  <2>1. inactive[q] + 1 \in 0 .. MaximumPending
    BY <1>2, <1>4
  <2> QED BY <1>0, <1>3, <2>1, Zenon DEF SeizeNow, TypeOK
<1>7. CallInv' /\ ReceiveReportsTruth'
  BY Zenon, <1>0, <1>1 DEF tqVars, CallInv, ReceiveReportsTruth
<1>8. WaitersOfOneKind'
  BY Zenon, <1>0, <1>1, <1>5, OneKindKept
<1>9. BuffersConserved'
  <2>1. (inactive[q] + 1) + Len(Tail(pending[q])) = MaximumPending
    BY <1>2, <1>3, <1>4
  <2>2. \A r \in Queue : open'[r] => inactive'[r] + Len(pending'[r]) = MaximumPending
    <3> SUFFICES ASSUME NEW r \in Queue, open'[r]
                 PROVE  inactive'[r] + Len(pending'[r]) = MaximumPending
      BY Zenon
    <3>1. CASE r = q
      BY ZenonT(30), <1>5, <2>1, <3>1
    <3>2. CASE r # q
      BY Zenon, <1>0, <1>1, <1>5, <3>2 DEF BuffersConserved
    <3> QED BY <3>1, <3>2, Zenon
  <2> QED BY <2>2, Zenon DEF BuffersConserved
<1>10. PendingInv'
  BY Zenon, <1>0, <1>1, <1>2, <1>5, TailSorted DEF PendingInv
<1> QED BY <1>6, <1>7, <1>8, <1>9, <1>10, Zenon DEF MqStateInv


(***************************************************************************)
(* The remaining steps keep the invariant.                                 *)
(***************************************************************************)

\* _CORE_message_queue_Seize() uses the buffer for the first waiting sender.
LEMMA SeizeAndRefillInv ==
  ASSUME MqInv, NEW t \in Thread, NEW q \in Queue, NEW u \in Thread,
         SeizeAndRefill(t, q, u), TQTypeOK'
  PROVE  MqStateInv'
<1>0. TypeOK /\ CallInv /\ WaitersOfOneKind /\ BuffersConserved
      /\ ReceiveReportsTruth /\ PendingInv
  BY Zenon DEF MqInv, MqStateInv
<1>1. /\ waitQueue[u] = q /\ pending[q] # <<>> /\ open[q] /\ LeaveQueue({u})
      /\ UNCHANGED <<pc, returnCode, inactive, notify, open, posix, role, letter, broadcast>>
  BY Zenon DEF SeizeAndRefill, IsFirst, Extract
<1>2. /\ role[u] = "send" /\ posix[q] /\ letter[u] \in Letter
      /\ letter[u].type \in MessagePriority
  BY <1>0, <1>1, WhoWaits, ThreadQueueAssumption, Zenon DEF CallInv
<1>3. /\ pending[q] \in Seq(Letter) /\ Len(pending[q]) \in Nat \ {0}
  BY <1>0, <1>1, EmptySeq, Zenon DEF TypeOK
<1>4. Tail(pending[q]) \in Seq(Letter) /\ Len(Tail(pending[q])) = Len(pending[q]) - 1
  BY <1>1, <1>3, HeadTailProperties, Zenon
<1> DEFINE s == InsertMessage(Tail(pending[q]), letter[u])
<1>5. s \in Seq(Letter) /\ Len(s) = Len(pending[q])
  <2>1. PICK k : InsertedAt(s, Tail(pending[q]), letter[u], k)
    BY Zenon, <1>2, <1>4, InsertMessagePlace
  <2> QED BY <1>3, <1>4, <2>1 DEF InsertedAt
<1>6. Sorted(s)
  BY Zenon, <1>0, <1>1, <1>2, <1>3, <1>4, TailSorted, InsertSorted DEF PendingInv
<1>7. pending' = [pending EXCEPT ![q] = s]
  BY Zenon DEF SeizeAndRefill
<1> HIDE DEF s
<1>8. \A r \in Queue : pending'[r] = IF r = q THEN s ELSE pending[r]
  BY <1>0, <1>7, Zenon DEF TypeOK
<1>9. \A x \in Thread : waitQueue'[x] = IF x = u THEN None ELSE waitQueue[x]
  BY <1>1, Zenon DEF LeaveQueue
<1>10. TypeOK'
  BY <1>0, <1>1, <1>5, <1>7, Zenon DEF TypeOK
<1>11. CallInv' /\ ReceiveReportsTruth'
  BY <1>0, <1>1, <1>2, <1>9, Zenon DEF CallInv, ReceiveReportsTruth
<1>12. WaitersOfOneKind'
  <2> SUFFICES ASSUME NEW r \in Queue, NEW x \in Thread, waitQueue'[x] = r
               PROVE  /\ role[x] = "receive" => pending'[r] = <<>>
                      /\ role[x] = "send" => Len(pending'[r]) = MaximumPending
    BY <1>1, Zenon DEF WaitersOfOneKind, Waiters
  <2>1. x \in Waiters(r)
    BY <1>9, ThreadQueueAssumption, Zenon DEF Waiters
  <2>2. /\ role[x] = "receive" => pending[r] = <<>>
        /\ role[x] = "send" => Len(pending[r]) = MaximumPending
    BY <1>0, <2>1, Zenon DEF WaitersOfOneKind
  <2> QED BY Zenon, <1>1, <1>5, <1>8, <2>2
<1>13. BuffersConserved'
  BY <1>0, <1>1, <1>5, <1>8, Zenon DEF BuffersConserved
<1>14. PendingInv'
  BY <1>0, <1>1, <1>6, <1>8, Zenon DEF PendingInv
<1> QED BY <1>10, <1>11, <1>12, <1>13, <1>14, Zenon DEF MqStateInv

\* _CORE_message_queue_Flush(): no sender waits on a classic message queue.
LEMMA FlushInv ==
  ASSUME MqInv, NEW c, NEW q \in Queue, Flush(c, q), TQTypeOK'
  PROVE  MqStateInv'
<1>0. TypeOK /\ CallInv /\ WaitersOfOneKind /\ BuffersConserved
      /\ ReceiveReportsTruth /\ PendingInv
  BY Zenon DEF MqInv, MqStateInv
<1>1. open[q] /\ ~posix[q]
      /\ UNCHANGED <<notify, open, posix, role, letter, broadcast, tqVars>>
  BY Zenon DEF Flush
<1>2. inactive[q] + Len(pending[q]) = MaximumPending /\ MaximumPending \in Nat
  BY <1>0, <1>1, CoreMessageQueueAssumption, Zenon DEF BuffersConserved
<1>3. <<>> \in Seq(Letter) /\ Len(<<>>) = 0
  BY EmptySeq, Zenon
<1>4. /\ \A r \in Queue : pending'[r] = IF r = q THEN <<>> ELSE pending[r]
      /\ \A r \in Queue : inactive'[r] = IF r = q THEN MaximumPending ELSE inactive[r]
  BY <1>0, <1>2, Zenon DEF Flush, TypeOK
<1>5. TypeOK'
  BY <1>0, <1>2, <1>3 DEF Flush, TypeOK
<1>6. CallInv' /\ ReceiveReportsTruth'
  BY <1>0, <1>1, Zenon DEF tqVars, CallInv, ReceiveReportsTruth
<1>7. WaitersOfOneKind'
  <2>1. \A t \in Thread : waitQueue[t] = q => role[t] # "send"
    BY <1>1, WhoWaits, Zenon
  <2> QED BY <1>0, <1>1, <1>4, <2>1, OneKindKept, Zenon DEF Waiters
<1>8. BuffersConserved'
  BY <1>0, <1>1, <1>2, <1>3, <1>4 DEF BuffersConserved
<1>9. PendingInv'
  BY <1>0, <1>1, <1>4, Zenon DEF PendingInv
<1> QED BY <1>5, <1>6, <1>7, <1>8, <1>9, Zenon DEF MqStateInv

\* _CORE_message_queue_Close() ends every wait with an error.
LEMMA CloseInv ==
  ASSUME MqInv, NEW t \in Thread, NEW q \in Queue, Close(t, q), TQTypeOK'
  PROVE  MqStateInv'
<1>0. TypeOK /\ CallInv /\ WaitersOfOneKind /\ BuffersConserved
      /\ ReceiveReportsTruth /\ PendingInv
  BY Zenon DEF MqInv, MqStateInv
<1>1. UNCHANGED <<pc, notify, posix, role, letter, broadcast>>
  BY Zenon DEF Close, Extract
<1>2. <<>> \in Seq(Letter) /\ Len(<<>>) = 0
  BY EmptySeq, Zenon
<1>3. /\ \A r \in Queue : pending'[r] = IF r = q THEN <<>> ELSE pending[r]
      /\ \A r \in Queue : inactive'[r] = IF r = q THEN 0 ELSE inactive[r]
      /\ \A r \in Queue : open'[r] = IF r = q THEN FALSE ELSE open[r]
  BY <1>0, Zenon DEF Close, TypeOK
<1>4. \A u \in Thread :
        /\ waitQueue'[u] = IF waitQueue[u] = q THEN None ELSE waitQueue[u]
        /\ returnCode'[u] = IF waitQueue[u] = q THEN "OBJECT_WAS_DELETED"
                                               ELSE returnCode[u]
  BY Zenon DEF Close, Extract, LeaveQueue, SetReturnCode, Waiters
<1>5. \A u \in Thread : waitQueue[u] \in Queue \cup {None}
  BY <1>0, Zenon DEF TypeOK, TQTypeOK
<1>6. q # None
  BY ThreadQueueAssumption, Zenon
<1>7. TypeOK'
  <2>1. 0 \in 0 .. MaximumPending
    BY CoreMessageQueueAssumption
  <2>2. /\ pending' \in [Queue -> Seq(Letter)]
        /\ inactive' \in [Queue -> 0 .. MaximumPending]
        /\ open' \in [Queue -> BOOLEAN]
    BY ZenonT(30), <1>0, <1>2, <2>1 DEF Close, TypeOK
  <2> QED BY Zenon, <1>0, <1>1, <2>2 DEF TypeOK
<1>8. CallInv'
  BY Zenon, <1>0, <1>1, <1>3, <1>4, <1>5 DEF CallInv
<1>9. ReceiveReportsTruth'
  BY ZenonT(30), <1>0, <1>1, <1>4, <1>6 DEF ReceiveReportsTruth, CallInv
<1>10. WaitersOfOneKind'
  BY <1>0, <1>1, <1>3, <1>4, <1>6, ThreadQueueAssumption
  DEF WaitersOfOneKind, Waiters
<1>11. BuffersConserved'
  BY Zenon, <1>0, <1>3 DEF BuffersConserved
<1>12. PendingInv'
  <2>1. Sorted(<<>>)
    BY <1>2 DEF Sorted
  <2> QED BY Zenon, <1>0, <1>1, <1>3, <2>1 DEF PendingInv
<1> QED BY <1>7, <1>8, <1>9, <1>10, <1>11, <1>12, Zenon DEF MqStateInv

\* A step of the handler: a wait that it ends was not successful, and a call
\* that returns has not waited in this step.
LEMMA HandlerStepInv ==
  ASSUME MqInv, HandlerStep, TQTypeOK'
  PROVE  MqStateInv'
<1>0. TypeOK /\ CallInv /\ WaitersOfOneKind /\ BuffersConserved
      /\ ReceiveReportsTruth /\ PendingInv
  BY Zenon DEF MqInv, MqStateInv
<1>1. /\ TQStep /\ WaitInv
      /\ UNCHANGED <<pending, inactive, notify, open, posix, broadcast>>
      /\ \A t \in Thread :
           /\ letter'[t] = IF pc'[t] = "run" THEN Empty ELSE letter[t]
           /\ role'[t] = IF pc'[t] = "run" THEN "none" ELSE role[t]
  BY Zenon DEF HandlerStep, MqInv
<1>2. \A t \in Thread :
        \/ waitQueue'[t] = waitQueue[t] /\ returnCode'[t] = returnCode[t]
        \/ waitQueue'[t] = None /\ returnCode'[t] # "SUCCESSFUL" /\ waitQueue[t] # None
  <2>1. CASE UNCHANGED <<waitQueue, returnCode>>
    BY <2>1, Zenon
  <2>2. CASE \E t \in Thread : EndsWait(t)
    BY <2>2 DEF EndsWait, MqInv, WaitInv, TQTypeOK
  <2> QED BY <1>1, <2>1, <2>2, HandlerEnds, Zenon
<1>3. \A t \in Thread :
        /\ pc[t] = "run" => pc'[t] = "run"
        /\ pc'[t] = "run" => waitQueue[t] = None
  BY ZenonT(30), <1>1, HandlerReturns
<1>4. TypeOK'
  BY Zenon, <1>0, <1>1 DEF HandlerStep, TypeOK, Empty
<1>5. CallInv'
  BY <1>0, <1>1, <1>2, <1>3, Zenon DEF CallInv
<1>6. WaitersOfOneKind'
  <2> SUFFICES ASSUME NEW q \in Queue, NEW t \in Thread, waitQueue'[t] = q
               PROVE  /\ role'[t] = "receive" => pending'[q] = <<>>
                      /\ role'[t] = "send" => Len(pending'[q]) = MaximumPending
    BY Zenon DEF WaitersOfOneKind, Waiters
  <2>1. t \in Waiters(q)
    BY <1>2, ThreadQueueAssumption, Zenon DEF Waiters
  <2>2. role'[t] # "none" => role'[t] = role[t]
    BY <1>1, Zenon
  <2> QED BY <1>0, <1>1, <2>1, <2>2, Zenon DEF WaitersOfOneKind
<1>7. ReceiveReportsTruth'
  BY <1>0, <1>1, <1>2, <1>3, Zenon DEF ReceiveReportsTruth, CallInv
<1>8. BuffersConserved' /\ PendingInv'
  BY <1>0, <1>1, Zenon DEF BuffersConserved, PendingInv
<1> QED BY <1>4, <1>5, <1>6, <1>7, <1>8, Zenon DEF MqStateInv

\* A message queue is created with all its buffers and without messages.
LEMMA InitializeInv ==
  ASSUME MqInv, NEW q \in Queue, Initialize(q), TQTypeOK'
  PROVE  MqStateInv'
<1>0. TypeOK /\ CallInv /\ WaitersOfOneKind /\ BuffersConserved
      /\ ReceiveReportsTruth /\ PendingInv
  BY Zenon DEF MqInv, MqStateInv
<1>1. ~open[q] /\ UNCHANGED <<posix, role, letter, broadcast, tqVars>>
  BY Zenon DEF Initialize
<1>2. <<>> \in Seq(Letter) /\ Len(<<>>) = 0 /\ MaximumPending \in Nat
  BY EmptySeq, CoreMessageQueueAssumption, Zenon
<1>3. /\ \A r \in Queue : pending'[r] = IF r = q THEN <<>> ELSE pending[r]
      /\ \A r \in Queue : inactive'[r] = IF r = q THEN MaximumPending ELSE inactive[r]
      /\ \A r \in Queue : open'[r] = IF r = q THEN TRUE ELSE open[r]
  BY <1>0, Zenon DEF Initialize, TypeOK
<1>4. TypeOK'
  BY <1>0, <1>2 DEF Initialize, TypeOK
<1>5. CallInv' /\ ReceiveReportsTruth'
  <2>1. \A t \in Thread : waitQueue[t] \in Queue \cup {None}
    BY <1>0, Zenon DEF TypeOK, TQTypeOK
  <2> QED BY ZenonT(30), <1>0, <1>1, <1>3, <2>1 DEF tqVars, CallInv, ReceiveReportsTruth
<1>6. WaitersOfOneKind'
  <2>1. \A t \in Thread : waitQueue[t] # q
    BY <1>0, <1>1, ThreadQueueAssumption, Zenon DEF CallInv
  <2> QED BY <1>0, <1>1, <1>3, <2>1, OneKindKept, Zenon DEF Waiters
<1>7. BuffersConserved'
  <2> SUFFICES ASSUME NEW r \in Queue, open'[r]
               PROVE  inactive'[r] + Len(pending'[r]) = MaximumPending
    BY Zenon DEF BuffersConserved
  <2>1. CASE r = q
    BY <1>2, <1>3, <2>1
  <2>2. CASE r # q
    BY Zenon, <1>0, <1>3, <2>2 DEF BuffersConserved
  <2> QED BY <2>1, <2>2, Zenon
<1>8. PendingInv'
  <2>1. Sorted(<<>>)
    BY <1>2 DEF Sorted
  <2> QED BY Zenon, <1>0, <1>1, <1>3, <2>1 DEF PendingInv
<1> QED BY <1>4, <1>5, <1>6, <1>7, <1>8, Zenon DEF MqStateInv

\* What touches neither the messages nor the waiting threads.
LEMMA QuietInv ==
  ASSUME MqInv, UNCHANGED <<pending, inactive, open, posix, role, letter, tqVars>>,
         notify' \in [Queue -> BOOLEAN],
         broadcast' \in [Context -> {None} \cup
           [queue : Queue, msg : Message, count : 0 .. BroadcastBound]]
  PROVE  MqStateInv'
<1>1. TypeOK'
  BY Zenon DEF MqInv, MqStateInv, TypeOK, tqVars, TQTypeOK
<1> QED BY ZenonT(30), <1>1
    DEF MqInv, MqStateInv, tqVars, CallInv, WaitersOfOneKind, Waiters,
        BuffersConserved, ReceiveReportsTruth, PendingInv

\* Every step keeps the invariant.
LEMMA MqInvStep == MqInv /\ [Next]_vars => MqInv'
<1> SUFFICES ASSUME MqInv, [Next]_vars PROVE MqStateInv'
  BY WaitInvStep, Zenon DEF MqInv, LeastNat
<1>1. TQTypeOK'
  BY WaitInvStep, Zenon DEF WaitInv
<1>2. TypeOK
  BY Zenon DEF MqInv, MqStateInv
<1>3. \A c \in Thread \cup Isr : c \in Context
  BY Zenon DEF Context
<1>4. ASSUME NEW q \in Queue, Initialize(q) PROVE MqStateInv'
  BY <1>1, <1>4, InitializeInv, Zenon
<1>5. ASSUME NEW c \in Thread \cup Isr, NEW q \in Queue, Submit(c, q)
      PROVE  MqStateInv'
  <2>1. PICK m \in Message, s \in SubmitType(q) :
          LET l == [msg |-> m, type |-> s] IN
          \/ \E t \in Thread : SubmitHandOver(c, q, l, t)
          \/ SubmitQueue(c, q, l)
          \/ c \in Thread /\ SubmitWait(c, q, l)
    BY <1>5, Zenon DEF Submit
  <2>2. [msg |-> m, type |-> s] \in Letter /\ [msg |-> m, type |-> s].type = s
    BY Zenon DEF Letter, SubmitType
  <2> QED BY <1>1, <2>1, <2>2, SubmitHandOverInv, SubmitQueueInv, SubmitWaitInv, Zenon
<1>6. ASSUME NEW t \in Thread, NEW q \in Queue, Seize(t, q) PROVE MqStateInv'
  BY <1>1, <1>6, SeizeNowInv, SeizeAndRefillInv, SeizeWaitInv, Zenon DEF Seize
<1>7. ASSUME NEW c \in Thread \cup Isr, NEW q \in Queue, Flush(c, q)
      PROVE  MqStateInv'
  BY <1>1, <1>7, FlushInv, Zenon
<1>8. ASSUME NEW t \in Thread, NEW q \in Queue, Close(t, q) PROVE MqStateInv'
  BY <1>1, <1>8, CloseInv, Zenon
<1>9. ASSUME NEW t \in Thread, NEW q \in Queue, NEW e \in BOOLEAN, SetNotify(t, q, e)
      PROVE  MqStateInv'
  BY <1>2, <1>9, QuietInv, Zenon DEF SetNotify, TypeOK
<1>10. ASSUME NEW c \in Thread \cup Isr, Broadcast(c) PROVE MqStateInv'
  <2>1. ASSUME NEW q \in Queue, NEW m \in Message, BroadcastBegin(c, q, m)
        PROVE  MqStateInv'
    <3>1. [queue |-> q, msg |-> m, count |-> 0]
            \in [queue : Queue, msg : Message, count : 0 .. BroadcastBound]
      BY CoreMessageQueueAssumption
    <3> QED BY <1>2, <1>3, <2>1, <3>1, QuietInv, Zenon DEF BroadcastBegin, TypeOK
  <2>2. ASSUME BroadcastEnd(c) PROVE MqStateInv'
    BY <1>2, <1>3, <2>2, QuietInv, Zenon DEF BroadcastEnd, TypeOK
  <2> QED BY <1>1, <1>3, <1>10, <2>1, <2>2, BroadcastDeliverInv, Zenon DEF Broadcast
<1>11. CASE HandlerStep
  BY <1>1, <1>11, HandlerStepInv, Zenon
<1>12. CASE UNCHANGED vars
  BY <1>2, <1>12, QuietInv, Zenon DEF vars, mqVars, TypeOK
<1> QED BY <1>4, <1>5, <1>6, <1>7, <1>8, <1>9, <1>10, <1>11, <1>12, Zenon DEF Next

------------------------------------------------------------------------------
(***************************************************************************)
(* The order of the messages.                                              *)
(***************************************************************************)

\* A step of a message queue that leaves its messages, takes them all, takes the
\* first one, or inserts one.
LEMMA NoOvertakingStep ==
  ASSUME MqInv, Next, NEW q \in Queue
  PROVE  KeepsOrder(pending[q], pending'[q])
<1>0. TypeOK /\ PendingInv
  BY Zenon DEF MqInv, MqStateInv
<1>1. pending[q] \in Seq(Letter) /\ DOMAIN pending[q] = 1 .. Len(pending[q])
  BY <1>0, LenProperties, Zenon DEF TypeOK
<1>2. pending'[q] = pending[q] => KeepsOrder(pending[q], pending'[q])
  BY Zenon DEF KeepsOrder
<1>3. pending'[q] = <<>> => KeepsOrder(pending[q], pending'[q])
  <2>1. DOMAIN <<>> = {}
    OBVIOUS
  <2> QED BY <2>1, Zenon DEF KeepsOrder
<1>4. ASSUME pending[q] # <<>>
      PROVE  /\ Tail(pending[q]) \in Seq(Letter)
             /\ DOMAIN Tail(pending[q]) = 1 .. Len(Tail(pending[q]))
             /\ \A i \in 1 .. Len(Tail(pending[q])) :
                  \E k \in DOMAIN pending[q] : Tail(pending[q])[i] = pending[q][k]
  <2>1. /\ Tail(pending[q]) \in Seq(Letter)
        /\ Len(Tail(pending[q])) = Len(pending[q]) - 1
        /\ \A i \in 1 .. Len(Tail(pending[q])) : Tail(pending[q])[i] = pending[q][i + 1]
        /\ Len(pending[q]) \in Nat
    BY <1>1, <1>4, HeadTailProperties, LenProperties, Zenon
  <2>2. \A i \in 1 .. Len(Tail(pending[q])) : i + 1 \in DOMAIN pending[q]
    BY <1>1, <2>1
  <2>3. DOMAIN Tail(pending[q]) = 1 .. Len(Tail(pending[q]))
    BY <2>1, LenProperties, Zenon
  <2> QED BY <2>1, <2>2, <2>3, Zenon
<1>5. ASSUME pending[q] # <<>>, pending'[q] = Tail(pending[q])
      PROVE  KeepsOrder(pending[q], pending'[q])
  BY <1>4, <1>5, Zenon DEF KeepsOrder
<1>6. ASSUME NEW r \in Queue, NEW new, pending' = [pending EXCEPT ![r] = new]
      PROVE  pending'[q] = IF r = q THEN new ELSE pending[q]
  BY <1>0, <1>6, Zenon DEF TypeOK
<1>7. ASSUME NEW c \in Thread \cup Isr, NEW r \in Queue, Submit(c, r)
      PROVE  KeepsOrder(pending[q], pending'[q])
  <2>1. PICK m \in Message, s \in SubmitType(r) :
          LET l == [msg |-> m, type |-> s] IN
          \/ \E t \in Thread : SubmitHandOver(c, r, l, t)
          \/ SubmitQueue(c, r, l)
          \/ c \in Thread /\ SubmitWait(c, r, l)
    BY <1>7, Zenon DEF Submit
  <2> DEFINE l == [msg |-> m, type |-> s]
  <2>2. l \in Letter /\ l.type = s
    BY Zenon DEF Letter, SubmitType
  <2> HIDE DEF l
  <2>3. CASE UNCHANGED pending
    BY <1>2, <2>3, Zenon
  <2>4. CASE SubmitQueue(c, r, l)
    <3>1. pending'[q] = IF r = q THEN InsertMessage(pending[q], l) ELSE pending[q]
      BY ZenonT(30), <1>0, <2>4 DEF SubmitQueue, TypeOK
    <3>2. r = q => l.type \in {Urgent, Normal}
                     \/ (l.type \in MessagePriority /\ Sorted(pending[q]))
      BY <1>0, <2>2, Zenon DEF SubmitType, PendingInv
    <3>3. r = q => KeepsOrder(pending[q], InsertMessage(pending[q], l))
      BY <1>1, <2>2, <3>2, InsertKeepsOrder, Zenon
    <3> QED BY <1>2, <3>1, <3>3, Zenon
  <2> QED BY Zenon, <2>1, <2>3, <2>4 DEF l, SubmitHandOver, SubmitWait
<1>8. ASSUME NEW t \in Thread, NEW r \in Queue, Seize(t, r)
      PROVE  KeepsOrder(pending[q], pending'[q])
  <2>1. CASE SeizeNow(t, r)
    BY <1>2, <1>5, <1>6, <2>1, Zenon DEF SeizeNow
  <2>2. ASSUME NEW u \in Thread, SeizeAndRefill(t, r, u)
        PROVE  KeepsOrder(pending[q], pending'[q])
    <3>1. /\ pending[r] # <<>> /\ waitQueue[u] = r
          /\ pending' = [pending EXCEPT ![r] = InsertMessage(Tail(pending[r]), letter[u])]
      BY <2>2, Zenon DEF SeizeAndRefill, IsFirst
    <3>2. /\ letter[u] \in Letter /\ letter[u].type \in MessagePriority /\ posix[r]
      BY ZenonT(30), <3>1, WhoWaits, ThreadQueueAssumption DEF MqInv, MqStateInv, CallInv
    <3>3. r = q => KeepsOrder(pending[q], InsertMessage(Tail(pending[q]), letter[u]))
      <4> SUFFICES ASSUME r = q
                   PROVE  KeepsOrder(pending[q], InsertMessage(Tail(pending[q]), letter[u]))
        BY Zenon
      <4>1. Sorted(Tail(pending[q]))
        BY ZenonT(30), <1>0, <1>1, <3>1, <3>2, TailSorted DEF PendingInv
      <4> QED BY Zenon, <1>1, <1>4, <3>1, <3>2, <4>1, InsertKeepsOrder
    <3> QED BY <1>2, <1>6, <3>1, <3>3, Zenon
  <2> QED BY ZenonT(30), <1>2, <1>8, <2>1, <2>2 DEF Seize, SeizeWait
<1>9. CASE \E r \in Queue : Initialize(r)
  BY <1>2, <1>3, <1>6, <1>9, Zenon DEF Initialize
<1>10. CASE \E c \in Thread \cup Isr, r \in Queue : Flush(c, r)
  BY <1>2, <1>3, <1>6, <1>10, Zenon DEF Flush
<1>11. CASE \E t \in Thread, r \in Queue : Close(t, r)
  BY Zenon, <1>2, <1>3, <1>6, <1>11 DEF Close
<1>12. CASE UNCHANGED pending
  BY <1>2, <1>12, Zenon
<1> QED BY Zenon, <1>7, <1>8, <1>9, <1>10, <1>11, <1>12
    DEF Next, SetNotify, Broadcast, BroadcastBegin, BroadcastDeliver, BroadcastEnd,
        HandlerStep

------------------------------------------------------------------------------
(***************************************************************************)
(* No message is lost.                                                     *)
(***************************************************************************)

\* What NoMessageLost says of a step, for one pending message.
StaysPending(q, i) ==
  \/ \E j \in DOMAIN pending'[q] : pending'[q][j] = pending[q][i]
  \/ pending'[q] = <<>> /\ (~open'[q] \/ ~posix[q])
  \/ i = 1

\* A pending message stays pending unless it is the first one, or all of them go.
LEMMA PendingStays ==
  ASSUME MqInv, Next, NEW q \in Queue, NEW i \in DOMAIN pending[q]
  PROVE  StaysPending(q, i)
<1>0. TypeOK /\ PendingInv
  BY Zenon DEF MqInv, MqStateInv
<1>1. /\ pending[q] \in Seq(Letter) /\ DOMAIN pending[q] = 1 .. Len(pending[q])
      /\ Len(pending[q]) \in Nat
  BY <1>0, LenProperties, Zenon DEF TypeOK
<1>2. pending'[q] = pending[q] => StaysPending(q, i)
  BY Zenon DEF StaysPending
<1>3. ASSUME i # 1
      PROVE  /\ pending[q] # <<>>
             /\ Tail(pending[q]) \in Seq(Letter)
             /\ DOMAIN Tail(pending[q]) = 1 .. Len(Tail(pending[q]))
             /\ i - 1 \in 1 .. Len(Tail(pending[q]))
             /\ Tail(pending[q])[i - 1] = pending[q][i]
  <2>1. i \in 1 .. Len(pending[q])
    BY <1>1, Zenon
  <2>2. pending[q] # <<>>
    BY <1>1, <2>1, EmptySeq
  <2>3. /\ Tail(pending[q]) \in Seq(Letter)
        /\ Len(Tail(pending[q])) = Len(pending[q]) - 1
        /\ \A j \in 1 .. Len(Tail(pending[q])) : Tail(pending[q])[j] = pending[q][j + 1]
    BY <1>1, <2>2, HeadTailProperties, Zenon
  <2>4. i - 1 \in 1 .. Len(Tail(pending[q])) /\ (i - 1) + 1 = i
    BY <1>1, <1>3, <2>1, <2>3
  <2>5. DOMAIN Tail(pending[q]) = 1 .. Len(Tail(pending[q]))
    BY <2>3, LenProperties, Zenon
  <2> QED BY <2>2, <2>3, <2>4, <2>5, Zenon
<1>4. pending'[q] = Tail(pending[q]) => StaysPending(q, i)
  BY <1>3, Zenon DEF StaysPending
<1>5. ASSUME NEW r \in Queue, NEW new, pending' = [pending EXCEPT ![r] = new]
      PROVE  pending'[q] = IF r = q THEN new ELSE pending[q]
  BY <1>0, <1>5, Zenon DEF TypeOK
<1>6. ASSUME NEW c \in Thread \cup Isr, NEW r \in Queue, Submit(c, r)
      PROVE  StaysPending(q, i)
  <2>1. PICK m \in Message, s \in SubmitType(r) :
          LET l == [msg |-> m, type |-> s] IN
          \/ \E t \in Thread : SubmitHandOver(c, r, l, t)
          \/ SubmitQueue(c, r, l)
          \/ c \in Thread /\ SubmitWait(c, r, l)
    BY <1>6, Zenon DEF Submit
  <2> DEFINE l == [msg |-> m, type |-> s]
  <2>2. l \in Letter
    BY Zenon DEF Letter, SubmitType
  <2> HIDE DEF l
  <2>3. CASE UNCHANGED pending
    BY <1>2, <2>3, Zenon
  <2>4. CASE SubmitQueue(c, r, l)
    <3>1. pending'[q] = IF r = q THEN InsertMessage(pending[q], l) ELSE pending[q]
      BY Zenon, <1>0, <2>4 DEF SubmitQueue, TypeOK
    <3>2. \E j \in DOMAIN InsertMessage(pending[q], l) :
            InsertMessage(pending[q], l)[j] = pending[q][i]
      BY <1>1, <2>2, InsertKeepsAll, Zenon
    <3> QED BY <1>2, <3>1, <3>2 DEF StaysPending
  <2> QED BY Zenon, <2>1, <2>3, <2>4 DEF l, SubmitHandOver, SubmitWait
<1>7. ASSUME NEW t \in Thread, NEW r \in Queue, Seize(t, r)
      PROVE  StaysPending(q, i)
  <2>1. CASE SeizeNow(t, r)
    BY Zenon, <1>2, <1>4, <1>5, <2>1 DEF SeizeNow
  <2>2. ASSUME NEW u \in Thread, SeizeAndRefill(t, r, u)
        PROVE  StaysPending(q, i)
    <3>1. /\ pending[r] # <<>> /\ waitQueue[u] = r
          /\ pending' = [pending EXCEPT ![r] = InsertMessage(Tail(pending[r]), letter[u])]
      BY Zenon, <2>2 DEF SeizeAndRefill, IsFirst
    <3>2. letter[u] \in Letter
      BY <3>1, WhoWaits, ThreadQueueAssumption, Zenon DEF MqInv, MqStateInv, CallInv
    <3>3. ASSUME i # 1
          PROVE  \E j \in DOMAIN InsertMessage(Tail(pending[q]), letter[u]) :
                   InsertMessage(Tail(pending[q]), letter[u])[j] = pending[q][i]
      BY Zenon, <1>3, <3>2, <3>3, InsertKeepsAll
    <3> QED BY <1>2, <1>5, <3>1, <3>3 DEF StaysPending
  <2> QED BY Zenon, <1>2, <1>7, <2>1, <2>2 DEF Seize, SeizeWait
<1>8. ASSUME NEW r \in Queue, Initialize(r)
      PROVE  StaysPending(q, i)
  <2>1. pending[r] = <<>> /\ pending'[q] = IF r = q THEN <<>> ELSE pending[q]
    BY Zenon, <1>0, <1>5, <1>8 DEF Initialize, PendingInv
  <2> QED BY <1>2, <2>1, Zenon
<1>9. CASE \E c \in Thread \cup Isr, r \in Queue : Flush(c, r)
  BY <1>2, <1>5, <1>9, Zenon DEF Flush, StaysPending
<1>10. ASSUME NEW t \in Thread, NEW r \in Queue, Close(t, r)
       PROVE  StaysPending(q, i)
  <2>1. /\ pending'[q] = IF r = q THEN <<>> ELSE pending[q]
        /\ ~open'[r]
    BY <1>0, <1>5, <1>10, Zenon DEF Close, TypeOK
  <2> QED BY Zenon, <1>2, <2>1 DEF StaysPending
<1>11. CASE UNCHANGED pending
  BY <1>2, <1>11, Zenon
<1> QED BY Zenon, <1>6, <1>7, <1>8, <1>9, <1>10, <1>11
    DEF Next, SetNotify, Broadcast, BroadcastBegin, BroadcastDeliver, BroadcastEnd,
        HandlerStep

\* A message that was given to a receiver stays with it until its call returns.
LEMMA GivenStays ==
  ASSUME MqInv, Next, NEW t \in Given
  PROVE  pc'[t] = "run" \/ (t \in Given' /\ letter'[t] = letter[t])
<1>1. /\ t \in Thread /\ role[t] = "receive" /\ letter[t] # Empty
      /\ pc[t] # "run" /\ waitQueue[t] = None
  BY ZenonT(30) DEF Given, MqInv, MqStateInv, CallInv
<1>2. ASSUME role'[t] = role[t], letter'[t] = letter[t]
      PROVE  t \in Given' /\ letter'[t] = letter[t]
  BY Zenon, <1>1, <1>2 DEF Given
<1>3. role \in [Thread -> {"none", "send", "receive"}] /\ DOMAIN letter = Thread
  BY Zenon DEF MqInv, MqStateInv, TypeOK
<1>4. ASSUME NEW u \in Thread, NEW q \in Queue, IsFirst(q, u), NEW x,
             letter' = [letter EXCEPT ![u] = x], UNCHANGED role
      PROVE  t \in Given' /\ letter'[t] = letter[t]
  <2>1. u # t
    BY <1>1, <1>4, ThreadQueueAssumption, Zenon DEF IsFirst
  <2> QED BY <1>2, <1>3, <1>4, <2>1
<1>5. CASE HandlerStep
  BY <1>1, <1>2, <1>5, Zenon DEF HandlerStep
<1>6. CASE \E c \in Thread \cup Isr, q \in Queue : Submit(c, q)
  <2>0. PICK c \in Thread \cup Isr, q \in Queue : Submit(c, q)
    BY <1>6, Zenon
  <2>1. PICK l :
          \/ \E u \in Thread : SubmitHandOver(c, q, l, u)
          \/ SubmitQueue(c, q, l)
          \/ c \in Thread /\ SubmitWait(c, q, l)
    BY Zenon, <2>0 DEF Submit
  <2>2. CASE c \in Thread /\ SubmitWait(c, q, l)
    <3>1. c # t
      BY Zenon, <1>1, <2>2 DEF SubmitWait, CanUse, CanCall
    <3> QED BY <1>2, <1>3, <2>2, <3>1 DEF SubmitWait
  <2> QED BY Zenon, <1>2, <1>4, <2>1, <2>2 DEF SubmitHandOver, SubmitQueue
<1>7. ASSUME NEW u \in Thread, NEW q \in Queue, SeizeWait(u, q)
      PROVE  t \in Given' /\ letter'[t] = letter[t]
  <2>1. u # t
    BY Zenon, <1>1, <1>7 DEF SeizeWait, CanUse, CanCall
  <2> QED BY <1>2, <1>3, <1>7, <2>1 DEF SeizeWait
<1>8. CASE \E c \in Thread \cup Isr, u \in Thread : BroadcastDeliver(c, u)
  <2>1. PICK c \in Thread \cup Isr, u \in Thread : BroadcastDeliver(c, u)
    BY <1>8, Zenon
  <2>2. broadcast[c].queue \in Queue
    BY <2>1, Zenon DEF BroadcastDeliver, MqInv, MqStateInv, TypeOK, Context
  <2> QED BY Zenon, <1>4, <2>1, <2>2 DEF BroadcastDeliver
<1>9. CASE UNCHANGED <<role, letter>>
  BY Zenon, <1>2, <1>9
<1> QED BY ZenonT(30), <1>5, <1>6, <1>7, <1>8, <1>9
    DEF Next, SetNotify, Broadcast, BroadcastBegin, BroadcastEnd, Seize, SeizeNow,
        SeizeAndRefill, Initialize, Flush, Close

\* A step of a message queue loses no message.
LEMMA NoMessageLostStep ==
  ASSUME MqInv, Next, NEW m \in Accepted \ Accepted'
  PROVE  \/ \E t \in Thread : letter[t].msg = m /\ pc'[t] = "run"
         \/ \E q \in Queue : m \in PendingMessages(q)
              /\ \/ pending'[q] = <<>> /\ (~open'[q] \/ ~posix[q])
                 \/ pending[q][1].msg = m
<1>1. CASE m \in {letter[t].msg : t \in Given}
  <2>1. PICK t \in Given : letter[t].msg = m
    BY <1>1, Zenon
  <2>2. t \in Thread
    BY Zenon DEF Given
  <2>3. ASSUME t \in Given', letter'[t] = letter[t] PROVE FALSE
    <3>1. m \in {letter'[u].msg : u \in Given'}
      BY <2>1, <2>3, Zenon
    <3>2. {letter'[u].msg : u \in Given'} \subseteq Accepted'
      BY Zenon DEF Accepted
    <3> QED BY <3>1, <3>2, Zenon
  <2> QED BY <2>1, <2>2, <2>3, GivenStays, Zenon
<1>2. ASSUME NEW q \in Queue, m \in PendingMessages(q)
      PROVE  \/ pending'[q] = <<>> /\ (~open'[q] \/ ~posix[q])
             \/ pending[q][1].msg = m
  <2>1. PICK i \in DOMAIN pending[q] : pending[q][i].msg = m
    BY <1>2, Zenon DEF PendingMessages
  <2>2. m \notin PendingMessages(q)'
    BY Zenon DEF Accepted
  <2>3. ~ \E j \in DOMAIN pending'[q] : pending'[q][j] = pending[q][i]
    BY <2>1, <2>2, Zenon DEF PendingMessages
  <2> QED BY <2>1, <2>3, PendingStays, Zenon DEF StaysPending
<1>3. m \in {letter[t].msg : t \in Given} \/ \E q \in Queue : m \in PendingMessages(q)
  <2>1. m \in Accepted
    BY Zenon
  <2> QED BY <2>1, Zenon DEF Accepted
<1> QED BY Zenon, <1>1, <1>2, <1>3

------------------------------------------------------------------------------
(***************************************************************************)
(* The theorems.                                                           *)
(***************************************************************************)
Library == INSTANCE WellFoundedInduction

\* The library says that the natural numbers are well-founded.
LEMMA LeastNatHolds == LeastNat
<1> SUFFICES ASSUME NEW I \in SUBSET Nat, I # {}
             PROVE  \E x \in I : \A y \in I : x <= y
  BY Zenon DEF LeastNat
<1>1. PICK x \in I : \A y \in I : ~(<<y, x>> \in Library!OpToRel(<, Nat))
  BY Library!NatLessThanWellFounded, Library!WFMin, I \subseteq Nat, Zenon
<1>2. \A y \in I : ~(y < x)
  BY <1>1, Zenon DEF Library!OpToRel
<1> QED BY <1>2

\* Senders and receivers never wait at the same time, so that _Seize() and
\* _Submit() can tell by the pending messages what the first waiting thread is.
THEOREM SendersOrReceivers == Spec => []WaitersOfOneKind
<1>1. MqInv => WaitersOfOneKind
  BY Zenon DEF MqInv, MqStateInv
<1> QED BY <1>1, LeastNatHolds, MqInvInit, MqInvStep, PTL DEF Spec

\* A message buffer is pending or inactive, never both and never neither.
THEOREM NoBufferLost == Spec => []BuffersConserved
<1>1. MqInv => BuffersConserved
  BY Zenon DEF MqInv, MqStateInv
<1> QED BY <1>1, LeastNatHolds, MqInvInit, MqInvStep, PTL DEF Spec

\* A receive call that waited reports success exactly if it was given a message,
\* whoever ended its wait and wherever the thread was.
THEOREM ReceiveTellsTruth == Spec => []ReceiveReportsTruth
<1>1. MqInv => ReceiveReportsTruth
  BY Zenon DEF MqInv, MqStateInv
<1> QED BY <1>1, LeastNatHolds, MqInvInit, MqInvStep, PTL DEF Spec

\* Messages of one priority keep their order, and a normal one overtakes nobody,
\* also when it comes from a sender that had to wait.
THEOREM OrderKept == Spec => NoOvertaking
<1>1. MqInv /\ [Next]_vars => [\A q \in Queue : KeepsOrder(pending[q], pending'[q])]_vars
  BY Zenon, NoOvertakingStep
<1>2. [\A q \in Queue : KeepsOrder(pending[q], pending'[q])]_vars <=>
      [\A q \in Queue : \A i, j \in DOMAIN pending'[q] :
       LET l == pending'[q][i]
           r == pending'[q][j]
       IN  i < j /\ l.type # Urgent /\ l.type >= r.type
              /\ r.msg \in PendingMessages(q)
             => l.msg \in PendingMessages(q)]_vars
  BY Zenon DEF KeepsOrder, PendingMessages
<1> QED BY <1>1, <1>2, LeastNatHolds, MqInvInit, MqInvStep, PTL DEF Spec, NoOvertaking

\* An accepted message leaves the system only with a receive call, a flush or
\* the deletion of its queue.
THEOREM MessagesKept == Spec => NoMessageLost
<1>1. MqInv /\ [Next]_vars =>
      [\A m \in Accepted \ Accepted' :
         \/ \E t \in Thread : letter[t].msg = m /\ pc'[t] = "run"
         \/ \E q \in Queue : m \in PendingMessages(q)
              /\ \/ pending'[q] = <<>> /\ (~open'[q] \/ ~posix[q])
                 \/ pending[q][1].msg = m]_vars
  BY NoMessageLostStep, Zenon
<1> QED BY <1>1, LeastNatHolds, MqInvInit, MqInvStep, PTL DEF Spec, NoMessageLost
==============================================================================
