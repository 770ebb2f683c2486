-------------------------- MODULE ConnectionProofs --------------------------
(***************************************************************************)
(* Proofs about the bounded queue of a connection, for any queue size and  *)
(* any mix and number of messages.                                         *)
(***************************************************************************)
EXTENDS Connection, SequenceTheorems, TLAPS

-----------------------------------------------------------------------------
(* Lemmas about sequences.                                                 *)

\* A message appended to the queue is appended to the stream.
LEMMA ConcatAppend ==
  ASSUME NEW S, NEW s \in Seq(S), NEW q \in Seq(S), NEW x \in S
  PROVE  s \o Append(q, x) = Append(s \o q, x)
  OBVIOUS

LEMMA AppendElements ==
  ASSUME NEW S, NEW s \in Seq(S), NEW x \in S
  PROVE  LET t == Append(s, x)
         IN  DOMAIN t = 1..Len(s) + 1 /\ t[Len(s) + 1] = x /\ \A i \in 1..Len(s) : t[i] = s[i]
  OBVIOUS

\* The head of the queue in hand: the stream is the same.
LEMMA ConcatHeadTail ==
  ASSUME NEW S, NEW s \in Seq(S), NEW q \in Seq(S), q # <<>>
  PROVE  (s \o <<Head(q)>>) \o Tail(q) = s \o q
  OBVIOUS

\* An eviction: what follows the head moves up, and the new message is last.
LEMMA ConcatEvict ==
  ASSUME NEW S, NEW s \in Seq(S), NEW q \in Seq(S), q # <<>>, NEW x \in S
  PROVE  LET t == s \o Append(Tail(q), x)
         IN  /\ t \in Seq(S) /\ Len(t) = Len(s \o q)
             /\ t[Len(t)] = x
             /\ \A i \in 1..Len(t) - 1 : t[i] = IF i <= Len(s) THEN (s \o q)[i] ELSE (s \o q)[i + 1]
  OBVIOUS

-----------------------------------------------------------------------------
(* The inductive invariant.                                                *)

\* Only a sender that has ended has abandoned what it had in hand.
AbandonedAtEnd == sender # "done" => abandoned = <<>>

\* Queued messages are as far apart as their places in the queue: an eviction
\* finds QueueSize messages from the evicted one on.
Spread == \A i, j \in DOMAIN queue : i <= j => queue[j] - queue[i] >= j - i

\* Every message is in the stream or counted as dropped.
Counted == Len(priorities) = Len(Stream) + dropped

IInv == TypeOK /\ AbandonedAtEnd /\ Spread /\ InOrder /\ Counted /\ AlertYieldsOnlyToAlert

-----------------------------------------------------------------------------
(* What the steps do to the stream.                                        *)

\* Messages on their way or there but for those in the queue.
Ahead == sent \o abandoned \o inHand

LEMMA StreamType ==
  ASSUME TypeOK
  PROVE  /\ Len(priorities) \in Nat /\ Message \subseteq Nat
         /\ Ahead \in Seq(Message) /\ queue \in Seq(Message)
         /\ Stream = Ahead \o queue /\ Stream \in Seq(Message)
<1>1. Len(priorities) \in Nat BY DEF TypeOK
<1>2. sent \o abandoned \in Seq(Message) BY DEF TypeOK
<1>3. Ahead \in Seq(Message) BY <1>2 DEF TypeOK, Ahead
<1>4. Stream = Ahead \o queue BY DEF Stream, Ahead
<1>5. Stream \in Seq(Message) BY <1>3, <1>4 DEF TypeOK
<1> QED BY <1>1, <1>3, <1>4, <1>5 DEF TypeOK, Message

\* The sender moves messages along and loses none.
LEMMA SenderKeepsStream ==
  ASSUME TypeOK, AbandonedAtEnd, Get \/ Sent \/ SendFails \/ Close
  PROVE  Stream' = Stream
<1> USE DEF TypeOK
<1>1. abandoned = <<>> BY DEF AbandonedAtEnd, Get, Sent, SendFails, Close
<1>2. CASE Get
  <2>1. inHand = <<>> BY <1>2 DEF Get
  <2>2. Ahead = sent BY <1>1, <2>1 DEF Ahead
  <2>3. Stream = sent \o queue BY <2>2, StreamType
  <2>4. Stream' = (sent \o <<Head(queue)>>) \o Tail(queue)
    BY <1>1, <1>2 DEF Get, Stream
  <2> QED BY <1>2, <2>3, <2>4, ConcatHeadTail DEF Get
<1>3. sent \o <<>> = sent /\ sent \o inHand \in Seq(Message) OBVIOUS
<1>4. (sent \o inHand) \o <<>> = sent \o inHand BY <1>3
<1>5. Stream = (sent \o inHand) \o queue BY <1>1, <1>3 DEF Stream
<1>6. CASE Sent
  <2>1. Stream' = (((sent \o inHand) \o <<>>) \o <<>>) \o queue BY <1>1, <1>6 DEF Sent, Stream
  <2> QED BY <1>4, <1>5, <2>1
<1>7. CASE SendFails \/ Close
  <2>1. Stream' = ((sent \o inHand) \o <<>>) \o queue
    BY <1>7 DEF SendFails, Close, Stop, Stream
  <2> QED BY <1>4, <1>5, <2>1
<1> QED BY <1>2, <1>6, <1>7

-----------------------------------------------------------------------------
(* Type correctness.                                                       *)

LEMMA EnqueueType ==
  ASSUME TypeOK, NEW priority \in BOOLEAN, Send(priority)
  PROVE  /\ priorities' \in Seq(BOOLEAN) /\ Len(priorities') = Len(priorities) + 1
         /\ Message \subseteq Message' /\ Len(priorities) + 1 \in Message'
         /\ queue' \in Seq(Message') /\ Len(queue') <= QueueSize
         /\ dropped' \in 0..Len(priorities')
<1> USE QueueSizeAssumption DEF TypeOK
<1> DEFINE m == Len(priorities) + 1
<1>1. priorities' \in Seq(BOOLEAN) /\ Len(priorities') = m /\ Len(priorities) \in Nat
  BY DEF Send
<1>2. Message \subseteq Message' /\ m \in Message' BY <1>1 DEF Message
<1>3. queue \in Seq(Message') BY <1>2
<1>4. Len(queue) \in Nat BY <1>3
<1>5. /\ Append(queue, m) \in Seq(Message') /\ Len(Append(queue, m)) = Len(queue) + 1
      /\ queue # <<>> => /\ Append(Tail(queue), m) \in Seq(Message')
                         /\ Len(Append(Tail(queue), m)) = Len(queue)
  BY <1>2, <1>3
<1>6. queue' \in Seq(Message') /\ Len(queue') <= QueueSize
  <2>1. CASE ~Full
    <3>1. queue' = Append(queue, m) BY <2>1 DEF Send, Enqueue
    <3>2. Len(queue) < QueueSize BY <1>4, <2>1 DEF Full
    <3> QED BY <1>4, <1>5, <3>1, <3>2
  <2>2. CASE Full
    <3>1. queue # <<>> BY <2>2 DEF Full
    <3> QED BY <1>3, <1>5, <2>2, <3>1 DEF Send, Enqueue, Full
  <2> QED BY <2>1, <2>2
<1>7. dropped' \in 0..Len(priorities') BY <1>1 DEF Send, Enqueue
<1> QED BY <1>1, <1>2, <1>6, <1>7

LEMMA TypeStep == TypeOK /\ [Next]_vars => TypeOK'
<1> SUFFICES ASSUME TypeOK, [Next]_vars PROVE TypeOK'
  OBVIOUS
<1> USE QueueSizeAssumption DEF TypeOK
<1>1. CASE Start BY <1>1 DEF Start, Message
<1>2. CASE DispatchPosition \/ DispatchAlert
  <2> PICK priority \in BOOLEAN : Send(priority) BY <1>2 DEF DispatchPosition, DispatchAlert
  <2>1. UNCHANGED <<sender, inHand, sent, abandoned>> BY DEF Send
  <2>2. inHand \in Seq(Message') /\ sent \in Seq(Message') /\ abandoned \in Seq(Message')
    BY EnqueueType
  <2> QED BY <2>1, <2>2, EnqueueType
<1>3. CASE Get
  <2>1. Head(queue) \in Message /\ Tail(queue) \in Seq(Message) /\ Len(Tail(queue)) = Len(queue) - 1
    BY <1>3 DEF Get
  <2>2. <<Head(queue)>> \in Seq(Message) /\ Len(<<Head(queue)>>) = 1 BY <2>1
  <2> QED BY <1>3, <2>1, <2>2 DEF Get, Message
<1>4. CASE Sent
  <2>1. sent \o inHand \in Seq(Message) OBVIOUS
  <2> QED BY <1>4, <2>1 DEF Sent, Message
<1>5. CASE SendFails \/ Close
  <2>1. Len(inHand) <= 1 OBVIOUS
  <2>2. inHand' = <<>> /\ Len(<<>>) = 0 /\ <<>> \in Seq(Message)
    BY <1>5 DEF SendFails, Close, Stop
  <2>3. sender' = "done" /\ abandoned' = inHand /\ UNCHANGED <<queue, dropped, priorities, sent>>
    BY <1>5 DEF SendFails, Close, Stop
  <2>4. Message' = Message BY <2>3 DEF Message
  <2>5. (inHand \in Seq(Message))' /\ (Len(inHand) = (IF sender = "sending" THEN 1 ELSE 0))'
    BY <2>2, <2>3, <2>4
  <2>6. (abandoned \in Seq(Message))' /\ (Len(abandoned) <= 1)'
    BY <2>1, <2>3, <2>4
  <2> QED BY <2>3, <2>4, <2>5, <2>6
<1>6. CASE UNCHANGED vars
  BY <1>6 DEF vars, Message
<1> QED BY <1>1, <1>2, <1>3, <1>4, <1>5, <1>6 DEF Next

-----------------------------------------------------------------------------
(* What a dispatched message does to the stream.                           *)

LEMMA SendEffect ==
  ASSUME TypeOK, NEW priority \in BOOLEAN, Send(priority)
  PROVE  LET m == Len(priorities) + 1
         IN  \/ Stream' = Append(Stream, m) /\ queue' = Append(queue, m) /\ dropped' = dropped
             \/ Stream' = Stream /\ queue' = queue /\ dropped' = dropped + 1 /\ ~priority
             \/ /\ Stream' = Ahead \o Append(Tail(queue), m)
                /\ queue' = Append(Tail(queue), m)
                /\ Len(queue) = QueueSize /\ queue # <<>>
                /\ dropped' = dropped + 1 /\ priority
<1> DEFINE m == Len(priorities) + 1
<1>0. /\ Stream = Ahead \o queue /\ Stream' = Ahead \o queue'
      /\ Ahead \in Seq(Nat) /\ queue \in Seq(Nat) /\ m \in Nat
  BY StreamType DEF Send, Stream, Ahead
<1>1. CASE ~Full /\ queue' = Append(queue, m) /\ dropped' = dropped
  <2>1. Ahead \o Append(queue, m) = Append(Ahead \o queue, m) BY <1>0, ConcatAppend
  <2> QED BY <1>0, <1>1, <2>1
<1>2. CASE Full /\ ~priority /\ queue' = queue /\ dropped' = dropped + 1
  BY <1>0, <1>2
<1>3. CASE Full /\ priority /\ queue' = Append(Tail(queue), m) /\ dropped' = dropped + 1
  <2>1. Len(queue) = QueueSize /\ queue # <<>> BY <1>3, QueueSizeAssumption DEF Full
  <2> QED BY <1>0, <1>3, <2>1
<1> QED BY <1>1, <1>2, <1>3 DEF Send, Enqueue

\* The queued message at place i of the queue is the one at place i of the
\* stream after those ahead of it.
LEMMA QueueInStream ==
  ASSUME TypeOK
  PROVE  /\ Len(Ahead) \in Nat /\ Len(queue) \in Nat /\ Len(Stream) = Len(Ahead) + Len(queue)
         /\ DOMAIN Stream = 1..Len(Stream) /\ DOMAIN queue = 1..Len(queue)
         /\ \A i \in 1..Len(queue) : queue[i] = Stream[Len(Ahead) + i]
         /\ \A i \in 1..Len(Stream) : Stream[i] \in 1..Len(priorities)
         /\ \A i \in 1..Len(queue) : queue[i] \in 1..Len(priorities)
<1>1. Ahead \in Seq(Message) /\ queue \in Seq(Message) /\ Stream = Ahead \o queue
      /\ Stream \in Seq(Message)
  BY StreamType
<1>2. Len(Ahead) \in Nat /\ Len(queue) \in Nat /\ Len(Stream) = Len(Ahead) + Len(queue)
  BY <1>1
<1>3. \A i \in 1..Len(queue) : queue[i] = Stream[Len(Ahead) + i]
  BY <1>1
<1> QED BY <1>1, <1>2, <1>3 DEF Message

-----------------------------------------------------------------------------
(* The conjuncts of the invariant, one by one.                             *)

LEMMA SpreadStep == IInv /\ [Next]_vars => Spread'
<1> SUFFICES ASSUME IInv, [Next]_vars PROVE Spread'
  OBVIOUS
<1>0. TypeOK /\ Spread BY DEF IInv
<1>1. ASSUME UNCHANGED queue PROVE Spread'
  BY <1>0, <1>1 DEF Spread
<1>2. CASE DispatchPosition \/ DispatchAlert
  <2> PICK priority \in BOOLEAN : Send(priority) BY <1>2 DEF DispatchPosition, DispatchAlert
  <2> DEFINE m == Len(priorities) + 1
  <2>0. /\ m \in Nat /\ \A i \in 1..Len(queue) : queue[i] \in Nat /\ queue[i] < m
        /\ Len(queue) \in Nat /\ queue \in Seq(Nat)
    BY <1>0, StreamType, QueueInStream
  <2>b. Len(queue) \in Nat BY <2>0
  <2>a. \A i, j \in 1..Len(queue) : i <= j => queue[j] - queue[i] >= j - i
    BY <1>0, QueueInStream DEF Spread
  <2>1. CASE queue' = Append(queue, m)
    <3>1. /\ DOMAIN queue' = 1..Len(queue) + 1 /\ queue'[Len(queue) + 1] = m
          /\ \A i \in 1..Len(queue) : queue'[i] = queue[i]
      BY <2>0, <2>1
    <3>2. ASSUME NEW i \in 1..Len(queue) PROVE m - queue[i] >= Len(queue) + 1 - i
      <4>1. queue[Len(queue)] - queue[i] >= Len(queue) - i /\ queue[Len(queue)] < m
            /\ queue[Len(queue)] \in Nat /\ queue[i] \in Nat
        BY <2>0, <2>a
      <4> QED BY <2>0, <4>1
    <3> SUFFICES ASSUME NEW i \in 1..Len(queue) + 1, NEW j \in 1..Len(queue) + 1, i <= j
                 PROVE  queue'[j] - queue'[i] >= j - i
      BY <3>1 DEF Spread
    <3>3. CASE j = Len(queue) + 1 /\ i = Len(queue) + 1 BY <2>0, <3>1, <3>3
    <3>4. CASE j = Len(queue) + 1 /\ i # j BY <2>0, <3>1, <3>2, <3>4
    <3>5. CASE j # Len(queue) + 1
      <4>1. i \in 1..Len(queue) /\ j \in 1..Len(queue) BY <2>0, <3>5
      <4> QED BY <2>a, <3>1, <4>1
    <3> QED BY <3>3, <3>4, <3>5
  <2>2. CASE queue' = Append(Tail(queue), m) /\ queue # <<>>
    <3>1. /\ DOMAIN queue' = 1..Len(queue) /\ queue'[Len(queue)] = m
          /\ \A i \in 1..Len(queue) - 1 : queue'[i] = queue[i + 1]
      BY <2>0, <2>2
    <3>2. ASSUME NEW i \in 1..Len(queue) - 1 PROVE m - queue[i + 1] >= Len(queue) - i
      <4>1. queue[Len(queue)] - queue[i + 1] >= Len(queue) - (i + 1) /\ queue[Len(queue)] < m
            /\ queue[Len(queue)] \in Nat /\ queue[i + 1] \in Nat
        BY <2>0, <2>a
      <4> QED BY <2>0, <4>1
    <3>3. ASSUME NEW i \in 1..Len(queue) - 1, NEW j \in 1..Len(queue) - 1, i <= j
          PROVE  queue[j + 1] - queue[i + 1] >= j - i
      <4>1. queue[j + 1] - queue[i + 1] >= (j + 1) - (i + 1) BY <2>0, <2>a, <3>3
      <4> QED BY <2>0, <4>1
    <3> SUFFICES ASSUME NEW i \in 1..Len(queue), NEW j \in 1..Len(queue), i <= j
                 PROVE  queue'[j] - queue'[i] >= j - i
      BY <3>1 DEF Spread
    <3>4. CASE j = Len(queue) /\ i = Len(queue) BY <2>0, <3>1, <3>4
    <3>5. CASE j = Len(queue) /\ i # j
      <4>1. i \in 1..Len(queue) - 1 BY <2>b, <3>5
      <4>2. m - queue[i + 1] >= Len(queue) - i BY <3>2, <4>1
      <4> QED BY <3>1, <3>5, <4>1, <4>2
    <3>6. CASE j # Len(queue)
      <4>1. i \in 1..Len(queue) - 1 /\ j \in 1..Len(queue) - 1 BY <2>b, <3>6
      <4> QED BY <3>1, <3>3, <4>1
    <3> QED BY <3>4, <3>5, <3>6
  <2> QED BY <1>0, <1>1, <2>1, <2>2, SendEffect
<1>3. CASE Get
  <2>1. queue \in Seq(Nat) /\ queue # <<>> /\ queue' = Tail(queue)
    BY <1>0, <1>3, StreamType DEF Get
  <2>2. /\ DOMAIN queue = 1..Len(queue) /\ DOMAIN queue' = 1..Len(queue) - 1 /\ Len(queue) \in Nat
        /\ \A i \in 1..Len(queue) : queue[i] \in Nat
        /\ \A i \in 1..Len(queue) - 1 : queue'[i] = queue[i + 1]
    BY <2>1
  <2> SUFFICES ASSUME NEW i \in 1..Len(queue) - 1, NEW j \in 1..Len(queue) - 1, i <= j
               PROVE  queue[j + 1] - queue[i + 1] >= j - i
    BY <2>2 DEF Spread
  <2>3. i + 1 \in 1..Len(queue) /\ j + 1 \in 1..Len(queue) /\ i + 1 <= j + 1 BY <2>2
  <2>4. queue[j + 1] - queue[i + 1] >= (j + 1) - (i + 1) BY <1>0, <2>2, <2>3 DEF Spread
  <2>5. queue[j + 1] \in Nat /\ queue[i + 1] \in Nat BY <2>2, <2>3
  <2> QED BY <2>2, <2>4, <2>5
<1> QED BY <1>1, <1>2, <1>3 DEF Next, Start, Sent, SendFails, Close, Stop, vars

\* No other step changes the stream, the priorities or the count.
LEMMA OtherSteps ==
  ASSUME TypeOK, AbandonedAtEnd, [Next]_vars, ~(DispatchPosition \/ DispatchAlert)
  PROVE  Stream' = Stream /\ UNCHANGED <<priorities, dropped>>
<1>1. CASE Start \/ UNCHANGED vars BY <1>1 DEF Start, vars, Stream
<1>2. CASE Get \/ Sent \/ SendFails \/ Close
  BY <1>2, SenderKeepsStream DEF Get, Sent, SendFails, Close, Stop
<1> QED BY <1>1, <1>2 DEF Next

LEMMA InOrderStep == IInv /\ [Next]_vars => InOrder'
<1> SUFFICES ASSUME IInv, [Next]_vars PROVE InOrder'
  OBVIOUS
<1>0. TypeOK /\ AbandonedAtEnd /\ InOrder BY DEF IInv
<1>1. CASE Stream' = Stream BY <1>0, <1>1 DEF InOrder
<1>2. CASE DispatchPosition \/ DispatchAlert
  <2> PICK priority \in BOOLEAN : Send(priority) BY <1>2 DEF DispatchPosition, DispatchAlert
  <2> DEFINE m == Len(priorities) + 1
             n == Len(Stream)
  <2>0. /\ m \in Nat /\ n \in Nat /\ Stream \in Seq(Nat) /\ Ahead \in Seq(Nat) /\ queue \in Seq(Nat)
        /\ Stream = Ahead \o queue /\ Len(Ahead) \in Nat
        /\ \A i \in 1..n : Stream[i] \in Nat /\ Stream[i] < m
    BY <1>0, StreamType, QueueInStream
  <2>a. \A i, j \in 1..n : i < j => Stream[i] < Stream[j] BY <1>0, QueueInStream DEF InOrder
  <2>b. n \in Nat /\ Len(Ahead) \in Nat BY <2>0
  <2>c. \A i \in 1..n : Stream[i] \in Nat BY <2>0
  <2> HIDE DEF n, m
  <2>1. CASE Stream' = Append(Stream, m)
    <3>1. /\ DOMAIN Stream' = 1..n + 1 /\ Stream'[n + 1] = m
          /\ \A i \in 1..n : Stream'[i] = Stream[i]
      BY <2>0, <2>1 DEF n
    <3> SUFFICES ASSUME NEW i \in 1..n + 1, NEW j \in 1..n + 1, i < j
                 PROVE  Stream'[i] < Stream'[j]
      BY <3>1 DEF InOrder
    <3>2. i \in 1..n BY <2>b
    <3>3. CASE j = n + 1 BY <2>0, <3>1, <3>2, <3>3
    <3>4. CASE j # n + 1
      <4>1. j \in 1..n BY <2>b, <3>4
      <4> QED BY <2>a, <3>1, <3>2, <4>1
    <3> QED BY <3>3, <3>4
  <2>2. CASE Stream' = Ahead \o Append(Tail(queue), m) /\ queue # <<>>
    <3>1. /\ Stream' \in Seq(Nat) /\ Len(Stream') = n /\ Stream'[n] = m
          /\ \A i \in 1..n - 1 : Stream'[i] = IF i <= Len(Ahead) THEN Stream[i] ELSE Stream[i + 1]
      BY <2>0, <2>2, ConcatEvict DEF n, m
    <3>2. DOMAIN Stream' = 1..n BY <2>0, <3>1
    <3> SUFFICES ASSUME NEW i \in 1..n, NEW j \in 1..n, i < j
                 PROVE  Stream'[i] < Stream'[j]
      BY <3>2 DEF InOrder
    <3>3. i \in 1..n - 1 /\ i + 1 \in 1..n BY <2>b
    <3>4. CASE j = n BY <2>0, <3>1, <3>3, <3>4
    <3>5. CASE j # n
      <4>1. j \in 1..n - 1 /\ j + 1 \in 1..n BY <2>b, <3>5
      <4>2. /\ Stream[i] < Stream[j] /\ Stream[i] < Stream[j + 1]
            /\ Stream[i + 1] < Stream[j + 1]
        BY <2>a, <2>b, <3>3, <4>1
      <4>3. i > Len(Ahead) => j > Len(Ahead) BY <2>b
      <4> QED BY <2>b, <2>c, <3>1, <3>3, <4>1, <4>2, <4>3
    <3> QED BY <3>4, <3>5
  <2> QED BY <1>0, <1>1, <2>1, <2>2, SendEffect DEF m
<1> QED BY <1>0, <1>1, <1>2, OtherSteps

LEMMA CountedStep == IInv /\ [Next]_vars => Counted'
<1> SUFFICES ASSUME IInv, [Next]_vars PROVE Counted'
  OBVIOUS
<1>0. TypeOK /\ AbandonedAtEnd /\ Len(priorities) = Len(Stream) + dropped
  BY DEF IInv, Counted
<1>1. dropped \in Nat /\ Len(priorities) \in Nat /\ Len(Stream) \in Nat
  BY <1>0, StreamType, QueueInStream DEF TypeOK
<1>2. CASE DispatchPosition \/ DispatchAlert
  <2> PICK priority \in BOOLEAN : Send(priority) BY <1>2 DEF DispatchPosition, DispatchAlert
  <2>1. Len(priorities') = Len(priorities) + 1 BY <1>0, EnqueueType
  <2>2. /\ Ahead \in Seq(Nat) /\ queue \in Seq(Nat) /\ Stream \in Seq(Nat)
        /\ Stream = Ahead \o queue /\ Len(priorities) + 1 \in Nat
    BY <1>0, StreamType
  <2>3. \/ Len(Stream') = Len(Stream) + 1 /\ dropped' = dropped
        \/ Len(Stream') = Len(Stream) /\ dropped' = dropped + 1
    <3>1. CASE Stream' = Append(Stream, Len(priorities) + 1) /\ dropped' = dropped
      BY <2>2, <3>1
    <3>2. CASE Stream' = Stream /\ dropped' = dropped + 1
      BY <3>2
    <3>3. CASE /\ Stream' = Ahead \o Append(Tail(queue), Len(priorities) + 1)
               /\ queue # <<>> /\ dropped' = dropped + 1
      BY <2>2, <3>3, ConcatEvict
    <3> QED BY <1>0, <3>1, <3>2, <3>3, SendEffect
  <2> QED BY <1>0, <1>1, <2>1, <2>3 DEF Counted
<1>3. CASE ~(DispatchPosition \/ DispatchAlert)
  <2>1. Stream' = Stream /\ UNCHANGED <<priorities, dropped>> BY <1>0, <1>3, OtherSteps
  <2> QED BY <1>0, <2>1 DEF Counted
<1> QED BY <1>2, <1>3

LEMMA AlertStep == IInv /\ [Next]_vars => AlertYieldsOnlyToAlert'
<1> SUFFICES ASSUME IInv, [Next]_vars PROVE AlertYieldsOnlyToAlert'
  OBVIOUS
<1>0. TypeOK /\ AbandonedAtEnd /\ Spread /\ InOrder /\ AlertYieldsOnlyToAlert BY DEF IInv
<1>1. CASE DispatchPosition \/ DispatchAlert
  <2> PICK priority \in BOOLEAN : Send(priority) BY <1>1 DEF DispatchPosition, DispatchAlert
  <2> DEFINE m == Len(priorities) + 1
  <2>0. /\ Len(priorities) \in Nat /\ QueueSize \in Nat \ {0}
        /\ Message = 1..Len(priorities) /\ Message' = 1..m
        /\ priorities'[m] = priority /\ \A e \in Message : priorities'[e] = priorities[e]
    BY <1>0, QueueSizeAssumption DEF TypeOK, Message, Send
  <2>1. /\ Ahead \in Seq(Nat) /\ queue \in Seq(Nat) /\ Stream \in Seq(Nat)
        /\ Stream = Ahead \o queue /\ m \in Nat /\ Len(Ahead) \in Nat /\ Len(Stream) \in Nat
    BY <1>0, StreamType, QueueInStream
  <2> SUFFICES ASSUME NEW e \in 1..m, priorities'[e], e \notin Elements(Stream')
               PROVE  \E k \in 1..m : priorities'[k] /\ k >= e + QueueSize
    BY <2>0 DEF AlertYieldsOnlyToAlert
  <2>2. ASSUME e # m, e \notin Elements(Stream)
        PROVE  \E k \in 1..m : priorities'[k] /\ k >= e + QueueSize
    <3>1. e \in Message BY <2>0, <2>2
    <3>2. PICK k \in Message : priorities[k] /\ k >= e + QueueSize
      BY <1>0, <2>0, <2>2, <3>1 DEF AlertYieldsOnlyToAlert
    <3> QED BY <2>0, <3>2
  <2>3. CASE Stream' = Append(Stream, m)
    <3>0. DOMAIN Stream = 1..Len(Stream) BY <1>0, QueueInStream
    <3>1. /\ DOMAIN Stream' = 1..Len(Stream) + 1
          /\ Stream'[Len(Stream) + 1] = m /\ \A i \in 1..Len(Stream) : Stream'[i] = Stream[i]
      BY <2>1, <2>3, AppendElements
    <3>2. Len(Stream) \in Nat BY <2>1
    <3> HIDE DEF m
    <3>3. m \in Elements(Stream') BY <3>1, <3>2 DEF Elements
    <3>4. Elements(Stream) \subseteq Elements(Stream')
      <4> SUFFICES ASSUME NEW i \in 1..Len(Stream) PROVE Stream[i] \in Elements(Stream')
        BY <3>0 DEF Elements
      <4>1. i \in DOMAIN Stream' /\ Stream'[i] = Stream[i] BY <3>1, <3>2
      <4> QED BY <4>1 DEF Elements
    <3> QED BY <2>2, <3>3, <3>4
  <2>4. CASE Stream' = Stream /\ ~priority
    BY <2>0, <2>2, <2>4 DEF Elements
  <2>5. CASE /\ Stream' = Ahead \o Append(Tail(queue), m)
             /\ Len(queue) = QueueSize /\ queue # <<>> /\ priority
    <3> DEFINE n == Len(Stream)
    <3>1. /\ Stream' \in Seq(Nat) /\ Len(Stream') = n /\ Stream'[n] = m
          /\ \A i \in 1..n - 1 : Stream'[i] = IF i <= Len(Ahead) THEN Stream[i] ELSE Stream[i + 1]
      BY <2>1, <2>5, ConcatEvict
    <3>2. /\ DOMAIN Stream = 1..n /\ DOMAIN Stream' = 1..n /\ n = Len(Ahead) + QueueSize /\ n \in Nat
          /\ Stream[Len(Ahead) + 1] = queue[1] /\ queue[QueueSize] \in 1..Len(priorities)
          /\ queue[1] \in 1..Len(priorities) /\ DOMAIN queue = 1..QueueSize
      BY <1>0, <2>0, <2>1, <2>5, <3>1, QueueInStream
    <3> HIDE DEF n
    <3>3. e # m BY <2>0, <2>1, <3>1, <3>2 DEF Elements
    <3>4. ASSUME e \in Elements(Stream) PROVE e = queue[1]
      <4>1. PICK i \in 1..n : e = Stream[i] BY <3>2, <3>4 DEF Elements
      <4>2. ~(i <= Len(Ahead))
        <5> SUFFICES ASSUME i <= Len(Ahead) PROVE FALSE
          OBVIOUS
        <5>1. i \in 1..n - 1 BY <2>0, <2>1, <3>2
        <5> QED BY <3>1, <3>2, <4>1, <5>1 DEF Elements
      <4>3. ~(i > Len(Ahead) + 1)
        <5> SUFFICES ASSUME i > Len(Ahead) + 1 PROVE FALSE
          OBVIOUS
        <5>1. i - 1 \in 1..n - 1 /\ i - 1 \in 1..n /\ ~(i - 1 <= Len(Ahead)) /\ (i - 1) + 1 = i
          BY <2>1, <3>2
        <5>2. Stream'[i - 1] = e BY <3>1, <4>1, <5>1
        <5> QED BY <3>2, <5>1, <5>2 DEF Elements
      <4> QED BY <2>1, <3>2, <4>1, <4>2, <4>3
    <3>5. CASE e \in Elements(Stream)
      <4>1. 1 \in 1..QueueSize /\ QueueSize \in 1..QueueSize /\ 1 <= QueueSize BY <2>0
      <4>2. queue[QueueSize] - queue[1] >= QueueSize - 1
        BY <1>0, <3>2, <4>1 DEF Spread
      <4>3. e = queue[1] BY <3>4, <3>5
      <4>4. queue[1] \in Nat /\ queue[QueueSize] \in Nat /\ queue[QueueSize] <= Len(priorities)
            /\ QueueSize \in Nat /\ Len(priorities) \in Nat
        BY <2>0, <3>2
      <4>5. m >= e + QueueSize BY ONLY <4>2, <4>3, <4>4 DEF m
      <4>6. m \in 1..m /\ priorities'[m] = priority BY <2>0
      <4>7. priorities'[m] BY <2>5, <4>6
      <4> QED BY <4>5, <4>6, <4>7
    <3> QED BY <2>2, <3>3, <3>5
  <2> QED BY <1>0, <2>3, <2>4, <2>5, SendEffect
<1>2. CASE ~(DispatchPosition \/ DispatchAlert)
  <2>1. Stream' = Stream /\ UNCHANGED <<priorities, dropped>> BY <1>0, <1>2, OtherSteps
  <2> QED BY <1>0, <2>1 DEF AlertYieldsOnlyToAlert, Elements, Message
<1> QED BY <1>1, <1>2

-----------------------------------------------------------------------------
(* The theorems.                                                           *)

LEMMA Invariance == Spec => []IInv
<1>1. Init => IInv
  <2> SUFFICES ASSUME Init PROVE IInv
    OBVIOUS
  <2>1. Stream = <<>> /\ Message = {} BY DEF Init, Stream, Message
  <2>2. TypeOK BY QueueSizeAssumption DEF Init, TypeOK
  <2>3. AbandonedAtEnd /\ Spread /\ InOrder /\ Counted /\ AlertYieldsOnlyToAlert
    BY <2>1 DEF Init, AbandonedAtEnd, Spread, InOrder, Counted, AlertYieldsOnlyToAlert
  <2> QED BY <2>2, <2>3 DEF IInv
<1>2. IInv /\ [Next]_vars => AbandonedAtEnd'
  BY DEF IInv, TypeOK, AbandonedAtEnd, Next, Start, DispatchPosition, DispatchAlert, Send, Get, Sent,
         SendFails, Close, Stop, vars
<1>3. IInv /\ [Next]_vars => IInv'
  BY <1>2, TypeStep, SpreadStep, InOrderStep, CountedStep, AlertStep DEF IInv
<1> QED BY <1>1, <1>3, PTL DEF Spec

\* The queue of a connection keeps to its size, and every variable to its type.
THEOREM TypeCorrect == Spec => []TypeOK
<1>1. IInv => TypeOK BY DEF IInv
<1> QED BY <1>1, Invariance, PTL

\* A client sees messages in the order of dispatch and none twice, whatever is
\* evicted while the sender works.
THEOREM SentInOrder == Spec => []InOrder
<1>1. IInv => InOrder BY DEF IInv
<1> QED BY <1>1, Invariance, PTL

\* A message that was not sent is counted as dropped or waits, and no more wait
\* than a full queue and one in hand: by so many a client may miss more than
\* close logs, and by no more.
THEOREM DropsAreCounted == Spec => []NothingVanishes
<1>1. ASSUME IInv PROVE NothingVanishes
  <2>1. /\ sent \in Seq(Nat) /\ abandoned \in Seq(Nat) /\ inHand \in Seq(Nat) /\ queue \in Seq(Nat)
        /\ Len(queue) <= QueueSize
    BY <1>1 DEF IInv, TypeOK, Message
  <2>2. Len(Stream) = Len(sent) + Len(abandoned) + Len(inHand) + Len(queue)
    <3>1. sent \o abandoned \in Seq(Nat) /\ Len(sent \o abandoned) = Len(sent) + Len(abandoned)
      BY <2>1
    <3>2. /\ (sent \o abandoned) \o inHand \in Seq(Nat)
          /\ Len((sent \o abandoned) \o inHand) = Len(sent \o abandoned) + Len(inHand)
      BY <2>1, <3>1
    <3>3. Len(Stream) = Len((sent \o abandoned) \o inHand) + Len(queue)
      BY <2>1, <3>2 DEF Stream
    <3> QED BY <3>1, <3>2, <3>3
  <2>3. Len(abandoned) + Len(inHand) <= 1
    <3>1. CASE sender = "sending"
      <4>1. abandoned = <<>> /\ Len(inHand) = 1 BY <1>1, <3>1 DEF IInv, AbandonedAtEnd, TypeOK
      <4> QED BY <4>1
    <3>2. CASE sender # "sending"
      <4>1. Len(inHand) = 0 /\ Len(abandoned) <= 1 BY <1>1, <3>2 DEF IInv, TypeOK
      <4> QED BY <2>1, <4>1
    <3> QED BY <3>1, <3>2
  <2>4. /\ Len(sent) \in Nat /\ Len(abandoned) \in Nat /\ Len(inHand) \in Nat
        /\ Len(queue) \in Nat /\ QueueSize \in Nat
    BY <2>1, QueueSizeAssumption
  <2>5. dropped \in Nat /\ Len(priorities) = Len(Stream) + dropped
    BY <1>1 DEF IInv, TypeOK, Counted
  <2> QED BY <2>1, <2>2, <2>3, <2>4, <2>5 DEF NothingVanishes
<1> QED BY <1>1, Invariance, PTL

\* An alert is lost in the queue only to a later alert, at least QueueSize
\* messages after it.
THEOREM AlertsGetThrough == Spec => []AlertYieldsOnlyToAlert
<1>1. IInv => AlertYieldsOnlyToAlert BY DEF IInv
<1> QED BY <1>1, Invariance, PTL
=============================================================================
