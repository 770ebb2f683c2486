----------------------------- MODULE Connection -----------------------------
(***************************************************************************)
(* One WebSocket connection of the registry: the bounded queue that        *)
(* Subscriber._dispatch fills and the sender task that empties it.         *)
(*                                                                         *)
(* A message is its number in the order of dispatch.  Alerts are sent with *)
(* priority, positions without.                                            *)
(***************************************************************************)
EXTENDS Integers, Sequences

CONSTANTS
    QueueSize,      \* REALTIME_QUEUE_SIZE
    NumMessages     \* bound: messages dispatched

\* A maxsize of zero would make an asyncio queue unbounded.
ASSUME QueueSizeAssumption == QueueSize \in Nat \ {0}
ASSUME NumMessagesAssumption == NumMessages \in Nat

VARIABLES
    queue,          \* _message_queue
    sender,         \* the sender task: "none", "waiting", "sending" or "done"
    inHand,         \* the message send_text is sending, as a sequence
    dropped,        \* _dropped_messages
    \* History, read by no action but for the number of messages so far:
    priorities,     \* priorities[m]: message m is an alert
    sent,           \* messages send_text returned for, in that order
    abandoned       \* messages in hand when the sender failed or was cancelled

vars == <<queue, sender, inHand, dropped, priorities, sent, abandoned>>

Init ==
    /\ queue = <<>> /\ sender = "none" /\ inHand = <<>> /\ dropped = 0
    /\ priorities = <<>> /\ sent = <<>> /\ abandoned = <<>>

-----------------------------------------------------------------------------
Full == Len(queue) = QueueSize

\* Connection.start, within Subscriber.attach.
Start ==
    /\ sender = "none"
    /\ sender' = "waiting"
    /\ UNCHANGED <<queue, inHand, dropped, priorities, sent, abandoned>>

\* Mutant: a full queue refuses every message, an alert too.
Refused(priority, message) ==
    IF Full THEN queue' = queue /\ dropped' = dropped + 1
            ELSE queue' = Append(queue, message) /\ dropped' = dropped

\* Mutant: an evicting message takes the place of the oldest one.
Overwritten(priority, message) ==
    IF Full THEN /\ queue' = IF priority THEN [queue EXCEPT ![1] = message] ELSE queue
                 /\ dropped' = dropped + 1
            ELSE queue' = Append(queue, message) /\ dropped' = dropped

\* Mutant: _discard_oldest does not count.
Uncounted(priority, message) ==
    \/ ~Full /\ queue' = Append(queue, message) /\ dropped' = dropped
    \/ Full /\ ~priority /\ queue' = queue /\ dropped' = dropped + 1
    \/ Full /\ priority /\ queue' = Append(Tail(queue), message) /\ dropped' = dropped

\* Mutant: the queue is not bounded against alerts.
Unbounded(priority, message) ==
    \/ (~Full \/ priority) /\ queue' = Append(queue, message) /\ dropped' = dropped
    \/ Full /\ ~priority /\ queue' = queue /\ dropped' = dropped + 1

\* What send does to the queue: a full one drops a position and makes room
\* for an alert by discarding the oldest message, whatever that is.
Enqueue(priority, message) ==
    \/ ~Full /\ queue' = Append(queue, message) /\ dropped' = dropped
    \/ Full /\ ~priority /\ queue' = queue /\ dropped' = dropped + 1
    \/ Full /\ priority /\ queue' = Append(Tail(queue), message) /\ dropped' = dropped + 1

\* Connection.send: never waits, whatever the sender does, and does not look
\* whether there is one.  A sender that has failed leaves the connection
\* registered, so messages still come.
Send(priority) ==
    /\ Len(priorities) < NumMessages
    /\ priorities' = Append(priorities, priority)
    /\ Enqueue(priority, Len(priorities) + 1)
    /\ UNCHANGED <<sender, inHand, sent, abandoned>>

\* Subscriber._dispatch of a position: registry.broadcast, to every connection.
DispatchPosition == Send(FALSE)

\* Of an alert: registry.send_to_user, to those of its user.
DispatchAlert == Send(TRUE)

\* _send_queued gets a message and starts to send it.
Get ==
    /\ sender = "waiting"
    /\ queue # <<>>
    /\ inHand' = <<Head(queue)>>
    /\ queue' = Tail(queue)
    /\ sender' = "sending"
    /\ UNCHANGED <<dropped, priorities, sent, abandoned>>

\* send_text returns.
Sent ==
    /\ sender = "sending"
    /\ sent' = sent \o inHand
    /\ inHand' = <<>>
    /\ sender' = "waiting"
    /\ UNCHANGED <<queue, dropped, priorities, abandoned>>

Stop ==
    /\ sender' = "done"
    /\ abandoned' = inHand
    /\ inHand' = <<>>
    /\ UNCHANGED <<queue, dropped, priorities, sent>>

\* send_text fails: the socket is closed and the task ends.  The connection
\* stays registered until its endpoint notices.
SendFails == sender = "sending" /\ Stop

\* Connection.close cancels the sender wherever it is.
Close == sender \in {"waiting", "sending"} /\ Stop

Next ==
    \/ Start
    \/ DispatchPosition \/ DispatchAlert
    \/ Get \/ Sent \/ SendFails \/ Close

Spec == Init /\ [][Next]_vars

-----------------------------------------------------------------------------
Message == 1..Len(priorities)
Elements(s) == {s[i] : i \in DOMAIN s}

\* Messages on their way or there, oldest first.
Stream == sent \o abandoned \o inHand \o queue

\* The queue never outgrows its size, whatever the mix of messages.
TypeOK ==
    /\ queue \in Seq(Message) /\ Len(queue) <= QueueSize
    /\ sender \in {"none", "waiting", "sending", "done"}
    /\ inHand \in Seq(Message) /\ Len(inHand) = (IF sender = "sending" THEN 1 ELSE 0)
    /\ dropped \in 0..Len(priorities)
    /\ priorities \in Seq(BOOLEAN)
    /\ sent \in Seq(Message)
    /\ abandoned \in Seq(Message) /\ Len(abandoned) <= 1

\* A client sees a subsequence of what was dispatched, in that order and with
\* nothing twice, although alerts evict messages from the front of the queue
\* while the sender takes them from there.
InOrder == \A i, j \in DOMAIN Stream : i < j => Stream[i] < Stream[j]

\* A message that has not been sent is counted as dropped, or waits: in the
\* queue, or in the hands of the sender or left there when it ended.  close logs
\* the former only, so a client misses more messages than close logs, by those
\* that wait: never more than a full queue and one message in hand.
NothingVanishes ==
    LET waiting == Len(abandoned) + Len(inHand) + Len(queue)
    IN  Len(priorities) = Len(sent) + waiting + dropped /\ waiting <= QueueSize + 1

\* README.md: "its positions get dropped, while alerts evict older messages to
\* get through".  An alert is lost in the queue only to another alert, and only
\* once QueueSize messages have been dispatched after it.
AlertYieldsOnlyToAlert ==
    \A m \in Message :
        priorities[m] /\ m \notin Elements(Stream)
            => \E n \in Message : priorities[n] /\ n >= m + QueueSize
=============================================================================
