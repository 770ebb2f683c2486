------------------------------ MODULE Realtime ------------------------------
(***************************************************************************)
(* The subscriber of one process: the registry of WebSocket connections,   *)
(* the Redis pub/sub connection whose subscriptions follow it, and the     *)
(* task that reads that connection and resubscribes after a failure.       *)
(*                                                                         *)
(* Redis and redis-py are external.  While the pub/sub connection is up, a *)
(* (un)subscribe command is written before its coroutine first suspends,   *)
(* so commands keep the order of the calls.  While it is down, the call    *)
(* waits for a new connection; waiting calls finish in any order, or fail. *)
(* A new connection starts with the channels the client remembers.         *)
(***************************************************************************)
EXTENDS Integers, FiniteSets

CONSTANTS
    Connections,        \* WebSocket connections, each used once
    Users,
    UserOf,             \* UserOf[c]: Connection.user_id
    PositionChannel,    \* POSITION_CHANNEL; a user stands for his alert channel
    MaxFaults           \* bound: failures of the pub/sub connection and of calls

ASSUME UserOfAssumption == UserOf \in [Connections -> Users]
ASSUME ChannelAssumption == PositionChannel \notin Users
ASSUME MaxFaultsAssumption == MaxFaults \in Nat

VARIABLES
    conn,           \* conn[c]: where the endpoint of c is
    registry,       \* ConnectionRegistry: the registered connections
    senders,        \* connections whose sender is started and not closed
    link,           \* the pub/sub connection, "up" or "down"
    subs,           \* channels Redis delivers to it
    known,          \* channels the client subscribes again when it reconnects
    reader,         \* _run: "reading", "backoff", "resubscribing" or "stopped"
    channels,       \* the channels _resubscribe has collected
    faults,
    \* History, read by no action:
    unheard,        \* users whose subscribe raised, not resubscribed since
    healing,        \* those of them the _resubscribe under way began after
    crossed,        \* users one of whose calls overtook an unsubscribe
    unclosed        \* connections whose unsubscribe raised

clientVars == <<subs, known>>
readerVars == <<reader, channels>>
history == <<unheard, healing, crossed, unclosed>>
vars == <<conn, registry, senders, link, clientVars, readerVars, faults, history>>

Init ==
    /\ conn = [c \in Connections |-> "absent"]
    /\ registry = {} /\ senders = {}
    /\ link = "up" /\ subs = {PositionChannel} /\ known = {PositionChannel}
    /\ reader = "reading" /\ channels = {}
    /\ faults = 0
    /\ unheard = {} /\ healing = {} /\ crossed = {} /\ unclosed = {}

-----------------------------------------------------------------------------
\* ConnectionRegistry.users.
RegisteredUsers == {UserOf[c] : c \in registry}

Sessions(c) == {x \in registry : UserOf[x] = UserOf[c]}

\* What add returns: c is now the only session of its user.
IsFirstSession(c) == Sessions(c) = {}

\* Mutant: discard always reports the user gone.
AnySession(c) == TRUE
\* What discard returns: no session of the user is left.
IsLastSession(c) == Sessions(c) = {c}

Goto(c, pc) == conn' = [conn EXCEPT ![c] = pc]

Fault == faults < MaxFaults /\ faults' = faults + 1

\* The channels a command starts from: those of a new connection, if need be.
Connected(S) == IF link = "up" THEN S ELSE known

Subscribe(S) ==
    /\ link' = "up"
    /\ subs' = Connected(subs) \cup S
    /\ known' = known \cup S

\* Mutant: the channel is forgotten, no command is sent.
ForgetOnly(S) ==
    /\ link' = "up"
    /\ subs' = Connected(subs)
    /\ known' = known \ S

Unsubscribe(S) ==
    /\ link' = "up"
    /\ subs' = Connected(subs) \ S
    /\ known' = known \ S

-----------------------------------------------------------------------------
\* Subscriber.attach: start the sender, register, and for the first session of
\* a user subscribe to his alerts.
Attach(c) ==
    /\ conn[c] = "absent"
    /\ reader # "stopped"
    /\ senders' = senders \cup {c}
    /\ registry' = registry \cup {c}
    /\ \/ /\ ~IsFirstSession(c)
          /\ Goto(c, "open")
          /\ UNCHANGED <<link, clientVars, crossed>>
       \/ /\ IsFirstSession(c)
          /\ \/ link = "up" /\ Subscribe({UserOf[c]}) /\ Goto(c, "open")
             \/ link = "down" /\ Goto(c, "attaching") /\ UNCHANGED <<link, clientVars>>
          /\ crossed' = crossed \cup
                 {u \in {UserOf[c]} : \E x \in Connections : conn[x] = "detaching" /\ UserOf[x] = u}
    /\ UNCHANGED <<readerVars, faults, unheard, healing, unclosed>>

\* The waiting subscribe of attach gets a connection.
Subscribed(c) ==
    /\ conn[c] = "attaching"
    /\ Subscribe({UserOf[c]})
    /\ Goto(c, "open")
    /\ UNCHANGED <<registry, senders, readerVars, faults, history>>

\* It raises, before the endpoint's try: nobody will detach c.
SubscribeFails(c) ==
    /\ Fault
    /\ conn[c] = "attaching"
    /\ Goto(c, "gone")
    /\ unheard' = unheard \cup {UserOf[c]}
    /\ healing' = healing \ {UserOf[c]}
    /\ UNCHANGED <<registry, senders, link, clientVars, readerVars, crossed, unclosed>>

\* Mutant: only the last session of a user closes its connection.
DetachWithoutClose(c) ==
    /\ conn[c] = "open"
    /\ registry' = registry \ {c}
    /\ \/ /\ ~IsLastSession(c)
          /\ Goto(c, "gone")
          /\ UNCHANGED <<senders, link, clientVars>>
       \/ /\ IsLastSession(c)
          /\ \/ link = "up" /\ Unsubscribe({UserOf[c]}) /\ Goto(c, "gone") /\ senders' = senders \ {c}
             \/ link = "down" /\ Goto(c, "detaching") /\ UNCHANGED <<senders, link, clientVars>>
    /\ UNCHANGED <<readerVars, faults, history>>

\* Subscriber.detach, when the client has left: unregister, unsubscribe after
\* the last session of the user, and close the connection.
Detach(c) ==
    /\ conn[c] = "open"
    /\ registry' = registry \ {c}
    /\ \/ /\ \/ ~IsLastSession(c) /\ UNCHANGED <<link, clientVars>>
             \/ IsLastSession(c) /\ link = "up" /\ Unsubscribe({UserOf[c]})
          /\ Goto(c, "gone")
          /\ senders' = senders \ {c}
       \/ /\ IsLastSession(c) /\ link = "down"
          /\ Goto(c, "detaching")
          /\ UNCHANGED <<senders, link, clientVars>>
    /\ UNCHANGED <<readerVars, faults, history>>

\* The waiting unsubscribe of detach gets a connection.
Unsubscribed(c) ==
    /\ conn[c] = "detaching"
    /\ Unsubscribe({UserOf[c]})
    /\ Goto(c, "gone")
    /\ senders' = senders \ {c}
    /\ UNCHANGED <<registry, readerVars, faults, history>>

\* It raises: the connection is not closed.
UnsubscribeFails(c) ==
    /\ Fault
    /\ conn[c] = "detaching"
    /\ Goto(c, "gone")
    /\ unclosed' = unclosed \cup {c}
    /\ UNCHANGED <<registry, senders, link, clientVars, readerVars, unheard, healing, crossed>>

-----------------------------------------------------------------------------
\* Redis restarts, or the network fails; nobody has noticed yet.
LinkDrops ==
    /\ Fault
    /\ link = "up"
    /\ link' = "down"
    /\ subs' = {}
    /\ UNCHANGED <<conn, registry, senders, known, readerVars, history>>

\* get_message reconnects by itself.
Reconnect ==
    /\ reader = "reading"
    /\ link = "down"
    /\ Subscribe({})
    /\ UNCHANGED <<conn, registry, senders, readerVars, faults, history>>

\* Mutant: the exception ends the task.
ReaderDies ==
    /\ Fault
    /\ reader = "reading" /\ link = "down"
    /\ reader' = "dead"
    /\ UNCHANGED <<conn, registry, senders, link, clientVars, channels, history>>

\* It does not, and raises; _run backs off.
ReadFails ==
    /\ Fault
    /\ reader = "reading" /\ link = "down"
    /\ reader' = "backoff"
    /\ UNCHANGED <<conn, registry, senders, link, clientVars, channels, history>>

\* Mutant: _resubscribe knows of the positions only.
ResubscribePositions ==
    /\ reader = "backoff"
    /\ reader' = "resubscribing"
    /\ channels' = {PositionChannel}
    /\ healing' = unheard
    /\ UNCHANGED <<conn, registry, senders, link, clientVars, faults, unheard, crossed, unclosed>>

\* _resubscribe collects the channels, then waits for its call.
Resubscribe ==
    /\ reader = "backoff"
    /\ reader' = "resubscribing"
    /\ channels' = {PositionChannel} \cup RegisteredUsers
    /\ healing' = unheard
    /\ UNCHANGED <<conn, registry, senders, link, clientVars, faults, unheard, crossed, unclosed>>

Resubscribed ==
    /\ reader = "resubscribing"
    /\ Subscribe(channels)
    /\ reader' = "reading" /\ channels' = {}
    /\ unheard' = unheard \ healing /\ healing' = {}
    /\ UNCHANGED <<conn, registry, senders, faults, crossed, unclosed>>

ResubscribeFails ==
    /\ Fault
    /\ reader = "resubscribing"
    /\ reader' = "reading" /\ channels' = {} /\ healing' = {}
    /\ UNCHANGED <<conn, registry, senders, link, clientVars, unheard, crossed, unclosed>>

\* close_subscriber at shutdown; the server has ended the endpoints.
Stop ==
    /\ reader # "stopped"
    /\ \A c \in Connections : conn[c] \in {"absent", "gone"}
    /\ reader' = "stopped" /\ channels' = {}
    /\ link' = "down" /\ subs' = {} /\ healing' = {}
    /\ UNCHANGED <<conn, registry, senders, known, faults, unheard, crossed, unclosed>>

Next ==
    \/ \E c \in Connections :
          \/ Attach(c) \/ Subscribed(c) \/ SubscribeFails(c)
          \/ Detach(c) \/ Unsubscribed(c) \/ UnsubscribeFails(c)
    \/ LinkDrops \/ Reconnect \/ ReadFails
    \/ Resubscribe \/ Resubscribed \/ ResubscribeFails \/ Stop

Spec == Init /\ [][Next]_vars

\* The event loop runs the waiting calls and the reader; Redis, which fails a
\* bounded number of times, comes back.  Clients need not do anything.
FairSpec ==
    /\ Spec
    /\ \A c \in Connections : WF_vars(Subscribed(c)) /\ WF_vars(Unsubscribed(c))
    /\ WF_vars(Reconnect) /\ WF_vars(Resubscribe) /\ WF_vars(Resubscribed)

-----------------------------------------------------------------------------
TypeOK ==
    /\ conn \in [Connections -> {"absent", "attaching", "open", "detaching", "gone"}]
    /\ registry \subseteq senders /\ senders \subseteq Connections
    /\ link \in {"up", "down"}
    /\ subs \subseteq known /\ known \subseteq Users \cup {PositionChannel}
    /\ reader \in {"reading", "backoff", "resubscribing", "stopped"}
    /\ channels \subseteq Users \cup {PositionChannel}
    /\ faults \in 0..MaxFaults
    /\ healing \subseteq unheard /\ unheard \subseteq Users
    /\ crossed \subseteq Users /\ unclosed \subseteq Connections

AtRest == link = "up" /\ reader = "reading" /\ \A c \in Connections : conn[c] \notin {"attaching", "detaching"}

\* Once nothing is under way, Redis delivers the alerts of every user with a
\* registered connection: sessions that come and go while the connection to
\* Redis fails and is restored do not unsubscribe one another.  Excepted are
\* users whose subscribe raised and who have not been resubscribed since, and
\* those whose subscribe and unsubscribe waited for a connection together.
SubscriptionsCoverRegistry ==
    AtRest => RegisteredUsers \cup {PositionChannel} \subseteq subs \cup unheard \cup crossed

\* A sender task outlives its connection's registration only while detach
\* waits for Redis, or after that call raised.
SendersEnd ==
    \A c \in senders \ registry : conn[c] = "detaching" \/ c \in unclosed

\* README.md: "Resubscribes with backoff if Redis drops it".  A registered
\* user is heard again, unless his connections leave or the process stops first.
AlertsResume ==
    \A u \in Users :
        (u \in RegisteredUsers) ~>
            \/ reader = "reading" /\ link = "up" /\ u \in subs
            \/ u \in unheard \cup crossed \/ u \notin RegisteredUsers \/ reader = "stopped"

\* README.md: "Subscribes to `alerts:{user_id}` on a user's first connection,
\* unsubscribes when the last one leaves": once nothing is under way, Redis
\* delivers to every open connection the alerts of its user.
OpenConnectionsHear ==
    AtRest => \A c \in Connections : conn[c] = "open" => UserOf[c] \in subs
=============================================================================
