------------------------------ MODULE Lifespan ------------------------------
(***************************************************************************)
(* One API process from start to stop: lifespan opens the Redis client,    *)
(* the subscriber and its reader task, and the supervisor with its tasks,  *)
(* and closes them in the opposite order.  The supervisor is module        *)
(* Supervisor; the reader is module Realtime's, reduced to its life.       *)
(*                                                                         *)
(* The HTTP server calls lifespan: it serves requests only in between.     *)
(***************************************************************************)
EXTENDS Supervisor

VARIABLES
    phase,          \* the call lifespan is at
    redis,          \* the client of init_redis: "none", "open" or "closed"
    pubsub,         \* the connection of the subscriber, likewise
    engine,         \* the engine of core.db: "open" from import on, or "disposed"
    reader          \* Subscriber._task: "none", "running", "stopping" or "ended"

clients == <<redis, pubsub, engine>>
lifespanVars == <<vars, phase, clients, reader>>

LifespanInit ==
    /\ Init
    /\ phase = "init_redis"
    /\ redis = "none" /\ pubsub = "none" /\ engine = "open"
    /\ reader = "none"

-----------------------------------------------------------------------------
\* from_url, and PING answers.
InitRedis ==
    /\ phase = "init_redis"
    /\ redis' = "open"
    /\ phase' = "ensure_group"
    /\ UNCHANGED <<vars, pubsub, engine, reader>>

EnsureGroup ==
    /\ phase = "ensure_group"
    /\ phase' = "init_subscriber"
    /\ UNCHANGED <<vars, clients, reader>>

\* Subscriber.start: subscribe to the positions, then create the reader task.
\* What follows does not suspend.
Serve ==
    /\ reader' = "running" /\ pubsub' = "open"
    /\ Start
    /\ phase' = "serving"
    /\ UNCHANGED <<redis, engine>>

InitSubscriber == phase = "init_subscriber" /\ Serve

\* One of the awaits of the start raises: nothing is released, and the server
\* exits.
StartFails ==
    /\ phase \in {"init_redis", "ensure_group", "init_subscriber"}
    /\ redis' = "open"
    /\ phase' = "failed"
    /\ UNCHANGED <<vars, pubsub, engine, reader>>

-----------------------------------------------------------------------------
\* The reader catches what a read raises; it ends only if cancelled.
ReaderEnds ==
    /\ reader = "stopping"
    /\ reader' = "ended"
    /\ UNCHANGED <<vars, phase, clients>>

\* The server is told to stop and has ended its requests.
Shutdown ==
    /\ phase = "serving"
    /\ Stop
    /\ phase' = "supervisor.stop"
    /\ UNCHANGED <<clients, reader>>

\* supervisor.stop has returned: close_subscriber cancels the reader.
CancelReader ==
    /\ phase = "supervisor.stop" /\ stopping = "done"
    /\ reader' = "stopping"
    /\ phase' = "close_subscriber"
    /\ UNCHANGED <<vars, clients>>

ClosePubsub ==
    /\ phase = "close_subscriber" /\ reader = "ended"
    /\ pubsub' = "closed"
    /\ phase' = "close_redis"
    /\ UNCHANGED <<vars, redis, engine, reader>>

CloseRedis ==
    /\ phase = "close_redis"
    /\ redis' = "closed"
    /\ phase' = "dispose_engine"
    /\ UNCHANGED <<vars, pubsub, engine, reader>>

DisposeEngine ==
    /\ phase = "dispose_engine"
    /\ engine' = "disposed"
    /\ phase' = "ended"
    /\ UNCHANGED <<vars, redis, pubsub, reader>>

\* One of them raises: the rest of the finally block is skipped.
CloseFails ==
    /\ \/ phase = "close_subscriber" /\ reader = "ended"
       \/ phase \in {"close_redis", "dispose_engine"}
    /\ phase' = "failed"
    /\ UNCHANGED <<vars, clients, reader>>

Closes == CancelReader \/ ClosePubsub \/ CloseRedis \/ DisposeEngine

LifespanNext ==
    \/ InitRedis \/ EnsureGroup \/ InitSubscriber \/ StartFails
    \/ Runs /\ UNCHANGED <<phase, clients, reader>>
    \/ ReaderEnds
    \/ Shutdown
    \/ Closes \/ CloseFails

LifespanSpec == LifespanInit /\ [][LifespanNext]_lifespanVars

\* Besides the supervisor's: the reader ends once cancelled, and lifespan goes
\* on when what it awaits returns.  Nothing makes the server stop.
FairLifespanSpec ==
    /\ LifespanSpec /\ Fairness
    /\ WF_lifespanVars(ReaderEnds) /\ WF_lifespanVars(Closes)

-----------------------------------------------------------------------------
LifespanTypeOK ==
    /\ TypeOK
    /\ phase \in {"init_redis", "ensure_group", "init_subscriber", "serving", "supervisor.stop",
                  "close_subscriber", "close_redis", "dispose_engine", "ended", "failed"}
    /\ {redis, pubsub} \subseteq {"none", "open", "closed"}
    /\ engine \in {"open", "disposed"}
    /\ reader \in {"none", "running", "stopping", "ended"}

\* A background task of the supervisor, in _tasks, taken from it, or the monitor.
TasksRun ==
    \/ \E s \in Specs : task[s] \in {"running", "stopping"} \/ popped[s] = "stopping"
    \/ monitor \in {"sleep", "reap", "delay"}

\* Whatever runs has its clients: nothing works or drains on a Redis client or
\* an engine that is closed, which would silently connect again, and nothing
\* is left running by a start or a stop that failed half way.
ClientsOutliveTasks ==
    /\ TasksRun => redis = "open" /\ engine = "open" /\ phase \in {"serving", "supervisor.stop"}
    /\ reader \in {"running", "stopping"} =>
          redis = "open" /\ pubsub = "open" /\ phase \notin {"ended", "failed"}

\* A shutdown ends, whatever it interrupts.
ShutdownEnds == (phase = "supervisor.stop") ~> (phase \in {"ended", "failed"})
=============================================================================
