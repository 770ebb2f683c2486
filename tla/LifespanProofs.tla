--------------------------- MODULE LifespanProofs ---------------------------
(***************************************************************************)
(* Proofs about the supervisor and the lifespan around it, for any number  *)
(* of tasks, with and without a heartbeat.                                 *)
(***************************************************************************)
EXTENDS Lifespan, TLAPS

-----------------------------------------------------------------------------
(* The inductive invariant.                                                *)

\* A restart under way is of one spec: it is missing from _tasks, and only its
\* task may have been popped and not yet have ended.
RestartInv ==
    /\ \A s \in Specs : popped[s] = "stopping" => monitor = "reap" /\ at = s
    /\ monitor \in {"reap", "delay"} => at \in Specs /\ task[at] = "absent"
    /\ monitor \in {"none", "sleep"} => at = 0
    /\ monitor = "none" => \A s \in Specs : task[s] = "absent"

\* stop goes from the monitor to the tasks: none is spawned once it looks at them.
StopInv ==
    /\ cancelled <=> stopping # "no"
    /\ monitor = "none" => stopping = "no"
    /\ monitor = "ended" => cancelled
    /\ stopping \in {"tasks", "done"} => monitor = "ended"
    /\ stopping = "tasks" => \A s \in Specs : task[s] # "running"
    /\ stopping = "done" => \A s \in Specs : task[s] = "absent"

Starting == {"init_redis", "ensure_group", "init_subscriber"}
Closing == {"close_subscriber", "close_redis", "dispose_engine", "ended"}

\* What runs at each call of lifespan: nothing before the last one of the start,
\* no task once stop has returned, no reader once it is awaited.
PhaseInv ==
    /\ phase \in Starting => monitor = "none" /\ reader = "none" /\ engine = "open"
    /\ phase \in {"ensure_group", "init_subscriber"} => redis = "open"
    /\ phase = "serving" => stopping = "no" /\ reader = "running"
    /\ phase = "supervisor.stop" => stopping # "no" /\ reader = "running"
    /\ phase \in {"serving", "supervisor.stop"} => redis = "open" /\ pubsub = "open" /\ engine = "open"
    /\ phase \in Closing => stopping = "done" /\ reader \in {"stopping", "ended"}
    /\ phase = "close_subscriber" => redis = "open" /\ pubsub = "open"
    /\ phase \in Closing \ {"close_subscriber"} => reader = "ended"
    /\ phase = "failed" => \/ monitor = "none" /\ reader = "none"
                           \/ stopping = "done" /\ reader = "ended"

IInv == LifespanTypeOK /\ RestartInv /\ StopInv /\ PhaseInv

SupervisorInv == TypeOK /\ RestartInv /\ StopInv

-----------------------------------------------------------------------------
(* The supervisor.                                                         *)

\* Examine leaves the monitor asleep, or at a later spec that is sick, with at
\* most that spec's task popped.
LEMMA ExamineEffect ==
  ASSUME SupervisorInv, NEW i \in 1..NumSpecs + 1, Examine(i)
  PROVE  /\ at' \in 0..NumSpecs /\ stale' \in [Specs -> BOOLEAN]
         /\ \/ monitor' = "sleep" /\ at' = 0 /\ popped' = popped
            \/ /\ at' \in i..NumSpecs /\ Sick(at') /\ monitor' = "reap"
               /\ popped' = [popped EXCEPT ![at'] = "stopping"]
            \/ at' \in i..NumSpecs /\ Sick(at') /\ monitor' = "delay" /\ popped' = popped
<1> USE NumSpecsAssumption DEF SupervisorInv, TypeOK, Specs
<1>1. CASE monitor' = "sleep" /\ at' = 0 /\ UNCHANGED <<popped, stale>>
  BY <1>1
<1>2. ASSUME NEW s \in i..NumSpecs, Sick(s), at' = s,
             stale' = [stale EXCEPT ![s] = FALSE],
             \/ popped' = [popped EXCEPT ![s] = "stopping"] /\ monitor' = "reap"
             \/ monitor' = "delay" /\ UNCHANGED popped
      PROVE  /\ at' \in 0..NumSpecs /\ stale' \in [Specs -> BOOLEAN]
             /\ \/ /\ at' \in i..NumSpecs /\ Sick(at') /\ monitor' = "reap"
                   /\ popped' = [popped EXCEPT ![at'] = "stopping"]
                \/ at' \in i..NumSpecs /\ Sick(at') /\ monitor' = "delay" /\ popped' = popped
  BY <1>2
<1> QED BY <1>1, <1>2 DEF Examine

\* The steps of the event loop.
LEMMA RunsStep == SupervisorInv /\ Runs => SupervisorInv'
<1> USE NumSpecsAssumption, BeatingAssumption DEF Specs
<1> SUFFICES ASSUME SupervisorInv, Runs PROVE SupervisorInv'
  OBVIOUS
<1> USE DEF SupervisorInv, TypeOK, RestartInv, StopInv
<1>1. ASSUME NEW s \in Specs, TaskEnds(s) PROVE SupervisorInv'
  BY <1>1 DEF TaskEnds
<1>2. ASSUME NEW s \in Specs, TaskStalls(s) \/ TaskBeats(s) PROVE SupervisorInv'
  <2>1. stale' \in [Specs -> BOOLEAN] /\ UNCHANGED <<task, popped, monitor, at, cancelled, stopping>>
    BY <1>2 DEF TaskStalls, TaskBeats
  <2> QED BY <2>1
<1>3. ASSUME NEW s \in Specs, CancelledEnds(s) PROVE SupervisorInv'
  BY <1>3 DEF CancelledEnds
<1>4. CASE Wake
  <2>1. at = 0 /\ stopping = "no" /\ \A s \in Specs : task[s] # "absent" /\ popped[s] = "none"
    BY <1>4 DEF Wake
  <2> QED BY <1>4, <2>1, ExamineEffect DEF Wake, Pop
<1>5. CASE Reaped
  BY <1>5 DEF Reaped
<1>6. CASE Spawn
  <2>1. at \in Specs /\ stopping = "no" /\ \A s \in Specs : popped[s] = "none"
    BY <1>6 DEF Spawn
  <2>2. \A s \in Specs : task[s] = "absent" => s = at
    BY <1>6, <2>1 DEF Spawn
  <2>3. at' # at /\ at' \in 0..NumSpecs
    BY <1>6, <2>1, ExamineEffect DEF Spawn
  <2> QED BY <1>6, <2>1, <2>2, <2>3, ExamineEffect DEF Spawn
<1>7. CASE MonitorEnds
  BY <1>7 DEF MonitorEnds
<1>8. CASE CancelTasks
  BY <1>8 DEF CancelTasks, CancelAll
<1>9. CASE StopReturns
  BY <1>9 DEF StopReturns
<1> QED BY <1>1, <1>2, <1>3, <1>4, <1>5, <1>6, <1>7, <1>8, <1>9 DEF Runs

\* What Runs leaves alone, for the phases of lifespan.
LEMMA RunsEffect ==
  ASSUME SupervisorInv, Runs
  PROVE  /\ monitor # "none" /\ monitor' # "none"
         /\ (stopping = "no") <=> (stopping' = "no")
         /\ stopping # "done"
<1> USE NumSpecsAssumption DEF Specs, SupervisorInv, TypeOK, RestartInv, StopInv
<1>1. CASE \E s \in Specs : TaskEnds(s) \/ TaskStalls(s) \/ TaskBeats(s) \/ CancelledEnds(s)
  BY <1>1 DEF TaskEnds, TaskStalls, TaskBeats, CancelledEnds
<1>2. CASE Wake \/ Reaped \/ Spawn
  BY <1>2, ExamineEffect DEF Wake, Reaped, Spawn
<1>3. CASE MonitorEnds \/ CancelTasks \/ StopReturns
  BY <1>3 DEF MonitorEnds, CancelTasks, StopReturns
<1> QED BY <1>1, <1>2, <1>3 DEF Runs

LEMMA StartStep == SupervisorInv /\ Start => SupervisorInv'
  BY NumSpecsAssumption DEF Start, SupervisorInv, TypeOK, RestartInv, StopInv, Specs

LEMMA StopStep == SupervisorInv /\ Stop => SupervisorInv'
  BY DEF Stop, SupervisorInv, TypeOK, RestartInv, StopInv

LEMMA SupervisorStutters == SupervisorInv /\ UNCHANGED vars => SupervisorInv'
  BY DEF vars, SupervisorInv, TypeOK, RestartInv, StopInv, Specs

-----------------------------------------------------------------------------
(* The lifespan.                                                           *)

LEMMA InitIInv == LifespanInit => IInv
<1> SUFFICES ASSUME LifespanInit PROVE IInv
  OBVIOUS
<1> USE NumSpecsAssumption DEF LifespanInit, Init
<1>1. TypeOK
  <2>1. task \in [Specs -> {"absent", "running", "stopping", "ended"}]
    OBVIOUS
  <2>2. popped \in [Specs -> {"none", "stopping"}] /\ stale \in [Specs -> BOOLEAN]
    OBVIOUS
  <2>3. at \in 0..NumSpecs OBVIOUS
  <2>4. cancelled \in BOOLEAN OBVIOUS
  <2> QED BY <2>1, <2>2, <2>3, <2>4 DEF TypeOK
<1>2. LifespanTypeOK BY <1>1 DEF LifespanTypeOK
<1>3. RestartInv BY DEF RestartInv
<1>4. StopInv BY DEF StopInv
<1>5. PhaseInv BY DEF PhaseInv, Starting, Closing
<1> QED BY <1>2, <1>3, <1>4, <1>5 DEF IInv

\* What concerns lifespan alone.
LifespanOnly == LifespanTypeOK /\ PhaseInv

LEMMA IInvStep == IInv /\ [LifespanNext]_lifespanVars => IInv'
<1> SUFFICES ASSUME IInv, [LifespanNext]_lifespanVars PROVE IInv'
  OBVIOUS
<1>0. SupervisorInv BY DEF IInv, LifespanTypeOK, SupervisorInv
<1>a. SupervisorInv' /\ LifespanOnly' => IInv'
  BY DEF IInv, LifespanTypeOK, SupervisorInv, LifespanOnly
<1> USE DEF LifespanOnly, LifespanTypeOK, PhaseInv, Starting, Closing, clients
<1>b. LifespanOnly /\ TypeOK BY DEF IInv
<1>1. ASSUME UNCHANGED vars, SupervisorInv' => LifespanOnly' PROVE IInv'
  BY <1>0, <1>1, <1>a, SupervisorStutters
<1>2. CASE InitRedis \/ EnsureGroup \/ StartFails
  <2>1. UNCHANGED vars BY <1>2 DEF InitRedis, EnsureGroup, StartFails
  <2>2. monitor' = monitor BY <2>1 DEF vars
  <2>3. SupervisorInv' => LifespanOnly'
    BY <1>b, <1>2, <2>2 DEF InitRedis, EnsureGroup, StartFails, SupervisorInv
  <2> QED BY <1>1, <2>1, <2>3
<1>3. CASE InitSubscriber
  <2>1. SupervisorInv' BY <1>0, <1>3, StartStep DEF InitSubscriber, Serve
  <2>2. stopping' = "no" BY <1>0, <1>3 DEF InitSubscriber, Serve, Start, SupervisorInv, StopInv
  <2>3. LifespanOnly' BY <1>b, <1>3, <2>1, <2>2 DEF InitSubscriber, Serve, SupervisorInv
  <2> QED BY <1>a, <2>1, <2>3
<1>4. CASE Runs /\ UNCHANGED <<phase, clients, reader>>
  <2>1. SupervisorInv' BY <1>0, <1>4, RunsStep
  <2>2. /\ monitor # "none" /\ stopping # "done"
        /\ (stopping = "no") <=> (stopping' = "no")
    BY <1>0, <1>4, RunsEffect
  <2>3. phase \in {"serving", "supervisor.stop"} BY <1>b, <2>2
  <2>4. LifespanOnly' BY <1>b, <1>4, <2>1, <2>2, <2>3 DEF SupervisorInv
  <2> QED BY <1>a, <2>1, <2>4
<1>5. CASE Shutdown
  <2>1. SupervisorInv' BY <1>0, <1>5, StopStep DEF Shutdown
  <2>2. LifespanOnly' BY <1>b, <1>5, <2>1 DEF Shutdown, Stop, SupervisorInv
  <2> QED BY <1>a, <2>1, <2>2
<1>6. CASE ReaderEnds \/ Closes \/ CloseFails
  <2>1. UNCHANGED vars
    BY <1>6 DEF ReaderEnds, Closes, CancelReader, ClosePubsub, CloseRedis, DisposeEngine, CloseFails
  <2>2. monitor' = monitor /\ stopping' = stopping BY <2>1 DEF vars
  <2>3. SupervisorInv' => LifespanOnly'
    <3>1. CASE ReaderEnds BY <1>b, <2>2, <3>1 DEF ReaderEnds, SupervisorInv
    <3>2. CASE Closes
      BY <1>b, <2>2, <3>2 DEF Closes, CancelReader, ClosePubsub, CloseRedis, DisposeEngine, SupervisorInv
    <3>3. CASE CloseFails BY <1>b, <2>2, <3>3 DEF CloseFails, SupervisorInv
    <3> QED BY <1>6, <3>1, <3>2, <3>3
  <2> QED BY <1>1, <2>1, <2>3
<1>7. CASE UNCHANGED lifespanVars
  <2>1. UNCHANGED vars /\ UNCHANGED <<phase, clients, reader>> BY <1>7 DEF lifespanVars
  <2>2. SupervisorInv' => LifespanOnly' BY <1>b, <2>1 DEF vars, SupervisorInv
  <2> QED BY <1>1, <2>1, <2>2
<1> QED BY <1>2, <1>3, <1>4, <1>5, <1>6, <1>7 DEF LifespanNext

LEMMA Invariance == LifespanSpec => []IInv
  BY InitIInv, IInvStep, PTL DEF LifespanSpec

\* Every variable of a process keeps to its type, and a spec is missing from
\* _tasks only before start, after stop, and while it is restarted.
THEOREM TypeCorrect == LifespanSpec => []LifespanTypeOK
<1>1. IInv => LifespanTypeOK BY DEF IInv
<1> QED BY <1>1, Invariance, PTL

\* A spec never has two tasks, however many tasks there are and wherever stop
\* interrupts a restart.
THEOREM OneTask == LifespanSpec => []OneTaskPerSpec
<1>1. IInv => OneTaskPerSpec BY DEF IInv, LifespanTypeOK, TypeOK, RestartInv, OneTaskPerSpec
<1> QED BY <1>1, Invariance, PTL

\* Clients are open as long as any task that uses them runs, however a start or
\* a shutdown fails.
THEOREM ClientsOutlive == LifespanSpec => []ClientsOutliveTasks
<1>1. ASSUME IInv PROVE ClientsOutliveTasks
  <2> USE <1>1 DEF IInv, LifespanTypeOK, PhaseInv, Starting, Closing
  <2>1. TasksRun => monitor # "none" /\ stopping # "done"
    BY DEF TasksRun, TypeOK, RestartInv, StopInv
  <2>2. TasksRun => phase \in {"serving", "supervisor.stop"} BY <2>1
  <2> QED BY <2>2 DEF ClientsOutliveTasks
<1> QED BY <1>1, Invariance, PTL
=============================================================================
