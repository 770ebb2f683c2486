----------------------------- MODULE Supervisor -----------------------------
(***************************************************************************)
(* The supervisor of a process's background tasks: the monitor that        *)
(* restarts a task that ended or stalled, and stop, which may come while a *)
(* restart is under way.                                                   *)
(*                                                                         *)
(* A coroutine runs until it suspends: one action is what happens between  *)
(* two suspensions.  A cancelled task is not gone at once: an ingest       *)
(* worker drains first (IngestWorker.run).                                 *)
(***************************************************************************)
EXTENDS Integers, FiniteSets

CONSTANTS
    NumSpecs,       \* specs are 1..NumSpecs, in the order of _specs
    Beating         \* the specs with a heartbeat: the ingest workers

ASSUME NumSpecsAssumption == NumSpecs \in Nat
ASSUME BeatingAssumption == Beating \subseteq 1..NumSpecs

Specs == 1..NumSpecs

VARIABLES
    task,           \* task[s]: _tasks[s], "absent" or where that task is
    popped,         \* popped[s]: the task _restart took from _tasks and cancelled
    stale,          \* stale[s]: no heartbeat for TASK_STALL_TIMEOUT_S
    monitor,        \* where _monitor_loop is
    at,             \* the spec it is restarting
    cancelled,      \* stop has cancelled the monitor
    stopping        \* where stop is: "no", "monitor", "tasks" or "done"

vars == <<task, popped, stale, monitor, at, cancelled, stopping>>

\* As add has left it.
Init ==
    /\ task = [s \in Specs |-> "absent"]
    /\ popped = [s \in Specs |-> "none"]
    /\ stale = [s \in Specs |-> FALSE]
    /\ monitor = "none" /\ at = 0
    /\ cancelled = FALSE /\ stopping = "no"

-----------------------------------------------------------------------------
\* Supervisor.start spawns every spec and then the monitor.
Start ==
    /\ monitor = "none"
    /\ task' = [s \in Specs |-> "running"]
    /\ monitor' = "sleep"
    /\ UNCHANGED <<popped, stale, at, cancelled, stopping>>

\* A task returns or raises.
TaskEnds(s) ==
    /\ task[s] = "running"
    /\ task' = [task EXCEPT ![s] = "ended"]
    /\ UNCHANGED <<popped, stale, monitor, at, cancelled, stopping>>

\* A worker is stuck in one step.
TaskStalls(s) ==
    /\ s \in Beating /\ task[s] = "running" /\ ~stale[s]
    /\ stale' = [stale EXCEPT ![s] = TRUE]
    /\ UNCHANGED <<task, popped, monitor, at, cancelled, stopping>>

\* It finishes the step after all.
TaskBeats(s) ==
    /\ task[s] = "running" /\ stale[s]
    /\ stale' = [stale EXCEPT ![s] = FALSE]
    /\ UNCHANGED <<task, popped, monitor, at, cancelled, stopping>>

\* A cancelled task has drained, or failed to, and ends.
CancelledEnds(s) ==
    /\ \/ popped[s] = "stopping" /\ popped' = [popped EXCEPT ![s] = "none"] /\ UNCHANGED task
       \/ task[s] = "stopping" /\ task' = [task EXCEPT ![s] = "ended"] /\ UNCHANGED popped
    /\ UNCHANGED <<stale, monitor, at, cancelled, stopping>>

-----------------------------------------------------------------------------
\* Mutant: the heartbeat is not looked at.
EndedOnly(s) == task[s] \in {"absent", "ended"}

\* _check restarts the task of s: missing, exited or stalled.
Sick(s) == task[s] \in {"absent", "ended"} \/ stale[s]

\* The rest of a round, from spec i: the specs that are well are passed over
\* without suspending, and the first sick one is popped and, if it still runs,
\* cancelled.
Examine(i) ==
    \/ /\ \A s \in i..NumSpecs : ~Sick(s)
       /\ monitor' = "sleep" /\ at' = 0
       /\ UNCHANGED <<popped, stale>>
    \/ \E s \in i..NumSpecs :
          /\ Sick(s) /\ \A r \in i..s - 1 : ~Sick(r)
          /\ at' = s
          /\ stale' = [stale EXCEPT ![s] = FALSE]
          /\ \/ /\ task[s] = "running"
                /\ popped' = [popped EXCEPT ![s] = "stopping"]
                /\ monitor' = "reap"
             \/ /\ task[s] # "running"
                /\ monitor' = "delay"
                /\ UNCHANGED popped

\* Mutant: every sick spec is popped, one is restarted.
PopSick == task' = [s \in Specs |-> IF Sick(s) THEN "absent" ELSE task[s]]

\* _tasks after that round.
Pop == task' = [s \in Specs |-> IF s = at' THEN "absent" ELSE task[s]]

\* SUPERVISOR_CHECK_INTERVAL_S pass.
Wake ==
    /\ monitor = "sleep" /\ ~cancelled
    /\ Examine(1)
    /\ Pop
    /\ UNCHANGED <<cancelled, stopping>>

\* Mutant: a stalled task is cancelled and not waited for.
NotReaped ==
    /\ monitor = "reap" /\ ~cancelled
    /\ monitor' = "delay"
    /\ UNCHANGED <<task, popped, stale, at, cancelled, stopping>>

\* The cancelled task has ended: the restart is noted and delayed.
Reaped ==
    /\ monitor = "reap" /\ ~cancelled
    /\ popped[at] = "none"
    /\ monitor' = "delay"
    /\ UNCHANGED <<task, popped, stale, at, cancelled, stopping>>

\* SUPERVISOR_RESTART_DELAY_S later: spawn, and go on with the round.
Spawn ==
    /\ monitor = "delay" /\ ~cancelled
    /\ Examine(at + 1)
    /\ task' = [s \in Specs |-> IF s = at THEN "running" ELSE IF s = at' THEN "absent" ELSE task[s]]
    /\ UNCHANGED <<cancelled, stopping>>

-----------------------------------------------------------------------------
\* Supervisor.stop: cancel the monitor and wait for it.
Stop ==
    /\ stopping = "no" /\ monitor # "none"
    /\ cancelled' = TRUE
    /\ stopping' = "monitor"
    /\ UNCHANGED <<task, popped, stale, monitor, at>>

\* The monitor ends where it is suspended: a cancelled gather cancels the
\* popped task a second time and still waits for it.
MonitorEnds ==
    /\ cancelled
    /\ monitor \in {"sleep", "delay"} \/ (monitor = "reap" /\ popped[at] = "none")
    /\ monitor' = "ended"
    /\ UNCHANGED <<task, popped, stale, at, cancelled, stopping>>

CancelAll == task' = [s \in Specs |-> IF task[s] = "running" THEN "stopping" ELSE task[s]]

\* Mutant: the monitor is cancelled and not waited for.
CancelTasksAtOnce ==
    /\ stopping = "monitor"
    /\ CancelAll
    /\ stopping' = "tasks"
    /\ UNCHANGED <<popped, stale, monitor, at, cancelled>>

\* Mutant: the tasks are waited for and not cancelled.
CancelNoTasks ==
    /\ stopping = "monitor" /\ monitor = "ended"
    /\ stopping' = "tasks"
    /\ UNCHANGED <<task, popped, stale, monitor, at, cancelled>>

\* Then cancel every task left in _tasks.
CancelTasks ==
    /\ stopping = "monitor" /\ monitor = "ended"
    /\ CancelAll
    /\ stopping' = "tasks"
    /\ UNCHANGED <<popped, stale, monitor, at, cancelled>>

\* All have ended: clear _tasks.
StopReturns ==
    /\ stopping = "tasks"
    /\ \A s \in Specs : task[s] \in {"absent", "ended"}
    /\ task' = [s \in Specs |-> "absent"]
    /\ stopping' = "done"
    /\ UNCHANGED <<popped, stale, monitor, at, cancelled>>

\* The steps of the event loop while lifespan awaits start, stop or nothing.
Runs ==
    \/ \E s \in Specs : TaskEnds(s) \/ TaskStalls(s) \/ TaskBeats(s) \/ CancelledEnds(s)
    \/ Wake \/ Reaped \/ Spawn
    \/ MonitorEnds \/ CancelTasks \/ StopReturns

Next == Start \/ Runs \/ Stop

Spec == Init /\ [][Next]_vars

\* The event loop runs the monitor and stop, timers fire, and a cancelled task
\* ends: a drain is bounded by INGEST_DRAIN_TIMEOUT_S.  Nothing makes a task end,
\* stall or recover.
Fairness ==
    /\ \A s \in Specs : WF_vars(CancelledEnds(s))
    /\ WF_vars(Wake) /\ WF_vars(Reaped) /\ WF_vars(Spawn)
    /\ WF_vars(MonitorEnds) /\ WF_vars(CancelTasks) /\ WF_vars(StopReturns)

-----------------------------------------------------------------------------
\* A spec is missing from _tasks only before start, after stop, and while the
\* monitor restarts it.
TypeOK ==
    /\ task \in [Specs -> {"absent", "running", "stopping", "ended"}]
    /\ \A s \in Specs : task[s] = "absent" => s = at \/ stopping = "done" \/ monitor = "none"
    /\ popped \in [Specs -> {"none", "stopping"}]
    /\ stale \in [Specs -> BOOLEAN]
    /\ monitor \in {"none", "sleep", "reap", "delay", "ended"}
    /\ at \in 0..NumSpecs
    /\ cancelled \in BOOLEAN
    /\ stopping \in {"no", "monitor", "tasks", "done"}

\* Never two tasks of one spec: two workers with one consumer name would take
\* each other's pending entries.  A stalled task is gone before its successor
\* starts, whatever it does when cancelled.
OneTaskPerSpec == \A s \in Specs : ~(task[s] \in {"running", "stopping"} /\ popped[s] = "stopping")

\* README.md: "Restarts any task that exits, crashes, or misses its heartbeat":
\* it runs again, beating, unless the process stops.
SickTasksRestart ==
    \A s \in Specs :
        (monitor # "none" /\ (task[s] # "running" \/ stale[s]))
            ~> (task[s] = "running" /\ ~stale[s]) \/ stopping # "no"
=============================================================================
