----------------------------- MODULE Positions ------------------------------
(***************************************************************************)
(* The live map: each ingest worker keeps the last position it has flushed *)
(* for every device and publishes that snapshot once a second.             *)
(*                                                                         *)
(* As in module Alerting the write path is reduced to what matters here:   *)
(* new entries are handed out in order, a pending one may be handed out    *)
(* again while, or after, another worker works on it.  An entry is one     *)
(* ping and its number is its place in the stream.  Each worker is the     *)
(* worker of a process of its own.                                         *)
(***************************************************************************)
EXTENDS Integers, FiniteSets

CONSTANTS
    Workers,        \* ingest workers
    Devices,        \* device ids
    NumPings,       \* bound: stream entries
    Device,         \* Device[e]: the device of entry e
    ReadCount,      \* READ_COUNT
    MaxReclaims,    \* bound: batches handed out a second time
    MaxFaults       \* bound: failed calls, cancellations and crashes

Entry == 1..NumPings

ASSUME BoundsAssumption ==
    /\ NumPings \in Nat /\ ReadCount \in Nat \ {0}
    /\ MaxReclaims \in Nat /\ MaxFaults \in Nat
ASSUME DeviceAssumption == Device \in [Entry -> Devices]

VARIABLES
    nextNew,        \* the oldest entry not yet delivered
    pending,        \* entries delivered and not acknowledged
    rows,           \* entries whose pings are committed
    wpc,            \* wpc[w]: where worker w is
    resume,         \* resume[w]: where it goes on after the flush it is in
    batch,          \* batch[w]: the entries of its flush
    positions,      \* positions[w][d]: the entry _positions holds of d, or 0
    sending,        \* sending[w]: the snapshot it is publishing
    shown,          \* shown[d]: what the channel last said of d, or 0
    reclaims, faults,
    \* History, read by no action:
    owed,           \* owed[w][d]: last flushed by w, not shown nor given up to a fault
    lastBy,         \* lastBy[d]: the worker that showed d last, as a set
    everShown,      \* entries ever shown
    redelivered     \* entries handed out more than once

streamVars == <<nextNew, pending>>
flushVars == <<resume, batch>>
mapVars == <<shown, lastBy, everShown>>
vars == <<streamVars, rows, wpc, flushVars, positions, sending, mapVars,
          reclaims, faults, owed, redelivered>>

Nowhere == [d \in Devices |-> 0]

Init ==
    /\ nextNew = 1 /\ pending = {} /\ rows = {}
    /\ wpc = [w \in Workers |-> "top"]
    /\ resume = [w \in Workers |-> "top"]
    /\ batch = [w \in Workers |-> {}]
    /\ positions = [w \in Workers |-> Nowhere]
    /\ sending = [w \in Workers |-> Nowhere]
    /\ shown = Nowhere
    /\ reclaims = 0 /\ faults = 0
    /\ owed = [w \in Workers |-> Nowhere]
    /\ lastBy = [d \in Devices |-> {}]
    /\ everShown = {} /\ redelivered = {}

-----------------------------------------------------------------------------
Goto(w, pc) == wpc' = [wpc EXCEPT ![w] = pc]

Fault == faults < MaxFaults /\ faults' = faults + 1

StartFlush(w, S, pc) ==
    /\ Goto(w, "flush")
    /\ resume' = [resume EXCEPT ![w] = pc]
    /\ batch' = [batch EXCEPT ![w] = S]

\* The flush is over; the worker goes to pc.
Leave(w, pc) ==
    /\ Goto(w, pc)
    /\ resume' = [resume EXCEPT ![w] = "top"]
    /\ batch' = [batch EXCEPT ![w] = {}]

Draining(w) == wpc[w] = "drain" \/ resume[w] = "drain"

\* Where an exception leaves a worker: _step goes round, _drain gives up.
AfterError(w) == IF Draining(w) THEN "stopped" ELSE "top"

\* The last ping of d in a batch, the one that stays in a dict keyed by device.
LastOf(S, d) ==
    LET mine == {e \in S : Device[e] = d}
    IN  IF mine = {} THEN 0 ELSE CHOOSE e \in mine : \A x \in mine : x <= e

\* Mutant: _positions is replaced, not updated.
Replaced(f, S) == [d \in Devices |-> LastOf(S, d)]
\* f.update({ping.device_id: ping for ping in pings}).
Updated(f, S) == [d \in Devices |-> IF LastOf(S, d) = 0 THEN f[d] ELSE LastOf(S, d)]

\* The snapshot f is lost to a fault, all but what newer positions replaced.
GiveUp(w, f) ==
    owed' = [owed EXCEPT ![w] = [d \in Devices |-> IF owed[w][d] = f[d] THEN 0 ELSE owed[w][d]]]

-----------------------------------------------------------------------------
HandOutNew(w, pc) ==
    /\ \E newest \in nextNew..(nextNew + ReadCount - 1) \cap Entry :
          /\ StartFlush(w, nextNew..newest, pc)
          /\ pending' = pending \cup (nextNew..newest)
          /\ nextNew' = newest + 1
    /\ UNCHANGED <<rows, positions, sending, mapVars, reclaims, faults, owed, redelivered>>

HandOutAgain(w, pc) ==
    /\ reclaims < MaxReclaims
    /\ reclaims' = reclaims + 1
    /\ \E S \in SUBSET pending :
          /\ S # {} /\ Cardinality(S) <= ReadCount
          /\ StartFlush(w, S, pc)
          /\ redelivered' = redelivered \cup S
    /\ UNCHANGED <<streamVars, rows, positions, sending, mapVars, faults, owed>>

\* The claim ticker is due, and there is something stale.
Claim(w) == wpc[w] = "top" /\ HandOutAgain(w, "read")

Read(w) == wpc[w] \in {"top", "read"} /\ HandOutNew(w, "broadcast")

\* Mutant: only a loop that has read something broadcasts.
IdleLoop(w) ==
    /\ wpc[w] \in {"top", "read"}
    /\ Goto(w, "top")
    /\ UNCHANGED <<streamVars, rows, flushVars, positions, sending, mapVars, reclaims, faults, owed, redelivered>>

\* BLOCK_MS pass without a new entry.
ReadNothing(w) ==
    /\ wpc[w] \in {"top", "read"}
    /\ Goto(w, "broadcast")
    /\ UNCHANGED <<streamVars, rows, flushVars, positions, sending, mapVars, reclaims, faults, owed, redelivered>>

\* XREADGROUP, a claim or the reconcile raises: no broadcast in this loop.
ReadFails(w) ==
    /\ Fault
    /\ wpc[w] \in {"top", "read"}
    /\ Goto(w, "top")
    /\ UNCHANGED <<streamVars, rows, flushVars, positions, sending, mapVars, reclaims, owed, redelivered>>

\* The transaction commits and the positions of the batch are remembered.
Commit(w) ==
    /\ wpc[w] = "flush"
    /\ rows' = rows \cup batch[w]
    /\ positions' = [positions EXCEPT ![w] = Updated(positions[w], batch[w])]
    /\ owed' = [owed EXCEPT ![w] = [d \in Devices |-> IF LastOf(batch[w], d) = 0 THEN owed[w][d]
                                                                                 ELSE LastOf(batch[w], d)]]
    /\ Goto(w, "ack")
    /\ UNCHANGED <<streamVars, flushVars, sending, mapVars, reclaims, faults, redelivered>>

\* Mutant: the positions are remembered before the transaction.
FailsAfterUpdate(w) ==
    /\ Fault
    /\ wpc[w] = "flush"
    /\ positions' = [positions EXCEPT ![w] = Updated(positions[w], batch[w])]
    /\ Leave(w, IF resume[w] = "drain" THEN "stopped" ELSE resume[w])
    /\ UNCHANGED <<streamVars, rows, sending, mapVars, reclaims, owed, redelivered>>

\* The transaction fails: _flush returns False, which skips no broadcast.
FlushFails(w) ==
    /\ Fault
    /\ wpc[w] = "flush"
    /\ Leave(w, IF resume[w] = "drain" THEN "stopped" ELSE resume[w])
    /\ UNCHANGED <<streamVars, rows, positions, sending, mapVars, reclaims, owed, redelivered>>

\* The same, with the COMMIT executed.
CommitLost(w) ==
    /\ Fault
    /\ wpc[w] = "flush"
    /\ rows' = rows \cup batch[w]
    /\ Leave(w, IF resume[w] = "drain" THEN "stopped" ELSE resume[w])
    /\ UNCHANGED <<streamVars, positions, sending, mapVars, reclaims, owed, redelivered>>

Ack(w) ==
    /\ wpc[w] = "ack"
    /\ pending' = pending \ batch[w]
    /\ Leave(w, resume[w])
    /\ UNCHANGED <<nextNew, rows, positions, sending, mapVars, reclaims, faults, owed, redelivered>>

\* XACK raises; the positions stay remembered.
AckFails(w) ==
    /\ Fault
    /\ wpc[w] = "ack"
    /\ Leave(w, AfterError(w))
    /\ UNCHANGED <<streamVars, rows, positions, sending, mapVars, reclaims, owed, redelivered>>

-----------------------------------------------------------------------------
\* _broadcast_positions with nothing to say, or before its ticker is due.
NotDue(w) ==
    /\ wpc[w] = "broadcast"
    /\ Goto(w, "top")
    /\ UNCHANGED <<streamVars, rows, flushVars, positions, sending, mapVars, reclaims, faults, owed, redelivered>>

\* Mutant: the snapshot is not cleared.
KeepSnapshot(w) ==
    /\ wpc[w] = "broadcast"
    /\ positions[w] # Nowhere
    /\ sending' = [sending EXCEPT ![w] = positions[w]]
    /\ Goto(w, "publish")
    /\ UNCHANGED <<streamVars, rows, flushVars, positions, mapVars, reclaims, faults, owed, redelivered>>

\* Due: the snapshot is copied and cleared, then comes the await of PUBLISH.
Broadcast(w) ==
    /\ wpc[w] = "broadcast"
    /\ positions[w] # Nowhere
    /\ sending' = [sending EXCEPT ![w] = positions[w]]
    /\ positions' = [positions EXCEPT ![w] = Nowhere]
    /\ Goto(w, "publish")
    /\ UNCHANGED <<streamVars, rows, flushVars, mapVars, reclaims, faults, owed, redelivered>>

\* Redis fans out the snapshot, in one message; so it does if only the reply
\* is lost, when the worker logs an error and goes on in the same way.
Publish(w) ==
    /\ wpc[w] = "publish"
    /\ LET said == {d \in Devices : sending[w][d] # 0}
       IN  /\ shown' = [d \in Devices |-> IF d \in said THEN sending[w][d] ELSE shown[d]]
           /\ lastBy' = [d \in Devices |-> IF d \in said THEN {w} ELSE lastBy[d]]
           /\ everShown' = everShown \cup {sending[w][d] : d \in said}
    /\ GiveUp(w, sending[w])
    /\ sending' = [sending EXCEPT ![w] = Nowhere]
    /\ Goto(w, "top")
    /\ UNCHANGED <<streamVars, rows, flushVars, positions, reclaims, faults, redelivered>>

\* PUBLISH raises: logged, and the snapshot is gone.
PublishFails(w) ==
    /\ Fault
    /\ wpc[w] = "publish"
    /\ GiveUp(w, sending[w])
    /\ sending' = [sending EXCEPT ![w] = Nowhere]
    /\ Goto(w, "top")
    /\ UNCHANGED <<streamVars, rows, flushVars, positions, mapVars, reclaims, redelivered>>

-----------------------------------------------------------------------------
\* The supervisor cancels the worker, wherever it is; it drains.
Cancel(w) ==
    /\ Fault
    /\ wpc[w] # "stopped" /\ ~Draining(w)
    /\ GiveUp(w, sending[w])
    /\ sending' = [sending EXCEPT ![w] = Nowhere]
    /\ Leave(w, "drain")
    /\ UNCHANGED <<streamVars, rows, positions, mapVars, reclaims, redelivered>>

\* Its own pending entries, then new ones: flushed, and not broadcast.
DrainPending(w) == wpc[w] = "drain" /\ HandOutAgain(w, "drain")
DrainNew(w) == wpc[w] = "drain" /\ HandOutNew(w, "drain")

\* Nothing is left, or the drain is given up.
DrainEnds(w) ==
    /\ wpc[w] = "drain"
    /\ Leave(w, "stopped")
    /\ UNCHANGED <<streamVars, rows, positions, sending, mapVars, reclaims, faults, owed, redelivered>>

\* The process dies, and _positions with it.
Crash(w) ==
    /\ Fault
    /\ positions' = [positions EXCEPT ![w] = Nowhere]
    /\ sending' = [sending EXCEPT ![w] = Nowhere]
    /\ owed' = [owed EXCEPT ![w] = Nowhere]
    /\ Leave(w, "stopped")
    /\ UNCHANGED <<streamVars, rows, mapVars, reclaims, redelivered>>

\* The supervisor calls run again on the same IngestWorker, whose _positions
\* are those its drain has left; or a new process starts.
Restart(w) ==
    /\ wpc[w] = "stopped"
    /\ Goto(w, "top")
    /\ UNCHANGED <<streamVars, rows, flushVars, positions, sending, mapVars, reclaims, faults, owed, redelivered>>

Step(w) ==
    \/ Read(w) \/ ReadNothing(w) \/ Commit(w) \/ Ack(w) \/ NotDue(w)
    \/ Publish(w) \/ DrainNew(w) \/ DrainEnds(w) \/ Restart(w)

Next ==
    \E w \in Workers :
        \/ Claim(w) \/ DrainPending(w) \/ Broadcast(w) \/ Step(w)
        \/ ReadFails(w) \/ FlushFails(w) \/ CommitLost(w) \/ AckFails(w)
        \/ PublishFails(w) \/ Cancel(w) \/ Crash(w)

Spec == Init /\ [][Next]_vars

\* A worker's next step is run; a loop that comes to the broadcast again and
\* again finds its ticker due sooner or later; a stopped worker is restarted.
FairSpec == Spec /\ \A w \in Workers : WF_vars(Step(w)) /\ SF_vars(Broadcast(w))

-----------------------------------------------------------------------------
\* The entry of a device, committed, or 0.
Known == [Devices -> {0} \cup rows]

\* Only positions of committed pings are remembered, sent or shown.
TypeOK ==
    /\ nextNew \in 1..NumPings + 1
    /\ pending \subseteq 1..nextNew - 1 /\ rows \subseteq 1..nextNew - 1
    /\ wpc \in [Workers -> {"top", "read", "flush", "ack", "broadcast", "publish", "drain", "stopped"}]
    /\ resume \in [Workers -> {"top", "read", "broadcast", "drain"}]
    /\ batch \in [Workers -> SUBSET Entry]
    /\ positions \in [Workers -> Known] /\ sending \in [Workers -> Known] /\ shown \in Known
    /\ reclaims \in 0..MaxReclaims /\ faults \in 0..MaxFaults
    /\ owed \in [Workers -> Known] /\ lastBy \in [Devices -> SUBSET Workers]
    /\ everShown \subseteq rows /\ redelivered \subseteq Entry

\* The last position a worker has flushed of a device is in its next snapshot,
\* in the one it is publishing, shown, or lost with a failed publish, a
\* cancelled one or a dead process: claims, failed flushes, batches without
\* that device and drains forget none.
NothingForgotten ==
    \A w \in Workers, d \in Devices :
        owed[w][d] # 0 =>
            owed[w][d] = IF positions[w][d] # 0 THEN positions[w][d] ELSE sending[w][d]

\* The map of a device goes back in time only if a second worker held the
\* older position, which was not shown before, or if the older entry was
\* redelivered: one worker alone shows a device moving forward.
BackOnlyByRace ==
    [][\A d \in Devices :
          shown'[d] < shown[d] =>
              \/ shown'[d] \in redelivered
              \/ lastBy'[d] # lastBy[d] /\ shown'[d] \notin everShown]_vars

\* README.md: "1s position snapshot": what a worker has flushed is shown, also
\* when no further ping arrives and after a restart, unless a fault loses it.
PositionsAreShown ==
    \A w \in Workers, d \in Devices : owed[w][d] # 0 ~> owed[w][d] = 0
=============================================================================
