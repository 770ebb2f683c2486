# A TLA+ model of geo-device

This directory specifies the concurrent core of geo-device: what its handlers,
background tasks, Redis and PostgreSQL do to shared state, in every order in
which asyncio, several API processes and failures can interleave them. Line
numbers refer to the Python sources under `src/app`. `PROJECT.json` lists the
components, the TLC runs, the hazards each property is for, and the source
lines behind every definition.

Contents: [the system](#the-system) · [modules](#modules) · [runs](#runs) ·
[what the runs disagree about](#where-the-code-and-its-documents-disagree) ·
[proofs](#proofs) · [limits](#what-is-not-modelled) · [plan](#plan)

## The system

```
device --POST /ingest/batch--> gate -> Redis stream "pings" -> ingest workers --> location_pings --> retention
                               |  pings:pending  ^                 |
                               +-----------------+--- reconcile ---+--> geozones (match) --> inside:{device} (Lua)
                                                                   +--> PUBLISH alerts:{user}, positions
browser <--ws-- connection queue <-- registry <-- subscriber <---------------+
user --POST/PATCH/DELETE /geozones--> geozone service --> geozones
```

| Component | State it keeps | Operations | Interacts with |
|---|---|---|---|
| Ingest endpoint (`domains/devices/service.py`) | none of its own | `save_points`: read the backlog, refuse or publish | stream wrapper |
| Stream wrapper (`pipeline/stream.py`) | in Redis: stream, consumer group with its pending list, counter `pings:pending` | `publish`, `get_backlog`, `get_entry_backlog`, `reconcile_backlog`, `claim_stale`, `read_new`, `ack`, `ensure_group` | endpoint, workers |
| Ingest worker (`pipeline/worker/worker.py`) | heartbeat, backoff, tickers, unsent positions | `run`, `_step`, `_process_once`, `_flush`, `_alert`, `_claim_stale`, `_drain` | stream, database, presence, pub/sub; cancelled by the supervisor |
| Matcher, presence, events (`matcher.py`, `presence.py`, `realtime/events.py`) | in Redis: `inside:{device_id}` sets with a TTL | `match_zones`, the Lua script, `filter_new_entries`, `publish_alerts`, `publish_positions` | called inside a flush |
| Supervisor (`worker/lifecycle.py`) | specs, task table, monitor task | `start`, `_monitor_loop`, `_check`, `_restart`, `stop` | workers, retention; driven by `lifespan` |
| Subscriber and registry (`realtime/subscriber.py`, `registry.py`, `router.py`) | user → connections; channels of one pub/sub connection | `attach`, `detach`, `_run`, `_resubscribe`, `stop` | Redis, connections |
| Connection (`realtime/registry.py`) | bounded queue, sender task, drop count | `start`, `send`, `_discard_oldest`, `_send_queued`, `close` | registry, WebSocket |
| Retention worker (`pipeline/retention.py`) | cutoff and pass count of a purge | `retention_worker`, `purge_expired_pings`, `_delete_batch` | database, other processes |
| Geozone service (`domains/geozones`) | the `geozones` table, with a `bounds` column kept by a trigger (`migrations`) | `create`, `retrieve`, `update`, `delete`, `list` | database, read by the matcher |
| Lifespan (`lifespan.py`, `core/redis_client.py`, `core/db.py`) | the Redis client, the subscriber, the engine | start, shutdown | opens and closes all of the above |
| HTTP layer, configuration, logging, generator, UI | — | declarations, clients | not modelled, see below |

What is hard here, and what "correct" means for each part:

* **Write path.** Redis pipelines are not transactions; the gate is read before
  the publish it admits; entries are redelivered while the first worker still
  holds them; two processes use the same consumer names; a cancelled worker
  drains while its successor, or its twin in another process, reads. Correct:
  no entry inside the retention window of the stream is lost, nothing is
  acknowledged before it is written, duplicates come only from redelivery, the
  backlog overshoots by a bounded amount, and the gate reopens.
* **Alerting.** Presence is recorded before the alert is published, and a batch
  may be processed twice, by two workers at once. Correct: every gain of
  presence becomes one alert, none is about a device that was never there, and
  a parked device does not alert again.
* **Positions.** Every worker keeps a map of its own, cleared before it is
  published; batches come late, twice, or to another worker. Correct: the last
  flushed position of a device is shown unless a fault loses it, and the map
  goes back in time only when two workers or a redelivery explain it.
* **Connection.** A producer evicts from the end of the queue the sender takes
  from. Correct: order kept, every eviction counted, an alert lost only to alerts. What
  waits when a connection closes is not counted.
* **Subscriber.** Sessions come and go across awaits while the pub/sub
  connection fails and is resubscribed. Correct: registered users are heard.
* **Supervisor, lifespan.** `stop` interrupts a restart anywhere, and a start or
  a shutdown may fail half way. Correct: one task per spec, sick tasks run again, no
  task outlives the clients it works with, a shutdown ends.
* **Retention.** Processes delete each other's selected rows. Correct: only
  expired rows go, and all of them do.
* **Geozones.** PATCH and DELETE act on a row retrieved earlier; unique names
  are taken and freed by uncommitted transactions. Correct: owners only,
  concurrent PATCHes merge, `bounds` fits the shape, nothing succeeds after a
  delete, all are answered.

## Modules

| Module | What it is |
|---|---|
| `Ingest` | endpoint, stream, counter, workers: the write path, one action per Redis command, transaction or fault |
| `DeliveryLedger` | abstract specification of the write path: entries are open, then stored; lost only outside the window |
| `IngestProperties` | the properties of `Ingest`, and the refinement mapping to `DeliveryLedger` |
| `IngestProofs` | the theorems about them, and the proof of the refinement |
| `Alerting` | presence and alerts of flushed batches |
| `Positions` | the position snapshots of the workers, and the live map they make |
| `Connection` | one WebSocket connection |
| `Realtime` | registry, subscriber, pub/sub connection |
| `Supervisor` | monitor, restart, stop |
| `Lifespan` | a process from start to shutdown: `Supervisor` composed with the reader task and the clients |
| `Retention` | the purge in several processes |
| `Geozones` | concurrent requests on the geozone table |
| `AlertingProofs`, `PositionsProofs`, `ConnectionProofs`, `RealtimeProofs`, `LifespanProofs`, `RetentionProofs`, `GeozonesProofs` | the theorems about the module of that name; those about `Supervisor` are in `LifespanProofs` |
| `MCIngest`, `MCAlerting`, `MCPositions`, `MCRealtime`, `MCGeozones` | instances: function-valued constants for TLC |

Operators marked `mutant` in a comment are deliberate mistakes of the kind a
change to the code could make, with the parameters of the definition they stand
for. They are used by no action; `PROJECT.json` ("mutants") says which property
notices each one when it takes the definition's place.

### Ingest

A step is what happens between two awaits. `stream.publish` is
`Admit → Xadd* → IncrBy` with `PublishFails` anywhere between; a worker's
`_process_once` is

```
top --Claim--> flush --Commit--> ack --Xack--> decr --DecrBy--> xinfo --XInfo--> get --GetBacklog--> set --SetZero--> read
top --(ticker not due)--> ReadNew/ReadNothing --> flush --Commit--> Xack --> DecrBy --> top
```

with `resume[w]` the place `_flush` returns to. `Cancel` leads to `DrainPending`
and `DrainNew`, `Crash` and the end of a drain to `stopped`, from where
`Restart` (the supervisor or the container) resumes. `ClaimLost`, `ReadLost` and
`CommitLost` are commands whose effect happened and whose answer did not arrive.
Stream entries are numbered in XADD order; a payload is its number of pings;
`owner[e]` is the pending list, `idle` the entries older than `CLAIM_IDLE_MS`,
`redelivered` those with `times_delivered > 1`. `MAXLEN ~` trims *at least
nothing and at most down to the limit*, so `TrimTo` is a choice. XAUTOCLAIM drops
trimmed entries from the pending list, as Redis 7 does. Redis-side effects
(`TrimTo`, `AutoClaim`, `ReadGroup`, `Age`) are external, modelled from the
calls the code makes.

`DeliveryLedger` says the same with no Redis: `Accept`, `Write`, `Forget`.
`IngestProperties!Status` maps an entry to `none`, `open` (in the window's reach
of some worker), `stored` or `lost`.

### Alerting

The write path is reduced to what alerting sees: batches of at most `ReadCount`
entries, and pending entries that may be handed out again. `Sync` is one run of
the Lua script (atomic in Redis), one step per device because the pipeline is
not a transaction, and `ZonesLeft` what the script removes; `Publish` is one user's PUBLISH; `AlertFails` is the `except`
of `_alert`, after which the batch is acknowledged all the same. `flushes`, `stays`,
`told` and `missed` are kept for the properties only.

### Positions

The write path is reduced as in `Alerting`, one entry being one ping; what is added
is where a loop goes next, because not every loop broadcasts: `ReadFails`,
`AckFails` and a drain skip it, a failed flush does not. `Commit` updates
`_positions` after the transaction and before the XACK; `Broadcast` is the
synchronous copy and clear, `Publish` and `PublishFails` the await after it.
`_positions` belongs to the `IngestWorker`, which the supervisor runs again, so
it survives `Restart` but not `Crash`. "Back in time" is in the order of the stream: that is
also the order in which `_flush` picks the last ping of a device, `recorded_at` has no part in
it.

### Connection, Realtime

`DispatchPosition` and `DispatchAlert` are `_dispatch` as one connection sees it;
`Connection.Enqueue` is `send` with its eviction; `Get`, `Sent`, `SendFails` are
the sender task. `Realtime` leaves the queues out and keeps what decides which
alerts reach the process: the registry, the channels Redis delivers (`subs`), the
channels redis-py will restore on a reconnect (`known`), and the reader. A
command is sent before its coroutine suspends while the connection is up; while
it is down, waiting calls finish in any order.

### Supervisor

One action is what the event loop runs between two suspensions. `Wake` runs the
checks up to the first spec that needs a restart, `Reaped` and `Spawn` are the two
awaits of `_restart`. `stop` cancels the monitor at either, then cancels every
task it finds in `_tasks`. A cancelled worker drains before it ends, so a
cancelled task is `stopping` for a while.

`Lifespan` EXTENDS it: its next-state relation is the supervisor's steps (`Runs`)
beside the calls of `lifespan`, of which `Serve` contains `Start` and `Shutdown`
contains `Stop`. An await of the start that raises ends the start and releases
nothing (`StartFails`); one of the `finally` block that raises skips the rest of it
(`CloseFails`). The reader is `Realtime`'s, reduced to its life.

### Retention

A batch is two steps (`Select`, `Delete`): a DELETE works on the rows its
statement saw and skips those that another process has deleted meanwhile. The
clock is in days and may advance between them. The locals of a purge are reset when it
ends; `late` is kept for `PurgeIsComplete` only.

### Geozones

A request is a transaction under READ COMMITTED: `Retrieve`, then one write that
waits for the row (`Locked`), then the unique index (`EntersIndex`, `Conflict`, or a wait
for a transaction that may take or free the name), then `Commit`.
`DeadlockFails` is the database's answer to a cycle of waits, which the handlers
do not catch (500). `Fails` and `CommitLost` are time-outs and broken connections.
The row locks and the index are PostgreSQL's and external; what the code
contributes is the `WHERE` of each statement, the fields of the `SET`, the order of
statements and the answers. `BoundsTrigger` is the trigger of the migrations: it
recomputes the envelope from the row as the statement writes it, which after a wait is
not the row the handler had retrieved. The id sequence starts anywhere beyond the rows found at the
start: deleted rows and refused inserts leave gaps.

## Runs

Every passing run checks its module's type invariant except `ingest_workers`, whose
module has it checked by `ingest_gate`.

| Run | Instance | What it shows |
|---|---|---|
| `ingest_gate` | 2 handlers, 1 worker, 3 entries, window 1, limit 0, 2 faults (243 000 states) | `BacklogBound`, and under fairness `GateReopens` and `EveryEntrySettles` |
| `ingest_workers` | 2 workers of two processes under one name, 1 handler with 2-entry batches, window 2, 3 entries, 1 fault (1.6 M) | `NoLossWithinWindow`, `AckOnlyWritten`, `DuplicatesOnlyFromRedelivery`, `ImplementsLedger` |
| `ingest_stale` | 1 handler, 1 worker, no fault | `StaleCounterIsReset` fails |
| `alerting` | 2 workers, 2 devices, 2 zones of 2 users, 3 pings, one reclaim, one expiry per device, one fault (3.4 M) | `EveryEntryAccountedFor`, `NoFalseAlert`, `ParkedAlertsOnce`, `PresenceIsOfOneBatch` |
| `alerting_lost` | 1 parked device, one fault | `ParkedIsTold` fails |
| `connection` | queue of 3, 7 messages of either kind (42 000) | `InOrder`, `NothingVanishes`, `AlertYieldsOnlyToAlert` |
| `realtime` | 3 sessions of one user and 1 of another, 4 faults (75 000) | `SubscriptionsCoverRegistry`, `SendersEnd`, and under fairness `AlertsResume` |
| `realtime_leak` | the same | `OpenConnectionsHear` fails |
| `positions` | 2 workers of two processes, 2 devices, 3 pings, one reclaim, one fault (87 000) | `NothingForgotten`, `BackOnlyByRace`, and under fairness `PositionsAreShown` |
| `lifespan` | 4 workers and the retention task (7 700) | `OneTaskPerSpec`, `ClientsOutliveTasks`, `SickTasksRestart`, `ShutdownEnds` |
| `geozones` | 2 handlers, 3 requests, 2 users, 4 ids, 2 names, 2 centres, 2 radii, 1 fault (459 000) | `BoundsFollowShape`, `OwnersOnly`, `PatchesMerge`, `NothingAfterDelete`, `EveryRequestAnswered` |
| `retention` | 5 rows of two days, 2 processes, batches of 2, 2 passes, 1 fault (538 000) | `OnlyExpiredRowsGo`, `PurgeIsComplete`, `ExpiredRowsGo` |

**Why these bounds.** Each is the least at which the case the property is about
happens, and a mutant shows that it does. Three entries with a window of one or
two let the stream trim an entry that is undelivered, pending, in a worker's
hands, or written. Two workers are the two parties of every redelivery; a
third would only be a second claimer. Two faults in `ingest_gate` allow a drain to
be aborted after the cancellation that began it. A queue of three holds two
alerts and a position in every arrangement, and seven messages fill it twice.
Three sessions of one user let one leave, one stay and one arrive while a
resubscription is under way. Five rows, batches of two and two passes let a purge
delete a full batch and then a short one under one cutoff, run out of passes with
expired rows left (which takes the fifth row), and find its full batch emptied by the
other process. Rows of day 0 may go from the first day on and rows of day 1 only on the last, so a
purge that began the day before must spare them; later rows would be spared by every purge. The
zones of one device's pings in `alerting` are no subsets of each other, so a mixture of two
batches is the view of neither; each device's key may expire, so that one expiry
could be mistaken for the other's. Three pings let a device report twice with another
in between, in one batch or in two, to one worker or to both; the one fault falls on any
command of either. Two handlers and three requests contain every crossing of
two transactions, with one before or after; longer cycles of waits are not run.
The counters of faults, reclaims, expiries, requests and days bound the state space and
appear as guards under the name of the constant.

**Fairness.** Only what the event loop, timers and the servers behind the code
justify:

* `Ingest`: weak fairness of a handler's or worker's next step (the event loop
  runs ready coroutines and the calls have time-outs); strong fairness of `Claim`,
  because the loop passes the top again and again and the ticker is due every
  10 to 12 s of them; weak fairness of `Restart` (the supervisor's `SickTasksRestart`;
  for a dead process it is an assumption: uvicorn respawns its workers, but
  `compose.yaml` sets no restart policy for the `app` service) and of `Age` (time passes). Devices and faults
  have none.
* `Realtime`: waiting calls, the reader and the reconnect; Redis comes back, as
  faults are bounded. Clients have none.
* `Positions`: weak fairness of a worker's next step, strong fairness of
  `Broadcast`, because a loop that reads nothing comes there every `BLOCK_MS` and the ticker is
  due every second or so.
* `Lifespan`: timers fire, `stop` and the monitor are run, a cancelled task ends
  (`INGEST_DRAIN_TIMEOUT_S` bounds the drain), `lifespan` goes on when a call returns.
  Nothing forces a task to end or to beat, nor the server to stop.
* `Retention`: the sleep ends and statements are answered or fail.
* `Geozones`: a handler's next statement; PostgreSQL grants a free lock and
  detects deadlocks. Requests are bounded, so weak fairness suffices for a lock; PostgreSQL's lock
  queue is what justifies it in general.
* `Connection` and `Alerting` have none: a slow client may stall for ever.

`CHECK_DEADLOCK FALSE` stands where a behaviour legitimately ends: bounded
messages, pings or requests used up, or the process stopped.

## Where the code and its documents disagree

The first three are runs that TLC ends with a counterexample, and entries of "findings".

1. **The counter can go negative for good** (`ingest_stale`, `stream.py:42`, `:54`,
   `:92`). `reconcile_backlog` reads the group, then the counter, then writes
   0; a publish in between is wiped and later subtracted. The same happens when
   a reconcile falls between the XACK and the DECRBY of another worker's `ack`. `get_backlog`
   shows a negative counter as 0, so the reset never sees it, and the gate lets
   that many more pings through from then on. No fault is needed.
2. **A parked device may never be told** (`alerting_lost`, `worker.py:110`). The
   presence script runs before the PUBLISH; an error or crash between the two loses the alert,
   because the set already has the zone when the batch comes again.
   `EveryEntryAccountedFor` shows that this is the only way.
3. **A failed subscribe leaks a registration** (`realtime_leak`, `router.py:14`).
   `attach` is outside the `try`; if the subscribe raises, the connection stays
   registered and a later connection of that user does not subscribe.
4. **The `recorded_at` window is not enforced** (`domains/devices/schemas.py:13`).
   `INGEST_MAX_PING_AGE_S` and `_SKEW_S` are documented and never read. This is read off the
   code; `Retention.Insert` compares `recorded_at` with nothing either. A row from the
   future stays longer than the retention by as much as its date is ahead.
5. **Flapping is counted for nobody** (`lifecycle.py:33-39`, `:51-61`). `README.md:94`
   has the supervisor count restart flapping; nothing reads `flapping`, `healthy` or
   `status`, and a task that only stalls (found after 60 s) cannot restart three times
   within 120 s. Also read off the code.

`BackOnlyByRace` is likewise stated with what the code allows: the live map of a
device may go back in time when two workers hold its positions, or when an entry was
redelivered.

`SubscriptionsCoverRegistry` and `SendersEnd` are stated with the exceptions the
code needs: users whose subscribe raised (3.), users whose subscribe overtook
an unsubscribe while the connection was down, and connections whose unsubscribe
raised, which skips `connection.close()`.

## Proofs

TLAPS proves every safety property that a passing run checks, its invariants and
its action properties, and the refinement of the ledger, for all values of the
constants that the `ASSUME`s allow: any number of workers, handlers, connections,
tasks, devices, rows and faults, any limits.

| Theorem | Statement |
|---|---|
| `IngestProofs!TypeCorrect` | `Spec => []TypeOK` |
| `IngestProofs!NoLoss` | `Spec => []NoLossWithinWindow` |
| `IngestProofs!AckedIsWritten` | `Spec => AckOnlyWritten` |
| `IngestProofs!DuplicatesNeedRedelivery` | `Spec => []DuplicatesOnlyFromRedelivery` |
| `IngestProofs!BacklogBounded` | `Spec => []BacklogBound` |
| `IngestProofs!ImplementsTheLedger` | `Spec => ImplementsLedger` |
| `AlertingProofs!TypeCorrect` | `Spec => []TypeOK` |
| `AlertingProofs!EntriesAccountedFor` | `Spec => []EveryEntryAccountedFor` |
| `AlertingProofs!AlertsAreTrue` | `Spec => []NoFalseAlert` |
| `AlertingProofs!PresenceOfOneBatch` | `Spec => []PresenceIsOfOneBatch` |
| `AlertingProofs!ParkedDevicesAlertOnce` | `Spec => []ParkedAlertsOnce` |
| `PositionsProofs!TypeCorrect` | `Spec => []TypeOK` |
| `PositionsProofs!NothingIsForgotten` | `Spec => []NothingForgotten` |
| `PositionsProofs!BackOnlyByRaces` | `Spec => BackOnlyByRace` |
| `ConnectionProofs!TypeCorrect` | `Spec => []TypeOK` |
| `ConnectionProofs!SentInOrder` | `Spec => []InOrder` |
| `ConnectionProofs!DropsAreCounted` | `Spec => []NothingVanishes` |
| `ConnectionProofs!AlertsGetThrough` | `Spec => []AlertYieldsOnlyToAlert` |
| `RealtimeProofs!TypeCorrect` | `Spec => []TypeOK` |
| `RealtimeProofs!RegisteredUsersHear` | `Spec => []SubscriptionsCoverRegistry` |
| `RealtimeProofs!SendersAreStopped` | `Spec => []SendersEnd` |
| `LifespanProofs!TypeCorrect` | `LifespanSpec => []LifespanTypeOK` |
| `LifespanProofs!OneTask` | `LifespanSpec => []OneTaskPerSpec` |
| `LifespanProofs!ClientsOutlive` | `LifespanSpec => []ClientsOutliveTasks` |
| `RetentionProofs!TypeCorrect` | `Spec => []TypeOK` |
| `RetentionProofs!OnlyExpiredRows` | `Spec => OnlyExpiredRowsGo` |
| `RetentionProofs!PurgeLeavesNoExpiredRow` | `Spec => PurgeIsComplete` |
| `GeozonesProofs!TypeCorrect` | `Spec => []TypeOK` |
| `GeozonesProofs!BoundsFit` | `Spec => []BoundsFollowShape` |
| `GeozonesProofs!OnlyOwnersWrite` | `Spec => OwnersOnly` |
| `GeozonesProofs!ConcurrentPatchesMerge` | `Spec => PatchesMerge` |
| `GeozonesProofs!DeletedIsGone` | `Spec => NothingAfterDelete` |

Each module defines its inductive invariant `IInv` at its head and proves
`Init => IInv` and `IInv /\ [Next]_vars => IInv'`; an invariant follows from `IInv`,
an action property from `IInv` and one step. TLC checked every `IInv` on the
instances of the runs before it was proved. What each adds to its properties:

**The write path** (`IngestProofs`). `NoLossWithinWindow` says nothing of what
workers hold in memory. `IInv` adds four facts.

* `Trimmed`: the stream keeps at least its `StreamMaxLen` newest entries.
* `BatchSafe`: a worker about to acknowledge holds only entries that are
  written or trimmed. This is why XACK cannot lose anything, whoever owns the
  entries by then.
* `DeliveredOnly`: pending entries, batches and rows are of delivered entries.
* `Accounted`: a delivered entry still in the stream is written or pending.

Only XACK and XAUTOCLAIM take an entry off the pending list; the former is covered by
`BatchSafe`, the latter drops only trimmed entries. `AckOnlyWritten` follows from the same
invariant, step by step. For duplicates, `DInv` adds that an entry delivered
once is held by at most one worker and is not written while that worker
is still in its flush: a second commit then needs a second delivery. For the backlog,
`BInv` carries a headroom: the counter, plus one batch for each handler
between its gate and its INCRBY, stays under the limit by what the handlers still idle
may add; DECRBY and the reset only lower it. The refinement maps each action
to `Accept` (XADD), `Write` (commit), `Forget` (an abandoned batch outside the window) or
a stutter, from `IInv`.

**Alerting.** `PhaseInv`: a worker has entries in hand, or scripts still to run, only
after its batch is committed, so presence takes what it remembers from one of `flushes`. `UnsyncedInv`:
the scripts still to run are of devices of the batch from which nothing has been entered;
each gain is therefore counted in one hand once, which is what keeps the sum of
`EveryEntryAccountedFor`. `EnteredInv`: what is in hand has a committed ping inside the zone,
the half of `NoFalseAlert` before its publish. `StaysInv`: presence gains a zone that no ping
leaves once, plus once for each expiry of that device's key, and one fewer while it does not
contain it; with the sum above `ParkedAlertsOnce` follows.

**Positions.** `OneSnapshot`: a position is kept or being published, never both.
`OneHolder`: an entry that was not redelivered is with one worker, in its flush or in
one of its snapshots. `FlushIsNew` and `SnapshotIsNew`: such an entry is not written before its
commit nor shown before its publish, and is newer than what that worker has shown of the device
if nobody else has shown it since. `BackOnlyByRace` is what they leave when a publish is
older than the map.

**Connection.** `Spread`: queued messages are at least as far apart in number as in place. With a
full queue the evicted message is therefore `QueueSize` older than the new one,
which is what `AlertYieldsOnlyToAlert` counts. `AbandonedAtEnd`: a sender that works has given up
nothing, so the four places a message can be in stay in order. `Counted`: a message in none
of them was counted as dropped. `NothingVanishes` adds how many can wait, which is what a client may
miss beyond the number that `close` logs.

**Realtime.** `Served(u)`: the client remembers the channel of `u`, or a session of `u` waits in
`attach`, or two calls of his have crossed. `EveryUserServed` says so of every registered user but
those in `unheard`; `LinkInv` makes what the client remembers what Redis delivers while the
link is up; `HealingHeals` covers users of whom a resubscription under way will restore
the channel; `CrossedSeen` sees that a registration during a waiting unsubscribe is in
`crossed`. At rest no one waits, and `SubscriptionsCoverRegistry` is left.
`Unregistered` (detach takes the connection out first) carries `SendersEnd`.

**Lifespan.** `RestartInv`: the restart under way has its spec out of `_tasks`, and only
that spec can have a popped task that has not ended; with it `OneTaskPerSpec`. `StopInv`: `stop`
waits for the monitor before it looks at the tasks, so nothing is spawned behind its back.
`PhaseInv`: what exists at each call of `lifespan`; `ClientsOutliveTasks` reads it off.

**Retention.** `CutoffInv`: the cutoff of a purge is at least the retention behind the clock.
`ChosenInv`: what a DELETE has selected is older than its cutoff, which stays true because an
row in the table keeps its `recorded_at`; with it `OnlyExpiredRowsGo`. `BatchInv`: a batch that
is not full has all expired rows but those inserted since, whoever else deletes. A full batch
whose rows are all still there is deleted whole, so the loop goes on unless its passes are used up:
what `PurgeIsComplete` excepts is all there is.

**Geozones.** Four facts about each handler (`Local`): what it was `Asked`; that what it has
`Retrieved` is its user's; that the row it `Holds` is either new and invisible, or one of
its user's that nobody has touched since it was locked; that what it has `Drafted` fits its
bounds and differs from that row only in columns of the request. `Exclusive` (no two hold one row)
makes the commit of one handler leave the facts of the others alone. `Fresh` keeps new ids clear of rows
there were, `StaysDeleted` keeps deleted ones empty. `UpdateOfRow` is the lemma about
`Set` and `BoundsTrigger`. `Room` is about the bound on ids only.

**Assumptions.** The `ASSUME`s of the modules, which TLC evaluates in every run: types and
positive sizes; `IsFiniteSet` of `Alerting`'s workers and `Geozones`' handlers, which are counted;
that the bounds of geozone rows found at the start fit, because the trigger is as old as the
table; that `Retention`'s clock, which starts on the day after one retention, does not start beyond
its bound. All but the first kind were found missing by the proofs.

**Model-checked only.** The liveness properties: `GateReopens`, `EveryEntrySettles`,
`AlertsResume`, `PositionsAreShown`, `SickTasksRestart`, `ShutdownEnds`, `ExpiredRowsGo`,
`EveryRequestAnswered`. They rest on fairness and `ENABLED`, which the installed provers do not
support. The three runs that end with a counterexample need no proof.

## What is not modelled

* **Malformed stream entries**: `publish` writes none. One without a payload would be
  skipped and never acknowledged, one that does not decode would end the worker
  task, which is `Crash`.
* **XAUTOCLAIM's scan limit** (ten times COUNT pending entries per call; the code ignores
  the returned cursor): the model's claim sees the whole pending list. Retries
  inside redis-py and SQLAlchemy's pool are not modelled either: a call succeeds,
  fails, or succeeds and loses its answer.
* **Flapping and the health report** of the supervisor: restart times are state that no
  other code acts on.
* **Edits of geozones beside a flush**: `Alerting` has a fixed set of zones. Every
  sync replaces the presence of a device by what its batch matched, so a deleted zone
  leaves it with the next batch, and an alert about it is of a batch matched before.
* **Lists and GETs** of geozones: they change nothing.
* **Geometry**: `match_zones` is a relation between pings and zones given by
  `Pings`.
* **HTTP layer, configuration, logging, generator, UI**: stateless, or clients of
  the service. Of the migrations only what the table of geozones does is
  modelled, not their execution. The HTTP server is assumed to end its requests
  before it ends `lifespan`, as uvicorn does.

## Plan

Done: the write path with its abstract specification; alerting; positions;
connection; realtime; supervisor and lifespan; retention; geozones with their bounds; proofs
of all their safety properties.

Next, in this order:

1. More proofs about what is there: geozone names stay unique per user under the waits and the
   index as modelled (an invariant no run states yet, a check of the model against the
   constraint of the table); an abstract specification of alerting and of the connection, with
   the refinement proved as for the ledger.
2. `Delivery`: `Realtime` composed with several `Connection`s, so that a dispatched alert
   is followed from PUBLISH to `send_text` for every session of a user.
3. Edits of geozones beside a flush: `Geozones` composed with the match of `Alerting`.
4. The supervisor with a worker that really drains (`Ingest!Cancel`, `DrainAborted`), to
   replace the fairness of `Restart` by `SickTasksRestart`.
