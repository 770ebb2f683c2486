------------------------------- MODULE Ingest -------------------------------
(***************************************************************************)
(* The write path of geo-device, from POST /ingest/batch to a committed    *)
(* row: the backlog gate of DeviceService.save_points, the Redis stream    *)
(* `pings' with its one consumer group, the `pings:pending' counter beside *)
(* it, and the ingest workers that read, write, acknowledge, claim stale   *)
(* entries, reconcile the counter and drain on cancellation.               *)
(*                                                                         *)
(* One step is one command executed by Redis, one database transaction or  *)
(* one fault.  asyncio suspends a coroutine at every await, and several    *)
(* processes share the same Redis, so any other step may come between two  *)
(* of them.  A pipeline(transaction=False) is one step per command: Redis  *)
(* serves other clients between the commands of such a pipeline.           *)
(*                                                                         *)
(* Stream entries are numbered in the order of their XADD.  A payload is   *)
(* only its number of pings.  Time is abstracted: the claim ticker may be  *)
(* due at any loop, and Age makes an entry older than CLAIM_IDLE_MS.       *)
(***************************************************************************)
EXTENDS Integers, FiniteSets

CONSTANTS
    Workers,        \* ingest worker tasks, over all API processes
    Consumers,      \* the consumer names they use in the group
    Consumer,       \* Consumer[w]: f"ingest-{worker_id}", shared by processes
    Requests,       \* concurrent POST /ingest/batch handlers
    MaxPings,       \* INGEST_MAX_HTTP_BATCH_SIZE
    ChunkSize,      \* INGEST_CHUNK_SIZE, pings in one stream entry
    BacklogLimit,   \* INGEST_BACKLOG_LIMIT, in pings
    StreamMaxLen,   \* INGEST_STREAM_MAX_LEN, in entries
    ReadCount,      \* READ_COUNT
    NoOne,          \* the owner of an entry that is not pending
    MaxEntries,     \* bound: entries ever added to the stream
    MaxFaults       \* bound: failures, crashes, cancellations and time-outs

ASSUME ConsumerAssumption ==
    /\ Consumer \in [Workers -> Consumers]
    /\ NoOne \notin Consumers
ASSUME RequestsAssumption == IsFiniteSet(Requests)
ASSUME LimitsAssumption ==
    /\ MaxPings \in Nat \ {0} /\ ChunkSize \in Nat \ {0}
    /\ StreamMaxLen \in Nat \ {0} /\ ReadCount \in Nat \ {0}
    /\ BacklogLimit \in Nat /\ MaxEntries \in Nat /\ MaxFaults \in Nat

Entry == 1..MaxEntries

VARIABLES
    first,        \* the oldest entry the stream retains
    last,         \* the newest entry of the stream
    size,         \* size[e]: pings in entry e
    delivered,    \* last-delivered-id of the group
    owner,        \* owner[e]: the consumer whose pending list holds e
    idle,         \* pending entries not delivered for CLAIM_IDLE_MS
    redelivered,  \* entries delivered more than once (times_delivered > 1)
    counter,      \* the integer at pings:pending
    written,      \* entries whose pings are committed rows
    rewritten,    \* entries whose pings were committed more than once
    rpc,          \* rpc[r]: where request handler r is
    left,         \* left[r]: pings r has yet to XADD
    total,        \* total[r]: pings of r's request
    wpc,          \* wpc[w]: where worker w is
    resume,       \* resume[w]: where w goes on after the flush it is in
    batch,        \* batch[w]: the entries w holds in memory
    faults        \* faults so far

stream == <<first, last, size>>
group == <<delivered, owner, idle, redelivered>>
rows == <<written, rewritten>>
handlers == <<rpc, left, total>>
workers == <<wpc, resume, batch>>
vars == <<stream, group, counter, rows, handlers, workers, faults>>

Init ==
    /\ first = 1 /\ last = 0 /\ delivered = 0
    /\ size = [e \in Entry |-> 0]
    /\ owner = [e \in Entry |-> NoOne]
    /\ idle = {} /\ redelivered = {} /\ written = {} /\ rewritten = {}
    /\ counter = 0
    /\ rpc = [r \in Requests |-> "idle"]
    /\ left = [r \in Requests |-> 0]
    /\ total = [r \in Requests |-> 0]
    /\ wpc = [w \in Workers |-> "top"]
    /\ resume = [w \in Workers |-> "top"]
    /\ batch = [w \in Workers |-> {}]
    /\ faults = 0

-----------------------------------------------------------------------------
(* Helpers.                                                                *)

\* The n smallest members of a set of entries: Redis answers in id order.
Oldest(S, n) == {e \in S : Cardinality({x \in S : x < e}) < n}

\* What batched(pings, CHUNK_SIZE) puts in the next entry when n pings are left.
FullChunk(n) == ChunkSize   \* mutant: a short last chunk counted as a full one
NextChunk(n) == IF n < ChunkSize THEN n ELSE ChunkSize

\* sum(len(chunk.pings) for chunk in chunks).
PingCount(S) == Cardinality({p \in S \X (1..ChunkSize) : p[2] <= size[p[1]]})

Retained == {e \in Entry : first <= e /\ e <= last}
Pending == {e \in Entry : owner[e] # NoOne}
OwnPending(w) == {e \in Entry : owner[e] = Consumer[w]}
Undelivered == {e \in Retained : e > delivered}

\* get_backlog: a negative counter reads as 0.
Backlog == IF counter < 0 THEN 0 ELSE counter

\* get_entry_backlog = 0: no lag and an empty pending list.
StreamDrained == delivered >= last /\ Pending = {}

\* Stream entries the admitted requests may still add.
Chunks(n) == (n + ChunkSize - 1) \div ChunkSize
Outstanding ==
    Cardinality({p \in Requests \X (1..Chunks(MaxPings)) : p[2] <= Chunks(left[p[1]])})

Draining(w) == wpc[w] \in {"drainPending", "drainNew"} \/ resume[w] \in {"drainPending", "drainNew"}

Goto(w, pc) == wpc' = [wpc EXCEPT ![w] = pc]

\* The batch is forgotten and the worker goes to pc.
Abandon(w, pc) ==
    /\ wpc' = [wpc EXCEPT ![w] = pc]
    /\ resume' = [resume EXCEPT ![w] = "top"]
    /\ batch' = [batch EXCEPT ![w] = {}]

\* _flush starts on S and hands over to pc when it returns.
StartFlush(w, S, pc) ==
    /\ wpc' = [wpc EXCEPT ![w] = "flush"]
    /\ resume' = [resume EXCEPT ![w] = pc]
    /\ batch' = [batch EXCEPT ![w] = S]

Fault == faults < MaxFaults /\ faults' = faults + 1

-----------------------------------------------------------------------------
(* POST /ingest/batch.                                                     *)

\* Mutant: the limit compared with the backlog one too low.
AdmitOneTooMany(r, n) ==
    /\ rpc[r] = "idle"
    /\ Backlog - 1 <= BacklogLimit
    /\ last + Outstanding + Chunks(n) <= MaxEntries
    /\ rpc' = [rpc EXCEPT ![r] = "xadd"]
    /\ left' = [left EXCEPT ![r] = n]
    /\ total' = [total EXCEPT ![r] = n]
    /\ UNCHANGED <<stream, group, counter, rows, workers, faults>>

\* The counter is read and is not above the limit: the request goes on to
\* publish.  The second conjunct only keeps the model within MaxEntries.
Admit(r, n) ==
    /\ rpc[r] = "idle"
    /\ Backlog <= BacklogLimit
    /\ last + Outstanding + Chunks(n) <= MaxEntries
    /\ rpc' = [rpc EXCEPT ![r] = "xadd"]
    /\ left' = [left EXCEPT ![r] = n]
    /\ total' = [total EXCEPT ![r] = n]
    /\ UNCHANGED <<stream, group, counter, rows, workers, faults>>

\* The counter is above the limit: 503 with Retry-After, and nothing else.
Reject(r) ==
    /\ rpc[r] = "idle"
    /\ Backlog > BacklogLimit
    /\ UNCHANGED vars

\* What XADD MAXLEN ~ StreamMaxLen may leave as the oldest entry: whole tree
\* nodes are trimmed, never below StreamMaxLen entries.
TrimOneTooMany(newest) ==   \* mutant: off by one
    {f \in 1..newest : f = first \/ (f > first /\ newest - f + 1 >= StreamMaxLen - 1)}
TrimTo(newest) == {f \in 1..newest : f = first \/ (f > first /\ newest - f + 1 >= StreamMaxLen)}

\* One XADD of publish's pipeline.
Xadd(r) ==
    /\ rpc[r] = "xadd"
    /\ last < MaxEntries
    /\ LET n == NextChunk(left[r])
       IN  /\ size' = [size EXCEPT ![last + 1] = n]
           /\ left' = [left EXCEPT ![r] = @ - n]
           /\ rpc' = [rpc EXCEPT ![r] = IF left[r] = n THEN "incr" ELSE "xadd"]
    /\ last' = last + 1
    /\ first' \in TrimTo(last + 1)
    /\ UNCHANGED <<group, counter, rows, total, workers, faults>>

\* INCRBY pings:pending len(pings), the pipeline's last command: then 202.
IncrBy(r) ==
    /\ rpc[r] = "incr"
    /\ counter' = counter + total[r]
    /\ rpc' = [rpc EXCEPT ![r] = "idle"]
    /\ total' = [total EXCEPT ![r] = 0]
    /\ UNCHANGED <<stream, group, rows, left, workers, faults>>

\* The pipeline breaks, or its handler dies, before the next command: 503 to
\* the device, the commands already executed stand.
PublishFails(r) ==
    /\ Fault
    /\ rpc[r] \in {"xadd", "incr"}
    /\ rpc' = [rpc EXCEPT ![r] = "idle"]
    /\ left' = [left EXCEPT ![r] = 0]
    /\ total' = [total EXCEPT ![r] = 0]
    /\ UNCHANGED <<stream, group, counter, rows, workers>>

-----------------------------------------------------------------------------
(* The claim and reconcile half of _process_once.                          *)

\* What XAUTOCLAIM takes from the pending list: at most ReadCount entries
\* that are stale, or that the stream has trimmed.
ClaimTrimmedOnly == Oldest({e \in Pending : e < first}, ReadCount)   \* mutant: nothing is ever stale
Claimable == Oldest({e \in Pending : e < first \/ e \in idle}, ReadCount)
Claimed == {e \in Claimable : e >= first}

\* XAUTOCLAIM moves the stale entries to w and drops the trimmed ones.
AutoClaim(w) ==
    /\ owner' = [e \in Entry |-> IF e \in Claimed THEN Consumer[w]
                                 ELSE IF e \in Claimable THEN NoOne ELSE owner[e]]
    /\ idle' = idle \ Claimable
    /\ redelivered' = redelivered \cup Claimed
    /\ UNCHANGED <<stream, delivered, counter, rows, handlers>>

\* The ticker is due: claim_stale, and a flush of what it returned.
Claim(w) ==
    /\ wpc[w] = "top"
    /\ AutoClaim(w)
    /\ IF Claimed = {} THEN Goto(w, "xinfo") /\ UNCHANGED <<resume, batch>>
                       ELSE StartFlush(w, Claimed, "xinfo")
    /\ UNCHANGED faults

\* XAUTOCLAIM is executed and its reply lost.
ClaimLost(w) ==
    /\ Fault
    /\ wpc[w] = "top"
    /\ AutoClaim(w)
    /\ UNCHANGED workers

\* reconcile_backlog, first await: XINFO GROUPS.
XInfo(w) ==
    /\ wpc[w] = "xinfo"
    /\ Goto(w, IF StreamDrained THEN "get" ELSE "read")
    /\ UNCHANGED <<stream, group, counter, rows, handlers, resume, batch, faults>>

\* Mutant: the counter is never found stale.
BelieveBacklog(w) ==
    /\ wpc[w] = "get"
    /\ Goto(w, "read")
    /\ UNCHANGED <<stream, group, counter, rows, handlers, resume, batch, faults>>

\* reconcile_backlog, second await: GET pings:pending.
GetBacklog(w) ==
    /\ wpc[w] = "get"
    /\ Goto(w, IF Backlog # 0 THEN "set" ELSE "read")
    /\ UNCHANGED <<stream, group, counter, rows, handlers, resume, batch, faults>>

\* reconcile_backlog, third await: SET pings:pending 0.
SetZero(w) ==
    /\ wpc[w] = "set"
    /\ counter' = 0
    /\ Goto(w, "read")
    /\ UNCHANGED <<stream, group, rows, handlers, resume, batch, faults>>

-----------------------------------------------------------------------------
(* Reading new entries.                                                    *)

Deliverable == Oldest(Undelivered, ReadCount)

\* XREADGROUP > makes the entries pending for w's consumer.
ReadGroup(w) ==
    /\ Deliverable # {}
    /\ delivered' \in Deliverable
    /\ \A e \in Deliverable : e <= delivered'
    /\ owner' = [e \in Entry |-> IF e \in Deliverable THEN Consumer[w] ELSE owner[e]]
    /\ UNCHANGED <<stream, idle, redelivered, counter, rows, handlers>>

\* read_new outside the drain, from the top of a loop whose ticker is not due
\* or after the reconcile.
ReadNew(w) ==
    /\ wpc[w] \in {"top", "read"}
    /\ ReadGroup(w)
    /\ StartFlush(w, Deliverable, "top")
    /\ UNCHANGED faults

\* BLOCK_MS pass with nothing to read.
ReadNothing(w) ==
    /\ wpc[w] = "read"
    /\ Deliverable = {}
    /\ Goto(w, "top")
    /\ UNCHANGED <<stream, group, counter, rows, handlers, resume, batch, faults>>

\* XREADGROUP is executed and its reply lost.
ReadLost(w) ==
    /\ Fault
    /\ wpc[w] \in {"top", "read"}
    /\ ReadGroup(w)
    /\ Abandon(w, "top")

-----------------------------------------------------------------------------
(* _flush and ack.                                                         *)

Store(S) ==
    /\ written' = written \cup S
    /\ rewritten' = rewritten \cup (S \cap written)

\* write_pings, match_zones and the commit are one transaction; _alert, which
\* follows it, is the subject of module Alerting.
Commit(w) ==
    /\ wpc[w] = "flush"
    /\ Store(batch[w])
    /\ Goto(w, "ack")
    /\ UNCHANGED <<stream, group, counter, handlers, resume, batch, faults>>

\* Mutant: everything pending for the consumer is acknowledged.
XackAll(w) ==
    /\ wpc[w] = "ack"
    /\ owner' = [e \in Entry |-> IF e \in batch[w] \/ owner[e] = Consumer[w] THEN NoOne ELSE owner[e]]
    /\ idle' = {e \in idle : owner'[e] # NoOne}
    /\ Goto(w, "decr")
    /\ UNCHANGED <<stream, delivered, redelivered, counter, rows, handlers, resume, batch, faults>>

\* ack, first command: XACK, whoever the entries are pending for by now.
Xack(w) ==
    /\ wpc[w] = "ack"
    /\ owner' = [e \in Entry |-> IF e \in batch[w] THEN NoOne ELSE owner[e]]
    /\ idle' = idle \ batch[w]
    /\ Goto(w, "decr")
    /\ UNCHANGED <<stream, delivered, redelivered, counter, rows, handlers, resume, batch, faults>>

\* ack, second command: DECRBY, whatever XACK answered.
DecrBy(w) ==
    /\ wpc[w] = "decr"
    /\ counter' = counter - PingCount(batch[w])
    /\ Abandon(w, resume[w])
    /\ UNCHANGED <<stream, group, rows, handlers, faults>>

\* A PIPELINE_ERROR inside the transaction: _flush returns False, the claim
\* goes on to the reconcile, the loop backs off, the drain gives up.
AfterFailedFlush(w) == IF Draining(w) THEN "stopped" ELSE resume[w]

FlushFailsUnnoticed(w) ==   \* mutant: the except clause does not return
    /\ Fault
    /\ wpc[w] = "flush"
    /\ Goto(w, "ack")
    /\ UNCHANGED <<stream, group, counter, rows, handlers, resume, batch>>

FlushFails(w) ==
    /\ Fault
    /\ wpc[w] = "flush"
    /\ Abandon(w, AfterFailedFlush(w))
    /\ UNCHANGED <<stream, group, counter, rows, handlers>>

\* The same, with the COMMIT executed and its answer lost.
CommitLost(w) ==
    /\ Fault
    /\ wpc[w] = "flush"
    /\ Store(batch[w])
    /\ Abandon(w, AfterFailedFlush(w))
    /\ UNCHANGED <<stream, group, counter, handlers>>

\* Mutant: a failed acknowledgement flushes the batch again.
RedisFailsThenRetries(w) ==
    /\ Fault
    /\ wpc[w] \in {"ack", "decr"}
    /\ Goto(w, "flush")
    /\ UNCHANGED <<stream, group, counter, rows, handlers, resume, batch>>

\* A Redis command raises before it is executed: _step catches it.
RedisFails(w) ==
    /\ Fault
    /\ ~Draining(w)
    /\ wpc[w] \in {"xinfo", "get", "set", "read", "ack", "decr"}
    /\ Abandon(w, "top")
    /\ UNCHANGED <<stream, group, counter, rows, handlers>>

-----------------------------------------------------------------------------
(* Cancellation, drain, crash, restart.                                    *)

\* CancelledError at an await of the loop: run goes to _drain.
Cancel(w) ==
    /\ Fault
    /\ ~Draining(w)
    /\ wpc[w] # "stopped"
    /\ Abandon(w, "drainPending")
    /\ UNCHANGED <<stream, group, counter, rows, handlers>>

\* read_new with id 0: this consumer's own pending entries, oldest first.
\* Those the stream has trimmed come without fields and are skipped.
History(w) == Oldest(OwnPending(w), ReadCount) \cap Retained

DrainPending(w) ==
    /\ wpc[w] = "drainPending"
    /\ redelivered' = redelivered \cup History(w)
    /\ idle' = idle \ History(w)
    /\ IF History(w) = {} THEN Goto(w, "drainNew") /\ UNCHANGED <<resume, batch>>
                          ELSE StartFlush(w, History(w), "drainPending")
    /\ UNCHANGED <<stream, delivered, owner, counter, rows, handlers, faults>>

DrainNew(w) ==
    /\ wpc[w] = "drainNew"
    /\ ReadGroup(w)
    /\ StartFlush(w, Deliverable, "drainNew")
    /\ UNCHANGED faults

DrainDone(w) ==
    /\ wpc[w] = "drainNew"
    /\ Deliverable = {}
    /\ Abandon(w, "stopped")
    /\ UNCHANGED <<stream, group, counter, rows, handlers, faults>>

\* DRAIN_TIMEOUT_S passes, Redis fails, or the drain is cancelled in turn.
DrainAborted(w) ==
    /\ Fault
    /\ Draining(w)
    /\ Abandon(w, "stopped")
    /\ UNCHANGED <<stream, group, counter, rows, handlers>>

\* The process dies, or the task ends in an exception run does not catch.
Crash(w) ==
    /\ Fault
    /\ wpc[w] # "stopped"
    /\ Abandon(w, "stopped")
    /\ UNCHANGED <<stream, group, counter, rows, handlers>>

\* The supervisor or a new process starts the worker again.
Restart(w) ==
    /\ wpc[w] = "stopped"
    /\ Goto(w, "top")
    /\ UNCHANGED <<stream, group, counter, rows, handlers, resume, batch, faults>>

\* CLAIM_IDLE_MS pass since e was last delivered, be it abandoned or in the
\* hands of a worker whose flush is slow.
Age(e) ==
    /\ e \in Pending \ idle
    /\ idle' = idle \cup {e}
    /\ UNCHANGED <<stream, delivered, owner, redelivered, counter, rows, handlers, workers, faults>>

-----------------------------------------------------------------------------
RequestStep(r) == Xadd(r) \/ IncrBy(r)

ReconcileStep(w) == XInfo(w) \/ GetBacklog(w) \/ SetZero(w)
ReadStep(w) == ReadNew(w) \/ ReadNothing(w)
FlushStep(w) == Commit(w) \/ Xack(w) \/ DecrBy(w)
DrainStep(w) == DrainPending(w) \/ DrainNew(w) \/ DrainDone(w)
WorkerStep(w) == ReconcileStep(w) \/ ReadStep(w) \/ FlushStep(w) \/ DrainStep(w)

WorkerFault(w) ==
    \/ ClaimLost(w) \/ ReadLost(w) \/ FlushFails(w) \/ CommitLost(w)
    \/ RedisFails(w) \/ Cancel(w) \/ DrainAborted(w) \/ Crash(w)

Next ==
    \/ \E r \in Requests : \/ \E n \in 1..MaxPings : Admit(r, n)
                           \/ Reject(r)
                           \/ RequestStep(r)
                           \/ PublishFails(r)
    \/ \E w \in Workers : Claim(w) \/ WorkerStep(w) \/ WorkerFault(w) \/ Restart(w)
    \/ \E e \in Entry : Age(e)

Spec == Init /\ [][Next]_vars

(***************************************************************************)
(* Fairness.  A handler and a worker that can take a step eventually do:   *)
(* the event loop runs every ready coroutine.  A loop that keeps passing   *)
(* the top finds its claim ticker due sooner or later.  A pending entry    *)
(* gets older, and a stopped worker is started again (module Supervisor,   *)
(* or the container's restart policy).  No device has to send anything,    *)
(* and no fault has to happen.                                             *)
(***************************************************************************)
Fairness ==
    /\ \A r \in Requests : WF_vars(RequestStep(r))
    /\ \A w \in Workers : /\ WF_vars(WorkerStep(w))
                          /\ SF_vars(Claim(w))
                          /\ WF_vars(Restart(w))
    /\ \A e \in Entry : WF_vars(Age(e))

FairSpec == Spec /\ Fairness
=============================================================================
