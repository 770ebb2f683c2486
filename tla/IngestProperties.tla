-------------------------- MODULE IngestProperties --------------------------
(***************************************************************************)
(* What the write path of module Ingest guarantees, and what it does not.  *)
(***************************************************************************)
EXTENDS Ingest

\* Each variable holds a value of its kind: the stream is one range of ids,
\* the group never gets ahead of it, and a batch is of delivered entries.
TypeOK ==
    /\ last \in 0..MaxEntries /\ first \in 1..last + 1 /\ delivered \in 0..last
    /\ size \in [Entry -> 0..ChunkSize]
    /\ owner \in [Entry -> Consumers \cup {NoOne}]
    /\ idle \subseteq Entry /\ redelivered \subseteq Entry
    /\ written \subseteq Entry /\ rewritten \subseteq Entry
    /\ counter \in Int
    /\ rpc \in [Requests -> {"idle", "xadd", "incr"}]
    /\ left \in [Requests -> 0..MaxPings]
    /\ total \in [Requests -> 0..MaxPings]
    /\ wpc \in [Workers -> {"top", "xinfo", "get", "set", "read", "flush", "ack", "decr",
                            "drainPending", "drainNew", "stopped"}]
    /\ resume \in [Workers -> {"top", "xinfo", "drainPending", "drainNew"}]
    /\ batch \in [Workers -> SUBSET Entry]
    /\ faults \in 0..MaxFaults

\* Whatever crashes, is cancelled, times out or gets a lost reply, an entry
\* that is not older than the STREAM_MAX_LEN newest ones is either committed
\* or still where some worker will find it: in the stream and not yet
\* delivered, or in the stream and on the group's pending list.
NoLossWithinWindow ==
    \A e \in 1..last :
        last - e < StreamMaxLen =>
            \/ e \in written
            \/ e \in Retained /\ (e > delivered \/ owner[e] # NoOne)

\* An entry leaves the pending list only after its pings are committed, or
\* when the stream has trimmed it: no order of commits, acknowledgements and
\* claims by two workers acknowledges what is not written.
AckOnlyWritten ==
    [][\A e \in Entry : owner[e] # NoOne /\ owner'[e] = NoOne => e \in written \/ e < first]_vars

\* Pings become rows a second time only if Redis handed their entry out a
\* second time: a worker alone never writes a batch twice, and without stale
\* claims, shared consumer names or drains delivery is exactly once.
DuplicatesOnlyFromRedelivery == rewritten \subseteq redelivered

\* The gate is read before the publish it lets through, so the counter may
\* pass the limit, but never by more than one batch per concurrent handler.
BacklogBound == counter <= BacklogLimit + MaxPings * Cardinality(Requests)

\* The gate does not stay shut: once over the limit, the counter comes back
\* under it, also after faults that left it too high.
GateReopens == (Backlog > BacklogLimit) ~> (Backlog <= BacklogLimit)

-----------------------------------------------------------------------------
(* The ledger an observer of rows and stream would keep.                   *)

Held(e) == \E w \in Workers : wpc[w] = "flush" /\ e \in batch[w]

Status(e) ==
    IF e > last THEN "none"
    ELSE IF e \in written THEN "stored"
    ELSE IF Held(e) \/ (e >= first /\ (e > delivered \/ owner[e] # NoOne)) THEN "open"
    ELSE "lost"

Ledger == INSTANCE DeliveryLedger WITH
    Window <- StreamMaxLen, accepted <- last, state <- [e \in Entry |-> Status(e)]

\* The write path implements the ledger: at-least-once delivery to the
\* database of every entry of the window, step by step.
ImplementsLedger == Ledger!Spec

\* Every entry is written in the end, or was trimmed before it could be.
EveryEntrySettles == Ledger!Settles

-----------------------------------------------------------------------------
(* A claim about the counter that the code does not keep.                  *)

\* tests/integration/test_stream.py: a stale counter is reset once the stream
\* is drained.  A counter below zero reads as zero and never is.
StaleCounterIsReset == (counter # 0 /\ StreamDrained) ~> (counter = 0 \/ ~StreamDrained)
=============================================================================
