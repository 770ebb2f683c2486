------------------------------ MODULE Alerting ------------------------------
(***************************************************************************)
(* From a flushed batch to a published geozone alert: match_zones inside   *)
(* the flush transaction, filter_new_entries with the Lua script that      *)
(* syncs a device's presence set, publish_alerts, and the acknowledgement  *)
(* that follows whatever they did.                                         *)
(*                                                                         *)
(* The write path is module Ingest; here it is only what alerting sees of  *)
(* it: batches are taken in order, and a pending entry may be handed out   *)
(* again while, or after, another worker works on it.  A ping is its       *)
(* device and the zones that contain it.  One stream entry holds one ping. *)
(***************************************************************************)
EXTENDS Integers, FiniteSets

CONSTANTS
    Workers,        \* ingest workers
    Devices,        \* device ids
    Zones,          \* geozone ids
    Users,          \* user ids
    Owner,          \* Owner[z]: the user of zone z
    Pings,          \* the pings devices may send, [device, zones]
    NumPings,       \* bound: stream entries
    ReadCount,      \* READ_COUNT
    MaxReclaims,    \* bound: batches handed out a second time
    MaxExpiries,    \* bound: expiries of a device's presence key
    MaxFaults       \* bound: failed calls and crashes

ASSUME WorkersAssumption == IsFiniteSet(Workers)
ASSUME OwnerAssumption == Owner \in [Zones -> Users]
ASSUME PingsAssumption == Pings \subseteq [device : Devices, zones : SUBSET Zones]
ASSUME BoundsAssumption ==
    /\ NumPings \in Nat /\ ReadCount \in Nat \ {0}
    /\ MaxReclaims \in Nat /\ MaxExpiries \in Nat /\ MaxFaults \in Nat

Entry == 1..NumPings

VARIABLES
    ping,           \* ping[e]: the ping of entry e
    nextNew,        \* the oldest entry not yet delivered
    pending,        \* entries delivered and not acknowledged
    rows,           \* entries whose pings are committed
    presence,       \* presence[d]: the set at inside:{device_id}
    wpc,            \* wpc[w]: where worker w is
    batch,          \* batch[w]: the entries of its flush
    unsynced,       \* unsynced[w]: devices whose script is still to run
    entered,        \* entered[w]: <<d, z>> pairs the scripts returned
    reclaims,
    expiries,       \* expiries[d]: times the presence key of d has expired
    faults,
    \* History, read by no action:
    flushes,        \* the committed batches
    stays,          \* stays[d][z]: times presence[d] has gained z
    told,           \* told[d][z]: alerts published
    missed          \* missed[d][z]: alerts given up or lost in a crash

redisVars == <<nextNew, pending, presence>>
workerVars == <<wpc, batch, unsynced, entered>>
bounds == <<reclaims, expiries, faults>>
account == <<stays, told, missed>>
history == <<flushes, account>>
vars == <<ping, redisVars, rows, workerVars, bounds, history>>

Never == [d \in Devices |-> [z \in Zones |-> 0]]

Init ==
    /\ ping \in [Entry -> Pings]
    /\ nextNew = 1 /\ pending = {} /\ rows = {}
    /\ presence = [d \in Devices |-> {}]
    /\ wpc = [w \in Workers |-> "top"]
    /\ batch = [w \in Workers |-> {}]
    /\ unsynced = [w \in Workers |-> {}]
    /\ entered = [w \in Workers |-> {}]
    /\ reclaims = 0 /\ expiries = [d \in Devices |-> 0] /\ faults = 0
    /\ flushes = {} /\ stays = Never /\ told = Never /\ missed = Never

-----------------------------------------------------------------------------
\* match_zones: the distinct (zone, device) pairs of a batch.  A device is a
\* hit if any of its pings in the batch is inside.
HitZonesOfBatch(S, d) == UNION {ping[e].zones : e \in S}   \* mutant: pairs not joined by device
HitZones(S, d) == UNION {ping[e].zones : e \in {x \in S : ping[x].device = d}}

\* dict.fromkeys(device_ids).
BatchDevices(S) == {ping[e].device : e \in S}

Count(f, P) == [d \in Devices |-> [z \in Zones |-> f[d][z] + (IF <<d, z>> \in P THEN 1 ELSE 0)]]

GiveUp(w) == missed' = Count(missed, entered[w])

Fault == faults < MaxFaults /\ faults' = faults + 1

TakeBatch(w, S) ==
    /\ wpc' = [wpc EXCEPT ![w] = "flush"]
    /\ batch' = [batch EXCEPT ![w] = S]

Forget(w, pc) ==
    /\ wpc' = [wpc EXCEPT ![w] = pc]
    /\ batch' = [batch EXCEPT ![w] = {}]
    /\ unsynced' = [unsynced EXCEPT ![w] = {}]
    /\ entered' = [entered EXCEPT ![w] = {}]

-----------------------------------------------------------------------------
\* read_new hands w the next one to ReadCount entries.
Read(w) ==
    /\ wpc[w] = "top"
    /\ \E newest \in nextNew..(nextNew + ReadCount - 1) \cap Entry :
          /\ TakeBatch(w, nextNew..newest)
          /\ pending' = pending \cup (nextNew..newest)
          /\ nextNew' = newest + 1
    /\ UNCHANGED <<ping, rows, presence, unsynced, entered, bounds, history>>

\* claim_stale, or the history read of a drain: pending entries again, though
\* another worker may still have them in hand.
Reclaim(w) ==
    /\ wpc[w] = "top"
    /\ reclaims < MaxReclaims
    /\ reclaims' = reclaims + 1
    /\ \E S \in SUBSET pending : S # {} /\ Cardinality(S) <= ReadCount /\ TakeBatch(w, S)
    /\ UNCHANGED <<ping, redisVars, rows, unsynced, entered, expiries, faults, history>>

\* The flush transaction commits; _alert begins.
Commit(w) ==
    /\ wpc[w] = "flush"
    /\ rows' = rows \cup batch[w] /\ flushes' = flushes \cup {batch[w]}
    /\ wpc' = [wpc EXCEPT ![w] = "sync"]
    /\ unsynced' = [unsynced EXCEPT ![w] = BatchDevices(batch[w])]
    /\ UNCHANGED <<ping, redisVars, batch, entered, bounds, account>>

\* Mutant: the batch of a failed transaction is alerted about all the same.
FlushFailsUnnoticed(w) ==
    /\ Fault
    /\ wpc[w] = "flush"
    /\ wpc' = [wpc EXCEPT ![w] = "sync"]
    /\ unsynced' = [unsynced EXCEPT ![w] = BatchDevices(batch[w])]
    /\ UNCHANGED <<ping, redisVars, rows, batch, entered, reclaims, expiries, history>>

\* The transaction fails: the batch stays pending.
FlushFails(w) ==
    /\ Fault
    /\ wpc[w] = "flush"
    /\ Forget(w, "top")
    /\ UNCHANGED <<ping, redisVars, rows, reclaims, expiries, history>>

\* What SYNC_ZONES_LUA returns for a device now in `current': SADD tells which
\* zones the set gained.
EnteredAll(d, current) == {<<d, z>> : z \in current}   \* mutant: every zone, as if just entered
EnteredIds(d, current) == current \ presence[d]        \* mutant: ids not looked up in the hits
EnteredBy(d, current) == {<<d, z>> : z \in current \ presence[d]}

\* The members that the script removes before it adds the current zones.
NoneLeft(d, current) == {}   \* mutant: zones added only
ZonesLeft(d, current) == presence[d] \ current

\* The script for one device of the pipeline, executed at once by Redis: SREM
\* of the zones left, SADD of the current ones, DEL when none is left.
Sync(w, d) ==
    /\ wpc[w] = "sync"
    /\ d \in unsynced[w]
    /\ LET current == HitZones(batch[w], d)
           gained == current \ presence[d]
       IN  /\ presence' = [presence EXCEPT ![d] = (@ \ ZonesLeft(d, current)) \cup current]
           /\ entered' = [entered EXCEPT ![w] = @ \cup EnteredBy(d, current)]
           /\ stays' = Count(stays, {d} \X gained)
    /\ unsynced' = [unsynced EXCEPT ![w] = @ \ {d}]
    /\ wpc' = [wpc EXCEPT ![w] = IF unsynced[w] = {d} THEN "publish" ELSE "sync"]
    /\ UNCHANGED <<ping, nextNew, pending, rows, batch, bounds, flushes, told, missed>>

\* One PUBLISH of publish_alerts: the entries of one user, on his channel.
Publish(w, u) ==
    /\ wpc[w] = "publish"
    /\ LET mine == {p \in entered[w] : Owner[p[2]] = u}
       IN  /\ mine # {}
           /\ told' = Count(told, mine)
           /\ entered' = [entered EXCEPT ![w] = @ \ mine]
    /\ UNCHANGED <<ping, redisVars, rows, wpc, batch, unsynced, bounds, flushes, stays, missed>>

\* _alert returns, all entries published; then XACK.
Ack(w) ==
    /\ wpc[w] = "publish"
    /\ entered[w] = {}
    /\ pending' = pending \ batch[w]
    /\ Forget(w, "top")
    /\ UNCHANGED <<ping, nextNew, presence, rows, bounds, history>>

\* Redis fails within _alert: the exception is logged and swallowed, what was
\* entered is told to nobody, and the batch is acknowledged all the same.
AlertFails(w) ==
    /\ Fault
    /\ wpc[w] \in {"sync", "publish"}
    /\ GiveUp(w)
    /\ wpc' = [wpc EXCEPT ![w] = "publish"]
    /\ unsynced' = [unsynced EXCEPT ![w] = {}]
    /\ entered' = [entered EXCEPT ![w] = {}]
    /\ UNCHANGED <<ping, redisVars, rows, batch, reclaims, expiries, flushes, stays, told>>

\* The worker dies or is cancelled: its batch stays pending, its entries are
\* forgotten.
Crash(w) ==
    /\ Fault
    /\ wpc[w] # "top"
    /\ GiveUp(w)
    /\ Forget(w, "top")
    /\ UNCHANGED <<ping, redisVars, rows, reclaims, expiries, flushes, stays, told>>

\* INGEST_ZONE_ENTRY_TTL_S pass since the last sync that left zones in the set.
Expire(d) ==
    /\ presence[d] # {}
    /\ expiries[d] < MaxExpiries
    /\ expiries' = [expiries EXCEPT ![d] = @ + 1]
    /\ presence' = [presence EXCEPT ![d] = {}]
    /\ UNCHANGED <<ping, nextNew, pending, rows, workerVars, reclaims, faults, history>>

Next ==
    \/ \E w \in Workers :
          \/ Read(w) \/ Reclaim(w) \/ Commit(w) \/ FlushFails(w)
          \/ \E d \in Devices : Sync(w, d)
          \/ \E u \in Users : Publish(w, u)
          \/ Ack(w) \/ AlertFails(w) \/ Crash(w)
    \/ \E d \in Devices : Expire(d)

Spec == Init /\ [][Next]_vars

-----------------------------------------------------------------------------
TypeOK ==
    /\ ping \in [Entry -> Pings]
    /\ nextNew \in 1..NumPings + 1
    /\ pending \subseteq 1..nextNew - 1 /\ rows \subseteq 1..nextNew - 1
    /\ presence \in [Devices -> SUBSET Zones]
    /\ wpc \in [Workers -> {"top", "flush", "sync", "publish"}]
    /\ batch \in [Workers -> SUBSET Entry]
    /\ unsynced \in [Workers -> SUBSET Devices]
    /\ entered \in [Workers -> SUBSET (Devices \X Zones)]
    /\ expiries \in [Devices -> 0..MaxExpiries]
    /\ flushes \subseteq SUBSET rows
    /\ stays \in [Devices -> [Zones -> Nat]]
    /\ told \in [Devices -> [Zones -> Nat]]
    /\ missed \in [Devices -> [Zones -> Nat]]

InHand(d, z) == Cardinality({w \in Workers : <<d, z>> \in entered[w]})

\* Every gain of a presence set is one alert: published, in some worker's
\* hands, or given up by a fault.  Batches in two workers' hands at once, and
\* batches processed a second time, neither double an alert nor swallow one.
EveryEntryAccountedFor ==
    \A d \in Devices, z \in Zones : stays[d][z] = told[d][z] + missed[d][z] + InHand(d, z)

\* An alert is about a committed ping inside the zone: no order of batches,
\* redeliveries and failures alerts about a device that was never there.
NoFalseAlert ==
    \A d \in Devices, z \in Zones :
        told[d][z] > 0 => \E e \in rows : ping[e].device = d /\ z \in ping[e].zones

\* README.md: a device parked in a zone alerts once.  As the code has it: a
\* zone that no ping of the device leaves is alerted about at most once more
\* than the presence key of that device expires, however its batches are split
\* and redelivered, and whatever happens to other devices.
ParkedAlertsOnce ==
    \A d \in Devices, z \in Zones :
        (\A e \in Entry : ping[e].device = d => z \in ping[e].zones) => told[d][z] <= 1 + expiries[d]

\* What presence remembers of a device is what one committed batch with pings
\* of it matched: never a mixture of two batches that two workers sync in any
\* order, nor of one that was rolled back.  It is empty without such a batch
\* only before the device has entered a zone, or once its key has expired.
PresenceIsOfOneBatch ==
    \A d \in Devices :
        \/ \E S \in flushes : d \in BatchDevices(S) /\ presence[d] = HitZones(S, d)
        \/ presence[d] = {} /\ (expiries[d] > 0 \/ \A z \in Zones : stays[d][z] = 0)

Idle == nextNew > NumPings /\ pending = {} /\ \A w \in Workers : wpc[w] = "top"

\* README.md: "a device parked in a zone alerts once": once all is processed,
\* the user has been told of a device that is in his zone.
ParkedIsTold ==
    Idle => \A d \in Devices, z \in Zones : z \in presence[d] => told[d][z] >= 1
=============================================================================
