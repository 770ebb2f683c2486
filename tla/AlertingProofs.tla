--------------------------- MODULE AlertingProofs ---------------------------
(***************************************************************************)
(* Proofs about the alerts, for any workers, devices, zones, users, pings, *)
(* stream length, read size and numbers of redeliveries, expiries and      *)
(* faults.                                                                 *)
(***************************************************************************)
EXTENDS Alerting, FiniteSetTheorems, TLAPS

-----------------------------------------------------------------------------
(* The inductive invariant.                                                *)

\* A batch is of delivered entries, no more than a read may return.
BatchInv ==
    \A w \in Workers : /\ batch[w] \subseteq 1..nextNew - 1
                       /\ Cardinality(batch[w]) <= ReadCount

\* Scripts run, and entries are in hand, only after the commit.
PhaseInv ==
    \A w \in Workers :
        IF wpc[w] \in {"top", "flush"} THEN entered[w] = {} /\ unsynced[w] = {}
                                       ELSE batch[w] \subseteq rows /\ batch[w] \in flushes

\* The scripts that still run are those of devices of the batch, of which
\* nothing has been entered yet.
UnsyncedInv ==
    \A w \in Workers : \A d \in unsynced[w] :
        d \in BatchDevices(batch[w]) /\ \A z \in Zones : <<d, z>> \notin entered[w]

\* Some committed ping of device d is in zone z.
WasInside(d, z) == \E e \in rows : ping[e].device = d /\ z \in ping[e].zones

EnteredInv == \A w \in Workers, d \in Devices, z \in Zones : <<d, z>> \in entered[w] => WasInside(d, z)

\* No ping of device d leaves zone z.
Parked(d, z) == \A e \in Entry : ping[e].device = d => z \in ping[e].zones

\* Presence gains such a zone once, and once more for each expiry of its key.
StaysInv ==
    \A d \in Devices, z \in Zones :
        Parked(d, z) => stays[d][z] <= expiries[d] + (IF z \in presence[d] THEN 1 ELSE 0)

IInv ==
    /\ TypeOK /\ BatchInv /\ PhaseInv /\ UnsyncedInv
    /\ EnteredInv /\ NoFalseAlert /\ PresenceIsOfOneBatch
    /\ EveryEntryAccountedFor /\ StaysInv

-----------------------------------------------------------------------------
(* Lemmas about the helpers.                                               *)

LEMMA CountType ==
  ASSUME NEW f \in [Devices -> [Zones -> Nat]], NEW P
  PROVE  /\ Count(f, P) \in [Devices -> [Zones -> Nat]]
         /\ \A d \in Devices, z \in Zones :
                Count(f, P)[d][z] = f[d][z] + (IF <<d, z>> \in P THEN 1 ELSE 0)
<1>1. ASSUME NEW d \in Devices, NEW z \in Zones
      PROVE  f[d][z] + (IF <<d, z>> \in P THEN 1 ELSE 0) \in Nat
  <2>1. f[d][z] \in Nat OBVIOUS
  <2> QED BY <2>1
<1> QED BY <1>1 DEF Count

LEMMA HitZonesType ==
  ASSUME TypeOK, NEW S \in SUBSET Entry, NEW d
  PROVE  /\ HitZones(S, d) \in SUBSET Zones
         /\ \A z \in HitZones(S, d) : \E e \in S : ping[e].device = d /\ z \in ping[e].zones
         /\ \A e \in S : ping[e].device = d => ping[e].zones \subseteq HitZones(S, d)
<1>1. \A e \in Entry : ping[e].zones \in SUBSET Zones BY PingsAssumption DEF TypeOK
<1> QED BY <1>1 DEF HitZones

LEMMA BatchDevicesType ==
  ASSUME TypeOK, NEW S \in SUBSET Entry
  PROVE  BatchDevices(S) \in SUBSET Devices
<1>1. \A e \in Entry : ping[e].device \in Devices BY PingsAssumption DEF TypeOK
<1> QED BY <1>1 DEF BatchDevices

LEMMA EnteredByType ==
  ASSUME NEW d \in Devices, NEW C \in SUBSET Zones
  PROVE  /\ EnteredBy(d, C) \in SUBSET (Devices \X Zones)
         /\ EnteredBy(d, C) = {d} \X (C \ presence[d])
         /\ \A x, z : <<x, z>> \in EnteredBy(d, C) <=> x = d /\ z \in C /\ z \notin presence[d]
  BY DEF EnteredBy

Holders(d, z) == {w \in Workers : <<d, z>> \in entered[w]}

\* A worker that gets entries it has not got in hand, or gets rid of some.
LEMMA InHandType ==
  \A d \in Devices, z \in Zones : /\ InHand(d, z) \in Nat /\ InHand(d, z)' \in Nat
                                 /\ IsFiniteSet(Holders(d, z))
<1> TAKE d \in Devices, z \in Zones
<1>1. \A T \in SUBSET Workers : IsFiniteSet(T) /\ Cardinality(T) \in Nat
  BY WorkersAssumption, FS_Subset, FS_CardinalityType
<1>2. Holders(d, z) \in SUBSET Workers /\ Holders(d, z)' \in SUBSET Workers BY DEF Holders
<1>3. Cardinality(Holders(d, z)) \in Nat /\ Cardinality(Holders(d, z)') \in Nat BY <1>1, <1>2
<1> QED BY <1>1, <1>2, <1>3 DEF InHand, Holders

LEMMA InHandStep ==
  ASSUME NEW w \in Workers, NEW d \in Devices, NEW z \in Zones,
         \A v \in Workers : v # w => entered'[v] = entered[v]
  PROVE  InHand(d, z)' + (IF <<d, z>> \in entered[w] THEN 1 ELSE 0)
           = InHand(d, z) + (IF <<d, z>> \in entered'[w] THEN 1 ELSE 0)
<1> DEFINE H == Holders(d, z)
           K == Holders(d, z)'
<1>1. IsFiniteSet(H) /\ Cardinality(H) \in Nat BY InHandType, FS_CardinalityType
<1>2. (w \in H <=> <<d, z>> \in entered[w]) /\ (w \in K <=> <<d, z>> \in entered'[w]) BY DEF Holders
<1>3. \A v \in Workers : v # w => (v \in K <=> v \in H) BY DEF Holders
<1>4. H \subseteq Workers /\ K \subseteq Workers BY DEF Holders
<1> HIDE DEF H, K
<1>5. CASE w \in K /\ w \notin H
  <2>1. K = H \cup {w} BY <1>3, <1>4, <1>5
  <2>2. Cardinality(K) = Cardinality(H) + 1 BY <1>1, <1>5, <2>1, FS_AddElement
  <2> QED BY <1>1, <1>2, <1>5, <2>2 DEF H, K, InHand, Holders
<1>6. CASE w \notin K /\ w \in H
  <2>1. K = H \ {w} BY <1>3, <1>4, <1>6
  <2>2. Cardinality(K) = Cardinality(H) - 1 BY <1>1, <1>6, <2>1, FS_RemoveElement
  <2> QED BY <1>1, <1>2, <1>6, <2>2 DEF H, K, InHand, Holders
<1>7. CASE w \in K <=> w \in H
  <2>1. K = H BY <1>3, <1>4, <1>7
  <2> QED BY <1>1, <1>2, <1>7, <2>1 DEF H, K, InHand, Holders
<1> QED BY <1>5, <1>6, <1>7

-----------------------------------------------------------------------------
(* Types, and what a worker has in hand where.                             *)

TInv == TypeOK /\ BatchInv /\ PhaseInv /\ UnsyncedInv

LEMMA IntervalGrows == \A m, n \in Nat : m <= n => 1..m - 1 \subseteq 1..n - 1
  OBVIOUS

LEMMA TakeBatchType ==
  ASSUME TInv, NEW w \in Workers, NEW S, S \in SUBSET Entry, TakeBatch(w, S), wpc[w] = "top",
         nextNew' \in 1..NumPings + 1, nextNew <= nextNew', pending' \subseteq 1..nextNew' - 1,
         S \subseteq 1..nextNew' - 1, Cardinality(S) <= ReadCount,
         UNCHANGED <<ping, rows, presence, unsynced, entered, expiries, history>>
  PROVE  TInv'
<1> USE BoundsAssumption DEF TInv, TakeBatch
<1>0. 1..nextNew - 1 \subseteq 1..nextNew' - 1
  <2>1. nextNew \in Nat /\ nextNew' \in Nat /\ nextNew <= nextNew' BY DEF TypeOK
  <2> QED BY <2>1, IntervalGrows
<1>1. TypeOK'
  <2>1. rows' = rows /\ rows \subseteq 1..nextNew - 1 BY DEF TypeOK
  <2>2. rows' \subseteq 1..nextNew' - 1 BY <1>0, <2>1
  <2>3. wpc' \in [Workers -> {"top", "flush", "sync", "publish"}] BY DEF TypeOK
  <2>4. batch' \in [Workers -> SUBSET Entry] BY DEF TypeOK
  <2>5. flushes' \subseteq SUBSET rows' BY DEF TypeOK, history
  <2>6. UNCHANGED <<ping, presence, unsynced, entered, expiries, stays, told, missed>> BY DEF history, account
  <2>7. pending' \subseteq 1..nextNew' - 1 OBVIOUS
  <2> QED BY <2>2, <2>3, <2>4, <2>5, <2>6, <2>7 DEF TypeOK
<1>2. BatchInv'
  <2>1. \A v \in Workers : batch'[v] = IF v = w THEN S ELSE batch[v] BY DEF TypeOK
  <2> QED BY <1>0, <2>1 DEF BatchInv
<1>3. PhaseInv'
  <2>1. \A v \in Workers : v # w => wpc'[v] = wpc[v] /\ batch'[v] = batch[v] BY DEF TypeOK
  <2>2. wpc'[w] = "flush" BY DEF TypeOK
  <2>3. UNCHANGED <<rows, flushes, unsynced, entered>> BY DEF history
  <2> QED BY <2>1, <2>2, <2>3 DEF PhaseInv
<1>4. UnsyncedInv'
  <2>1. unsynced[w] = {} BY DEF PhaseInv
  <2>2. \A v \in Workers : v # w => batch'[v] = batch[v] BY DEF TypeOK
  <2>3. \A v \in Workers : v # w => BatchDevices(batch[v])' = BatchDevices(batch[v])
    BY <2>2 DEF BatchDevices
  <2> QED BY <2>1, <2>3 DEF UnsyncedInv
<1> QED BY <1>1, <1>2, <1>3, <1>4

\* The worker forgets its batch, or only what it has in hand of it.
LEMMA ForgetType ==
  ASSUME TInv, NEW w \in Workers, NEW pc \in {"top", "publish"},
         wpc' = [wpc EXCEPT ![w] = pc],
         \/ pc = "top" /\ batch' = [batch EXCEPT ![w] = {}]
         \/ batch' = batch /\ batch[w] \subseteq rows /\ batch[w] \in flushes,
         unsynced' = [unsynced EXCEPT ![w] = {}], entered' = [entered EXCEPT ![w] = {}],
         UNCHANGED <<ping, nextNew, rows, presence, expiries, flushes, stays, told>>, pending' \subseteq pending,
         missed' \in [Devices -> [Zones -> Nat]]
  PROVE  TInv'
<1> USE BoundsAssumption, FS_EmptySet DEF TInv
<1>1. TypeOK'
  <2>1. flushes' \subseteq SUBSET rows' /\ rows' \subseteq 1..nextNew' - 1 BY DEF TypeOK
  <2>2. pending' \subseteq 1..nextNew' - 1 BY DEF TypeOK
  <2>3. wpc' \in [Workers -> {"top", "flush", "sync", "publish"}] BY DEF TypeOK
  <2>4. batch' \in [Workers -> SUBSET Entry] BY DEF TypeOK
  <2>5. unsynced' \in [Workers -> SUBSET Devices] BY DEF TypeOK
  <2>6. entered' \in [Workers -> SUBSET (Devices \X Zones)] BY DEF TypeOK
  <2> QED BY <2>1, <2>2, <2>3, <2>4, <2>5, <2>6 DEF TypeOK
<1>2. BatchInv'
  <2>1. \A v \in Workers : batch'[v] = batch[v] \/ batch'[v] = {} BY DEF TypeOK
  <2>2. Cardinality({}) <= ReadCount /\ nextNew' = nextNew OBVIOUS
  <2>3. ASSUME NEW v \in Workers
        PROVE  batch'[v] \subseteq 1..nextNew - 1 /\ Cardinality(batch'[v]) <= ReadCount
    BY <2>1, <2>2 DEF BatchInv
  <2> QED BY <2>2, <2>3 DEF BatchInv
<1>3. PhaseInv'
  <2>1. \A v \in Workers : v # w => /\ wpc'[v] = wpc[v] /\ batch'[v] = batch[v]
                                  /\ unsynced'[v] = unsynced[v] /\ entered'[v] = entered[v]
    BY DEF TypeOK
  <2>2. /\ wpc'[w] = pc /\ unsynced'[w] = {} /\ entered'[w] = {}
        /\ \/ pc = "top"
           \/ batch'[w] = batch[w] /\ batch[w] \subseteq rows /\ batch[w] \in flushes
    BY DEF TypeOK
  <2> QED BY <2>1, <2>2 DEF PhaseInv
<1>4. UnsyncedInv'
  <2>1. unsynced'[w] = {} BY DEF TypeOK
  <2>2. \A v \in Workers : v # w => /\ batch'[v] = batch[v] /\ unsynced'[v] = unsynced[v]
                                  /\ entered'[v] = entered[v]
    BY DEF TypeOK
  <2>3. \A v \in Workers : v # w => BatchDevices(batch[v])' = BatchDevices(batch[v])
    BY <2>2 DEF BatchDevices
  <2> QED BY <2>1, <2>2, <2>3 DEF UnsyncedInv
<1> QED BY <1>1, <1>2, <1>3, <1>4

\* The script leaves the current zones in the set.
LEMMA SyncPresence ==
  ASSUME NEW w \in Workers, NEW d \in Devices, Sync(w, d)
  PROVE  presence' = [presence EXCEPT ![d] = HitZones(batch[w], d)]
<1> DEFINE current == HitZones(batch[w], d)
<1>1. presence' = [presence EXCEPT ![d] = (presence[d] \ ZonesLeft(d, current)) \cup current]
  BY DEF Sync
<1>2. (presence[d] \ ZonesLeft(d, current)) \cup current = current BY DEF ZonesLeft
<1> QED BY <1>1, <1>2

LEMMA TypeStep == TInv /\ [Next]_vars => TInv'
<1> SUFFICES ASSUME TInv, [Next]_vars PROVE TInv'
  OBVIOUS
<1> USE BoundsAssumption DEF redisVars, workerVars, bounds, account, history
<1>1. ASSUME NEW w \in Workers, Read(w) PROVE TInv'
  <2> PICK newest \in nextNew..(nextNew + ReadCount - 1) \cap Entry :
             /\ TakeBatch(w, nextNew..newest)
             /\ pending' = pending \cup (nextNew..newest)
             /\ nextNew' = newest + 1
    BY <1>1 DEF Read
  <2>1. nextNew \in 1..NumPings + 1 /\ pending \subseteq 1..nextNew - 1 BY DEF TInv, TypeOK
  <2>2. /\ nextNew..newest \subseteq Entry /\ nextNew' \in 1..NumPings + 1 /\ nextNew <= nextNew'
        /\ nextNew..newest \subseteq 1..nextNew' - 1 /\ 1..nextNew - 1 \subseteq 1..nextNew' - 1
    BY <2>1 DEF Entry
  <2>3. Cardinality(nextNew..newest) <= ReadCount BY <2>1, FS_Interval DEF Entry
  <2> QED BY <1>1, <2>1, <2>2, <2>3, TakeBatchType DEF Read
<1>2. ASSUME NEW w \in Workers, Reclaim(w) PROVE TInv'
  <2> PICK S \in SUBSET pending : Cardinality(S) <= ReadCount /\ TakeBatch(w, S)
    BY <1>2 DEF Reclaim
  <2>1. /\ nextNew \in 1..NumPings + 1 /\ pending \subseteq 1..nextNew - 1
        /\ 1..nextNew - 1 \subseteq Entry
    BY DEF TInv, TypeOK, Entry
  <2>2. S \in SUBSET Entry /\ S \subseteq 1..nextNew - 1 BY <2>1
  <2>3. wpc[w] = "top" /\ UNCHANGED <<ping, nextNew, pending, rows, presence, unsynced, entered, expiries, history>>
    BY <1>2 DEF Reclaim
  <2>4. nextNew <= nextNew' BY <2>1, <2>3
  <2> QED BY <2>1, <2>2, <2>3, <2>4, TakeBatchType
<1>3. ASSUME NEW w \in Workers, Commit(w) PROVE TInv'
  <2>1. batch[w] \in SUBSET Entry /\ batch[w] \subseteq 1..nextNew - 1 /\ entered[w] = {}
    BY <1>3 DEF TInv, TypeOK, BatchInv, PhaseInv, Commit
  <2>2. BatchDevices(batch[w]) \in SUBSET Devices BY <2>1, BatchDevicesType DEF TInv
  <2>a. flushes' \subseteq SUBSET rows' BY <1>3 DEF TInv, TypeOK, Commit
  <2>3. TypeOK' BY <1>3, <2>1, <2>2, <2>a DEF TInv, TypeOK, Commit
  <2>4. BatchInv' BY <1>3 DEF TInv, BatchInv, Commit
  <2>5. PhaseInv' BY <1>3 DEF TInv, TypeOK, PhaseInv, Commit
  <2>6. UnsyncedInv'
    <3>1. \A v \in Workers : BatchDevices(batch[v])' = BatchDevices(batch[v])
      BY <1>3 DEF Commit, BatchDevices
    <3>2. \A v \in Workers : unsynced'[v] = IF v = w THEN BatchDevices(batch[w]) ELSE unsynced[v]
      BY <1>3 DEF TInv, TypeOK, Commit
    <3>3. entered' = entered BY <1>3 DEF Commit
    <3> QED BY <2>1, <3>1, <3>2, <3>3 DEF TInv, UnsyncedInv
  <2> QED BY <2>3, <2>4, <2>5, <2>6 DEF TInv
<1>4. ASSUME NEW w \in Workers, FlushFails(w) PROVE TInv'
  BY <1>4, ForgetType DEF FlushFails, Forget, TInv, TypeOK
<1>5. ASSUME NEW w \in Workers, NEW d \in Devices, Sync(w, d) PROVE TInv'
  <2> DEFINE current == HitZones(batch[w], d)
  <2>1. batch[w] \in SUBSET Entry /\ batch[w] \subseteq rows
    BY <1>5 DEF TInv, TypeOK, PhaseInv, Sync
  <2>2. current \in SUBSET Zones BY <2>1, HitZonesType DEF TInv
  <2>3. EnteredBy(d, current) \in SUBSET (Devices \X Zones) BY <2>2, EnteredByType
  <2>4. presence' = [presence EXCEPT ![d] = current]
        /\ entered' = [entered EXCEPT ![w] = entered[w] \cup EnteredBy(d, current)]
        /\ unsynced' = [unsynced EXCEPT ![w] = unsynced[w] \ {d}]
        /\ wpc[w] = "sync" /\ (wpc' = [wpc EXCEPT ![w] = "publish"] \/ wpc' = [wpc EXCEPT ![w] = "sync"])
        /\ UNCHANGED <<ping, nextNew, pending, rows, batch, expiries, flushes, told, missed>>
    BY <1>5, SyncPresence DEF Sync
  <2>5. stays' \in [Devices -> [Zones -> Nat]] BY <1>5, CountType DEF TInv, TypeOK, Sync
  <2> HIDE DEF current
  <2>6. TypeOK' BY <2>2, <2>3, <2>4, <2>5 DEF TInv, TypeOK
  <2>7. BatchInv' BY <2>4 DEF TInv, BatchInv
  <2>8. PhaseInv' BY <2>1, <2>4 DEF TInv, TypeOK, PhaseInv
  <2>9. UnsyncedInv'
    <3>1. \A v \in Workers : BatchDevices(batch[v])' = BatchDevices(batch[v])
      BY <2>4 DEF BatchDevices
    <3>2. \A x, z : <<x, z>> \in EnteredBy(d, current) => x = d BY <2>2, EnteredByType
    <3>3. \A v \in Workers : v # w => unsynced'[v] = unsynced[v] /\ entered'[v] = entered[v]
      BY <2>4 DEF TInv, TypeOK
    <3>4. unsynced'[w] = unsynced[w] \ {d} /\ entered'[w] = entered[w] \cup EnteredBy(d, current)
      BY <2>4 DEF TInv, TypeOK
    <3> QED BY <3>1, <3>2, <3>3, <3>4 DEF TInv, UnsyncedInv
  <2> QED BY <2>6, <2>7, <2>8, <2>9 DEF TInv
<1>6. ASSUME NEW w \in Workers, NEW u \in Users, Publish(w, u) PROVE TInv'
  <2> PICK P : told' = Count(told, P) /\ entered' = [entered EXCEPT ![w] = entered[w] \ P]
    BY <1>6 DEF Publish
  <2>1. /\ wpc[w] = "publish"
        /\ UNCHANGED <<ping, nextNew, pending, rows, presence, wpc, batch, unsynced, expiries, flushes>>
        /\ UNCHANGED <<stays, missed>>
    BY <1>6 DEF Publish
  <2>2. told' \in [Devices -> [Zones -> Nat]] BY CountType DEF TInv, TypeOK
  <2>3. TypeOK' BY <2>1, <2>2 DEF TInv, TypeOK
  <2>4. BatchInv' BY <2>1 DEF TInv, BatchInv
  <2>5. PhaseInv' BY <2>1 DEF TInv, TypeOK, PhaseInv
  <2>6. UnsyncedInv'
    <3>1. \A v \in Workers : BatchDevices(batch[v])' = BatchDevices(batch[v])
      BY <2>1 DEF BatchDevices
    <3>2. \A v \in Workers : entered'[v] \subseteq entered[v] BY DEF TInv, TypeOK
    <3> QED BY <2>1, <3>1, <3>2 DEF TInv, UnsyncedInv
  <2> QED BY <2>3, <2>4, <2>5, <2>6 DEF TInv
<1>7. ASSUME NEW w \in Workers, Ack(w) PROVE TInv'
  BY <1>7, ForgetType DEF Ack, Forget, TInv, TypeOK
<1>8. ASSUME NEW w \in Workers, AlertFails(w) PROVE TInv'
  <2>1. missed' \in [Devices -> [Zones -> Nat]] BY <1>8, CountType DEF TInv, TypeOK, AlertFails, GiveUp
  <2>2. batch[w] \subseteq rows /\ batch[w] \in flushes BY <1>8 DEF TInv, PhaseInv, AlertFails
  <2> QED BY <1>8, <2>1, <2>2, ForgetType DEF AlertFails
<1>9. ASSUME NEW w \in Workers, Crash(w) PROVE TInv'
  <2>1. missed' \in [Devices -> [Zones -> Nat]] BY <1>9, CountType DEF TInv, TypeOK, Crash, GiveUp
  <2> QED BY <1>9, <2>1, ForgetType DEF Crash, Forget
<1>10. ASSUME NEW d \in Devices, Expire(d) PROVE TInv'
  <2>1. TypeOK' BY <1>10 DEF TInv, TypeOK, Expire
  <2>2. BatchInv' /\ PhaseInv' BY <1>10 DEF TInv, BatchInv, PhaseInv, Expire
  <2>3. UnsyncedInv' BY <1>10 DEF TInv, UnsyncedInv, BatchDevices, Expire
  <2> QED BY <2>1, <2>2, <2>3 DEF TInv
<1>11. CASE UNCHANGED vars
  <2>1. TypeOK' BY <1>11 DEF TInv, TypeOK, vars
  <2>2. BatchInv' /\ PhaseInv' BY <1>11 DEF TInv, BatchInv, PhaseInv, vars
  <2>3. UnsyncedInv' BY <1>11 DEF TInv, UnsyncedInv, BatchDevices, vars
  <2> QED BY <2>1, <2>2, <2>3 DEF TInv
<1> QED BY <1>1, <1>2, <1>3, <1>4, <1>5, <1>6, <1>7, <1>8, <1>9, <1>10, <1>11 DEF Next

\* The steps that enter, publish or lose no entry.
Quiet == \/ \E w \in Workers : Read(w) \/ Reclaim(w) \/ Commit(w) \/ FlushFails(w) \/ Ack(w)
         \/ \E d \in Devices : Expire(d)
         \/ UNCHANGED vars

LEMMA QuietStep ==
  ASSUME TInv, Quiet
  PROVE  UNCHANGED <<ping, stays, told, missed, entered>> /\ rows \subseteq rows' /\ flushes \subseteq flushes'
<1> USE DEF redisVars, workerVars, bounds, account, history
<1>1. ASSUME NEW w \in Workers, entered[w] = {}, entered' = [entered EXCEPT ![w] = {}]
      PROVE  entered' = entered
  BY <1>1 DEF TInv, TypeOK
<1>2. ASSUME NEW w \in Workers, FlushFails(w) PROVE entered[w] = {}
  BY <1>2 DEF TInv, PhaseInv, FlushFails
<1>3. ASSUME NEW w \in Workers, Read(w) \/ Reclaim(w) \/ Commit(w)
      PROVE  UNCHANGED <<ping, stays, told, missed, entered>> /\ rows \subseteq rows' /\ flushes \subseteq flushes'
  BY <1>3 DEF Read, Reclaim, Commit
<1>4. ASSUME NEW w \in Workers, FlushFails(w) \/ Ack(w)
      PROVE  UNCHANGED <<ping, stays, told, missed, entered>> /\ rows \subseteq rows' /\ flushes \subseteq flushes'
  BY <1>1, <1>2, <1>4 DEF FlushFails, Ack, Forget
<1>5. ASSUME NEW d \in Devices, Expire(d)
      PROVE  UNCHANGED <<ping, stays, told, missed, entered>> /\ rows \subseteq rows' /\ flushes \subseteq flushes'
  BY <1>5 DEF Expire
<1>6. CASE UNCHANGED vars BY <1>6 DEF vars
<1> QED BY <1>3, <1>4, <1>5, <1>6 DEF Quiet

\* What the step of an alerting worker does to what it has in hand.
LEMMA LoudStep ==
  ASSUME [Next]_vars, ~Quiet
  PROVE  \E w \in Workers : \/ \E d \in Devices : Sync(w, d)
                            \/ \E u \in Users : Publish(w, u)
                            \/ AlertFails(w) \/ Crash(w)
  BY DEF Next, Quiet

-----------------------------------------------------------------------------
(* The accounts.                                                           *)

LEMMA AccountStep ==
  ASSUME TInv, EveryEntryAccountedFor, [Next]_vars
  PROVE  EveryEntryAccountedFor'
<1>a. /\ entered \in [Workers -> SUBSET (Devices \X Zones)] /\ stays \in [Devices -> [Zones -> Nat]]
      /\ told \in [Devices -> [Zones -> Nat]] /\ missed \in [Devices -> [Zones -> Nat]]
  BY DEF TInv, TypeOK
<1> SUFFICES ASSUME NEW d \in Devices, NEW z \in Zones
             PROVE  stays'[d][z] = told'[d][z] + missed'[d][z] + InHand(d, z)'
  BY DEF EveryEntryAccountedFor
<1>b. stays[d][z] = told[d][z] + missed[d][z] + InHand(d, z) BY DEF EveryEntryAccountedFor
<1>c. /\ stays[d][z] \in Nat /\ told[d][z] \in Nat /\ missed[d][z] \in Nat
      /\ InHand(d, z) \in Nat /\ InHand(d, z)' \in Nat
  <2>1. stays[d][z] \in Nat /\ told[d][z] \in Nat /\ missed[d][z] \in Nat BY <1>a
  <2> QED BY <2>1, InHandType
<1>1. CASE Quiet
  <2>1. UNCHANGED <<stays, told, missed, entered>> BY <1>1, QuietStep
  <2>2. InHand(d, z)' = InHand(d, z) BY <2>1 DEF InHand
  <2> QED BY <1>b, <2>1, <2>2
<1>2. ASSUME NEW w \in Workers, NEW x \in Devices, Sync(w, x)
      PROVE  stays'[d][z] = told'[d][z] + missed'[d][z] + InHand(d, z)'
  <2> DEFINE current == HitZones(batch[w], x)
             P == EnteredBy(x, current)
  <2>1. /\ entered' = [entered EXCEPT ![w] = entered[w] \cup P]
        /\ stays' = Count(stays, {x} \X (current \ presence[x]))
        /\ UNCHANGED <<told, missed>> /\ x \in unsynced[w]
    BY <1>2 DEF Sync
  <2>2. batch[w] \in SUBSET Entry BY DEF TInv, TypeOK
  <2>3. current \in SUBSET Zones BY <2>2, HitZonesType DEF TInv
  <2>4. {x} \X (current \ presence[x]) = P BY <2>3, EnteredByType
  <2>5. <<d, z>> \in P => <<d, z>> \notin entered[w] BY <2>1, <2>3, EnteredByType DEF TInv, UnsyncedInv
  <2> HIDE DEF P
  <2>6. InHand(d, z)' = InHand(d, z) + (IF <<d, z>> \in P THEN 1 ELSE 0)
    <3>1. \A v \in Workers : v # w => entered'[v] = entered[v] BY <1>a, <2>1
    <3>2. <<d, z>> \in entered'[w] <=> <<d, z>> \in entered[w] \/ <<d, z>> \in P BY <1>a, <2>1
    <3>3. InHand(d, z)' + (IF <<d, z>> \in entered[w] THEN 1 ELSE 0)
            = InHand(d, z) + (IF <<d, z>> \in entered'[w] THEN 1 ELSE 0)
      BY <3>1, InHandStep
    <3> QED BY <1>c, <2>5, <3>2, <3>3
  <2>7. stays'[d][z] = stays[d][z] + (IF <<d, z>> \in P THEN 1 ELSE 0) BY <1>a, <2>1, <2>4, CountType
  <2> QED BY <1>b, <1>c, <2>1, <2>6, <2>7
<1>3. ASSUME NEW w \in Workers, NEW u \in Users, Publish(w, u)
      PROVE  stays'[d][z] = told'[d][z] + missed'[d][z] + InHand(d, z)'
  <2> DEFINE P == {p \in entered[w] : Owner[p[2]] = u}
  <2>1. /\ entered' = [entered EXCEPT ![w] = entered[w] \ P] /\ told' = Count(told, P)
        /\ UNCHANGED <<stays, missed>> /\ P \in SUBSET entered[w]
    BY <1>3 DEF Publish, history
  <2> HIDE DEF P
  <2>2. InHand(d, z) = InHand(d, z)' + (IF <<d, z>> \in P THEN 1 ELSE 0)
    <3>1. \A v \in Workers : v # w => entered'[v] = entered[v] BY <1>a, <2>1
    <3>2. <<d, z>> \in entered'[w] <=> <<d, z>> \in entered[w] /\ <<d, z>> \notin P BY <1>a, <2>1
    <3>3. InHand(d, z)' + (IF <<d, z>> \in entered[w] THEN 1 ELSE 0)
            = InHand(d, z) + (IF <<d, z>> \in entered'[w] THEN 1 ELSE 0)
      BY <3>1, InHandStep
    <3>4. <<d, z>> \in P => <<d, z>> \in entered[w] BY <2>1
    <3> QED BY <1>c, <3>2, <3>3, <3>4
  <2>3. told'[d][z] = told[d][z] + (IF <<d, z>> \in P THEN 1 ELSE 0) BY <1>a, <2>1, CountType
  <2> QED BY <1>b, <1>c, <2>1, <2>2, <2>3
<1>4. ASSUME NEW w \in Workers, AlertFails(w) \/ Crash(w)
      PROVE  stays'[d][z] = told'[d][z] + missed'[d][z] + InHand(d, z)'
  <2> DEFINE P == entered[w]
  <2>1. /\ entered' = [entered EXCEPT ![w] = {}] /\ missed' = Count(missed, P)
        /\ UNCHANGED <<stays, told>>
    BY <1>4 DEF AlertFails, Crash, GiveUp, Forget
  <2>2. entered' = [entered EXCEPT ![w] = entered[w] \ P] /\ P \in SUBSET entered[w] BY <2>1
  <2>3. InHand(d, z) = InHand(d, z)' + (IF <<d, z>> \in P THEN 1 ELSE 0)
    <3>1. \A v \in Workers : v # w => entered'[v] = entered[v] BY <1>a, <2>2
    <3>2. <<d, z>> \in entered'[w] <=> <<d, z>> \in entered[w] /\ <<d, z>> \notin P BY <1>a, <2>2
    <3>3. InHand(d, z)' + (IF <<d, z>> \in entered[w] THEN 1 ELSE 0)
            = InHand(d, z) + (IF <<d, z>> \in entered'[w] THEN 1 ELSE 0)
      BY <3>1, InHandStep
    <3>4. <<d, z>> \in P => <<d, z>> \in entered[w] BY <2>2
    <3> QED BY <1>c, <3>2, <3>3, <3>4
  <2>4. missed'[d][z] = missed[d][z] + (IF <<d, z>> \in P THEN 1 ELSE 0) BY <1>a, <2>1, CountType
  <2> QED BY <1>b, <1>c, <2>1, <2>3, <2>4
<1> QED BY <1>1, <1>2, <1>3, <1>4, LoudStep

-----------------------------------------------------------------------------
(* Only true alerts, and presence as committed.                            *)

LEMMA TruthStep ==
  ASSUME TInv, EnteredInv, NoFalseAlert, [Next]_vars
  PROVE  EnteredInv' /\ NoFalseAlert'
<1>a. /\ entered \in [Workers -> SUBSET (Devices \X Zones)] /\ told \in [Devices -> [Zones -> Nat]]
  BY DEF TInv, TypeOK
<1>1. ping' = ping /\ rows \subseteq rows'
  <2>1. CASE Quiet BY <2>1, QuietStep
  <2>2. CASE ~Quiet BY <2>2, LoudStep DEF Sync, Publish, AlertFails, Crash
  <2> QED BY <2>1, <2>2
<1>2. \A d, z : WasInside(d, z) => WasInside(d, z)' BY <1>1 DEF WasInside
<1>3. ASSUME NEW w \in Workers, NEW x \in Devices, Sync(w, x) PROVE EnteredInv' /\ told' = told
  <2> DEFINE current == HitZones(batch[w], x)
             P == EnteredBy(x, current)
  <2>1. entered' = [entered EXCEPT ![w] = entered[w] \cup P] /\ told' = told BY <1>3 DEF Sync
  <2>2. batch[w] \in SUBSET Entry /\ batch[w] \subseteq rows BY <1>3 DEF TInv, TypeOK, PhaseInv, Sync
  <2>3. current \in SUBSET Zones /\ \A z \in current : WasInside(x, z)
    BY <2>2, HitZonesType DEF TInv, WasInside
  <2>4. \A d, z : <<d, z>> \in P => WasInside(d, z) BY <2>3, EnteredByType
  <2> HIDE DEF P
  <2>5. \A v \in Workers : \A d, z : <<d, z>> \in entered'[v] => <<d, z>> \in entered[v] \/ <<d, z>> \in P
    BY <1>a, <2>1
  <2>6. EnteredInv' BY <1>2, <2>4, <2>5 DEF EnteredInv
  <2> QED BY <2>1, <2>6
<1>4. (\A w \in Workers : entered'[w] \subseteq entered[w]) => EnteredInv' BY <1>2 DEF EnteredInv
<1>5. told' = told => NoFalseAlert' BY <1>2 DEF NoFalseAlert, WasInside
<1>6. ASSUME NEW w \in Workers, NEW u \in Users, Publish(w, u) PROVE EnteredInv' /\ NoFalseAlert'
  <2> DEFINE P == {p \in entered[w] : Owner[p[2]] = u}
  <2>1. /\ entered' = [entered EXCEPT ![w] = entered[w] \ P] /\ told' = Count(told, P)
        /\ P \in SUBSET entered[w]
    BY <1>6 DEF Publish
  <2> HIDE DEF P
  <2>2. EnteredInv' BY <1>4, <1>a, <2>1
  <2>3. ASSUME NEW d \in Devices, NEW z \in Zones, told'[d][z] > 0 PROVE WasInside(d, z)'
    <3>1. told'[d][z] = told[d][z] + (IF <<d, z>> \in P THEN 1 ELSE 0) BY <1>a, <2>1, CountType
    <3>2. CASE <<d, z>> \in P BY <1>2, <2>1, <3>2 DEF EnteredInv
    <3>3. CASE <<d, z>> \notin P
      <4>1. told[d][z] > 0 BY <1>a, <2>3, <3>1, <3>3
      <4> QED BY <1>2, <4>1 DEF NoFalseAlert, WasInside
    <3> QED BY <3>2, <3>3
  <2> QED BY <2>2, <2>3 DEF NoFalseAlert, WasInside
<1>7. ASSUME NEW w \in Workers, AlertFails(w) \/ Crash(w) PROVE EnteredInv' /\ told' = told
  <2>1. entered' = [entered EXCEPT ![w] = {}] /\ told' = told BY <1>7 DEF AlertFails, Crash, Forget
  <2> QED BY <1>4, <1>a, <2>1
<1>8. CASE Quiet
  <2>1. entered' = entered /\ told' = told BY <1>8, QuietStep
  <2> QED BY <1>4, <1>5, <2>1
<1> QED BY <1>3, <1>5, <1>6, <1>7, <1>8, LoudStep

LEMMA PresenceStep ==
  ASSUME TInv, PresenceIsOfOneBatch, [Next]_vars
  PROVE  PresenceIsOfOneBatch'
<1> USE DEF redisVars, workerVars, bounds, account, history
<1> SUFFICES ASSUME NEW d \in Devices
             PROVE  \/ \E S \in flushes' : d \in BatchDevices(S)' /\ presence'[d] = HitZones(S, d)'
                    \/ presence'[d] = {} /\ (expiries'[d] > 0 \/ \A z \in Zones : stays'[d][z] = 0)
  BY DEF PresenceIsOfOneBatch
<1>0. /\ presence \in [Devices -> SUBSET Zones] /\ expiries \in [Devices -> Nat]
      /\ stays \in [Devices -> [Zones -> Nat]]
  BY BoundsAssumption DEF TInv, TypeOK
<1>1. ping' = ping /\ flushes \subseteq flushes'
  <2>1. CASE Quiet BY <2>1, QuietStep
  <2>2. CASE ~Quiet BY <2>2, LoudStep DEF Sync, Publish, AlertFails, Crash
  <2> QED BY <2>1, <2>2
<1>2. \A S : HitZones(S, d)' = HitZones(S, d) /\ BatchDevices(S)' = BatchDevices(S)
  BY <1>1 DEF HitZones, BatchDevices
<1>3. CASE presence'[d] = presence[d] /\ expiries'[d] = expiries[d] /\ stays'[d] = stays[d]
  <2>1. CASE \E S \in flushes : d \in BatchDevices(S) /\ presence[d] = HitZones(S, d)
    BY <1>1, <1>2, <1>3, <2>1
  <2>2. CASE presence[d] = {} /\ (expiries[d] > 0 \/ \A z \in Zones : stays[d][z] = 0)
    BY <1>3, <2>2
  <2> QED BY <2>1, <2>2 DEF PresenceIsOfOneBatch
<1>4. CASE \E w \in Workers : Sync(w, d)
  <2> PICK w \in Workers : Sync(w, d) BY <1>4
  <2>1. presence'[d] = HitZones(batch[w], d) BY <1>0, SyncPresence
  <2>2. batch[w] \in flushes /\ d \in BatchDevices(batch[w])
    BY DEF TInv, PhaseInv, UnsyncedInv, Sync
  <2> QED BY <1>1, <1>2, <2>1, <2>2
<1>5. CASE Expire(d)
  <2>1. presence'[d] = {} /\ expiries'[d] = expiries[d] + 1 BY <1>0, <1>5 DEF Expire
  <2> QED BY <1>0, <2>1
<1>6. \/ presence'[d] = presence[d] /\ expiries'[d] = expiries[d] /\ stays'[d] = stays[d]
      \/ Expire(d) \/ \E w \in Workers : Sync(w, d)
  <2>1. CASE Quiet
    <3>1. stays' = stays BY <2>1, QuietStep
    <3>2. ASSUME NEW x \in Devices, Expire(x), x # d
          PROVE  presence'[d] = presence[d] /\ expiries'[d] = expiries[d]
      BY <1>0, <3>2 DEF Expire
    <3> QED BY <2>1, <3>1, <3>2 DEF Quiet, Read, Reclaim, Commit, FlushFails, Ack, vars
  <2>2. CASE ~Quiet
    <3>1. ASSUME NEW w \in Workers, NEW x \in Devices, Sync(w, x), x # d
          PROVE  presence'[d] = presence[d] /\ expiries'[d] = expiries[d] /\ stays'[d] = stays[d]
      <4> DEFINE P == {x} \X (HitZones(batch[w], x) \ presence[x])
      <4>1. presence'[d] = presence[d] /\ expiries' = expiries BY <1>0, <3>1, SyncPresence DEF Sync
      <4>2. stays' = Count(stays, P) BY <3>1 DEF Sync
      <4>3. \A z : <<d, z>> \notin P BY <3>1
      <4> HIDE DEF P
      <4>4. stays'[d] = [z \in Zones |-> stays[d][z] + 0] BY <4>2, <4>3 DEF Count
      <4>5. \A z \in Zones : stays[d][z] + 0 = stays[d][z] BY <1>0
      <4>6. stays[d] = [z \in Zones |-> stays[d][z]] BY <1>0
      <4>7. stays'[d] = stays[d] BY <4>4, <4>5, <4>6
      <4> QED BY <4>1, <4>7
    <3> QED BY <2>2, <3>1, LoudStep DEF Publish, AlertFails, Crash
  <2> QED BY <2>1, <2>2
<1> QED BY <1>3, <1>4, <1>5, <1>6

-----------------------------------------------------------------------------
(* A device that is parked in a zone enters it once.                       *)

LEMMA StaysStep ==
  ASSUME TInv, StaysInv, [Next]_vars
  PROVE  StaysInv'
<1> USE DEF redisVars, workerVars, bounds, account, history
<1>a. stays \in [Devices -> [Zones -> Nat]] /\ presence \in [Devices -> SUBSET Zones] /\ expiries \in [Devices -> Nat]
  BY BoundsAssumption DEF TInv, TypeOK
<1>b. \A d \in Devices, z \in Zones :
          Parked(d, z) => stays[d][z] <= expiries[d] + (IF z \in presence[d] THEN 1 ELSE 0)
  BY DEF StaysInv
<1>1. ASSUME NEW w \in Workers, NEW x \in Devices, Sync(w, x) PROVE StaysInv'
  <2> DEFINE current == HitZones(batch[w], x)
  <2>1. /\ presence' = [presence EXCEPT ![x] = current]
        /\ stays' = Count(stays, {x} \X (current \ presence[x]))
        /\ UNCHANGED <<ping, expiries>> /\ x \in unsynced[w]
    BY <1>1, SyncPresence DEF Sync
  <2>2. batch[w] \in SUBSET Entry /\ x \in BatchDevices(batch[w]) BY <2>1 DEF TInv, TypeOK, UnsyncedInv
  <2>3. PICK e \in batch[w] : ping[e].device = x BY <2>2 DEF BatchDevices
  <2>4. \A z : Parked(x, z) => z \in current BY <2>2, <2>3, HitZonesType DEF TInv, Parked
  <2>5. \A d \in Devices, z \in Zones :
            stays'[d][z] = stays[d][z] + (IF <<d, z>> \in {x} \X (current \ presence[x]) THEN 1 ELSE 0)
    <3> DEFINE P == {x} \X (current \ presence[x])
    <3>1. stays' = Count(stays, P) BY <2>1
    <3> HIDE DEF P
    <3>2. ASSUME NEW d \in Devices, NEW z \in Zones
          PROVE  stays'[d][z] = stays[d][z] + (IF <<d, z>> \in P THEN 1 ELSE 0)
      BY <1>a, <3>1, CountType
    <3> QED BY <3>2 DEF P
  <2> HIDE DEF current
  <2> SUFFICES ASSUME NEW d \in Devices, NEW z \in Zones, Parked(d, z)
               PROVE  stays'[d][z] <= expiries[d] + (IF z \in presence'[d] THEN 1 ELSE 0)
    BY <1>a, <2>1 DEF StaysInv, Parked
  <2>6. stays[d][z] \in Nat /\ stays[d][z] <= expiries[d] + (IF z \in presence[d] THEN 1 ELSE 0) BY <1>a, <1>b
  <2>7. CASE d # x
    <3>1. <<d, z>> \notin {x} \X (current \ presence[x]) BY <2>7
    <3>2. stays'[d][z] = stays[d][z] BY <2>5, <2>6, <3>1
    <3>3. presence'[d] = presence[d] BY <1>a, <2>1, <2>7
    <3> QED BY <2>6, <3>2, <3>3
  <2>8. CASE d = x
    <3>1. z \in presence'[d] BY <1>a, <2>1, <2>4, <2>8
    <3>2. stays'[d][z] = stays[d][z] + (IF z \in presence[d] THEN 0 ELSE 1) BY <2>4, <2>5, <2>8
    <3> QED BY <1>a, <2>6, <3>1, <3>2
  <2> QED BY <2>7, <2>8
<1>2. ASSUME NEW x \in Devices, Expire(x) PROVE StaysInv'
  <2>1. /\ presence' = [presence EXCEPT ![x] = {}] /\ expiries' = [expiries EXCEPT ![x] = expiries[x] + 1]
        /\ UNCHANGED <<ping, stays>>
    BY <1>2 DEF Expire
  <2> SUFFICES ASSUME NEW d \in Devices, NEW z \in Zones, Parked(d, z)
               PROVE  stays[d][z] <= expiries'[d] + (IF z \in presence'[d] THEN 1 ELSE 0)
    BY <1>a, <2>1 DEF StaysInv, Parked
  <2>2. stays[d][z] \in Nat /\ stays[d][z] <= expiries[d] + (IF z \in presence[d] THEN 1 ELSE 0) BY <1>a, <1>b
  <2>3. CASE d = x
    <3>1. expiries'[d] = expiries[d] + 1 BY <1>a, <2>1, <2>3
    <3> QED BY <1>a, <2>2, <3>1
  <2>4. CASE d # x BY <1>a, <2>1, <2>2, <2>4
  <2> QED BY <2>3, <2>4
<1>3. CASE UNCHANGED <<ping, stays, presence, expiries>>
  BY <1>3 DEF StaysInv, Parked
<1>4. CASE Quiet
  <2>1. ping' = ping /\ stays' = stays BY <1>4, QuietStep
  <2> QED BY <1>2, <1>3, <1>4, <2>1 DEF Quiet, Read, Reclaim, Commit, FlushFails, Ack, vars
<1> QED BY <1>1, <1>3, <1>4, LoudStep DEF Publish, AlertFails, Crash

-----------------------------------------------------------------------------
(* The theorems.                                                           *)

LEMMA Initial == Init => IInv
<1> SUFFICES ASSUME Init PROVE IInv
  OBVIOUS
<1> USE BoundsAssumption DEF Init
<1>1. Never \in [Devices -> [Zones -> Nat]] /\ \A d \in Devices, z \in Zones : Never[d][z] = 0
  BY DEF Never
<1>2. TypeOK BY <1>1 DEF TypeOK
<1>3. BatchInv BY FS_EmptySet DEF BatchInv
<1>4. PhaseInv /\ UnsyncedInv /\ EnteredInv BY DEF PhaseInv, UnsyncedInv, EnteredInv
<1>5. NoFalseAlert /\ StaysInv BY <1>1 DEF NoFalseAlert, StaysInv
<1>6. PresenceIsOfOneBatch BY <1>1 DEF PresenceIsOfOneBatch
<1>7. EveryEntryAccountedFor
  <2>1. \A d, z : {w \in Workers : <<d, z>> \in entered[w]} = {} OBVIOUS
  <2>2. \A d, z : InHand(d, z) = 0 BY <2>1, FS_EmptySet DEF InHand
  <2> QED BY <1>1, <2>2 DEF EveryEntryAccountedFor
<1> QED BY <1>2, <1>3, <1>4, <1>5, <1>6, <1>7 DEF IInv

LEMMA Inductive == IInv /\ [Next]_vars => IInv'
  BY TypeStep, AccountStep, TruthStep, PresenceStep, StaysStep DEF IInv, TInv

\* What a worker has in hand is of its batch, commits come before alerts, and
\* only delivered entries are pending or committed.
THEOREM TypeCorrect == Spec => []TypeOK
<1>1. IInv => TypeOK BY DEF IInv
<1> QED BY Initial, Inductive, <1>1, PTL DEF Spec

\* Every gain of a presence set is one alert, published, in hand or given up.
THEOREM EntriesAccountedFor == Spec => []EveryEntryAccountedFor
<1>1. IInv => EveryEntryAccountedFor BY DEF IInv
<1> QED BY Initial, Inductive, <1>1, PTL DEF Spec

\* Alerts are about committed pings inside the zone.
THEOREM AlertsAreTrue == Spec => []NoFalseAlert
<1>1. IInv => NoFalseAlert BY DEF IInv
<1> QED BY Initial, Inductive, <1>1, PTL DEF Spec

\* What presence remembers of a device is what one committed batch with pings
\* of it matched, whatever batches two workers sync in whatever order: empty
\* otherwise only before it has entered a zone, or after its key has expired.
THEOREM PresenceOfOneBatch == Spec => []PresenceIsOfOneBatch
<1>1. IInv => PresenceIsOfOneBatch BY DEF IInv
<1> QED BY Initial, Inductive, <1>1, PTL DEF Spec

\* A device parked in a zone alerts once, and once more per expiry of its own
\* presence key, whatever is redelivered to whom and whatever other devices do.
THEOREM ParkedDevicesAlertOnce == Spec => []ParkedAlertsOnce
<1>1. ASSUME IInv, NEW d \in Devices, NEW z \in Zones, Parked(d, z) PROVE told[d][z] <= 1 + expiries[d]
  <2>1. stays[d][z] \in Nat /\ told[d][z] \in Nat /\ missed[d][z] \in Nat /\ InHand(d, z) \in Nat
    BY <1>1, InHandType DEF IInv, TypeOK
  <2>2. stays[d][z] = told[d][z] + missed[d][z] + InHand(d, z)
    BY <1>1 DEF IInv, EveryEntryAccountedFor
  <2>3. expiries[d] \in Nat /\ stays[d][z] <= expiries[d] + (IF z \in presence[d] THEN 1 ELSE 0)
    BY <1>1, BoundsAssumption DEF IInv, TypeOK, StaysInv
  <2> QED BY <2>1, <2>2, <2>3
<1>2. IInv => ParkedAlertsOnce BY <1>1 DEF ParkedAlertsOnce, Parked
<1> QED BY Initial, Inductive, <1>2, PTL DEF Spec
=============================================================================
