-------------------------- MODULE PositionsProofs ---------------------------
(***************************************************************************)
(* Proofs about the position snapshots, for any workers, devices, entries, *)
(* read size and numbers of redeliveries and faults.                       *)
(***************************************************************************)
EXTENDS Positions, WellFoundedInduction, TLAPS

-----------------------------------------------------------------------------
(* The inductive invariant.                                                *)

\* What is delivered is an entry below nextNew.
DeliveredOnly == \A w \in Workers : batch[w] \subseteq 1..nextNew - 1

\* A snapshot is either kept or being published.
OneSnapshot ==
    \A w \in Workers : IF wpc[w] = "publish" THEN positions[w] = Nowhere ELSE sending[w] = Nowhere

\* Entries that worker w may still show: those of the flush before its commit,
\* and those of its snapshots.
Flushing(w, e) == wpc[w] = "flush" /\ e \in batch[w]
Snapshot(w, d, e) == e # 0 /\ (positions[w][d] = e \/ sending[w][d] = e)
Holds(w, e) == Flushing(w, e) \/ \E d \in Devices : Snapshot(w, d, e)

\* An entry that was never redelivered is held by one worker.
OneHolder ==
    \A e \in Entry \ redelivered, v, w \in Workers : Holds(v, e) /\ Holds(w, e) => v = w

\* It is newer than what its worker has shown of the device, if nobody else has
\* since then.
NewerThanShown(w, d, e) == lastBy[d] = {w} => shown[d] < e

FlushIsNew ==
    \A w \in Workers, e \in Entry \ redelivered :
        Flushing(w, e) => e \notin rows /\ NewerThanShown(w, Device[e], e)

SnapshotIsNew ==
    \A w \in Workers, d \in Devices, e \in Entry \ redelivered :
        Snapshot(w, d, e) => e \notin everShown /\ NewerThanShown(w, d, e)

IInv ==
    /\ TypeOK /\ DeliveredOnly /\ OneSnapshot /\ NothingForgotten
    /\ OneHolder /\ FlushIsNew /\ SnapshotIsNew

-----------------------------------------------------------------------------
(* Lemmas about the helpers.                                               *)

\* A set of entries has a newest one.
LEMMA NewestExists ==
  ASSUME NEW S \in SUBSET Entry, S # {}
  PROVE  \E e \in S : \A x \in S : x <= e
<1> DEFINE T == {n \in Nat : \E e \in S : n = NumPings - e}
<1>0. NumPings \in Nat /\ \A e \in S : e \in Nat /\ NumPings - e \in Nat /\ e <= NumPings
  BY BoundsAssumption DEF Entry
<1>1. T \subseteq Nat /\ T # {} BY <1>0
<1> HIDE DEF T
<1>2. PICK n \in T : \A y \in T : ~(<<y, n>> \in OpToRel(<, Nat))
  BY <1>1, NatLessThanWellFounded, WFMin
<1>3. \A y \in T : ~(y < n) BY <1>1, <1>2 DEF OpToRel
<1>4. PICK e \in S : n = NumPings - e BY DEF T
<1>5. ASSUME NEW x \in S PROVE x <= e
  <2>1. NumPings - x \in T BY <1>0 DEF T
  <2>2. ~(NumPings - x < NumPings - e) BY <1>3, <1>4, <2>1
  <2> QED BY <1>0, <2>2
<1> QED BY <1>5

LEMMA LastOfIsNewest ==
  ASSUME NEW S \in SUBSET Entry, NEW d \in Devices
  PROVE  \/ LastOf(S, d) = 0 /\ \A e \in S : Device[e] # d
         \/ /\ LastOf(S, d) \in S /\ Device[LastOf(S, d)] = d /\ LastOf(S, d) # 0
            /\ \A e \in S : Device[e] = d => e <= LastOf(S, d)
<1> DEFINE mine == {e \in S : Device[e] = d}
<1>1. CASE mine = {} BY <1>1 DEF LastOf
<1>2. CASE mine # {}
  <2>1. \E e \in mine : \A x \in mine : x <= e BY <1>2, NewestExists
  <2>2. LastOf(S, d) = CHOOSE e \in mine : \A x \in mine : x <= e BY <1>2 DEF LastOf
  <2>3. LastOf(S, d) \in mine /\ \A x \in mine : x <= LastOf(S, d) BY <2>1, <2>2
  <2>4. \A e \in S : e # 0 BY DEF Entry
  <2> QED BY <2>3, <2>4
<1> QED BY <1>1, <1>2

-----------------------------------------------------------------------------
(* Type correctness.                                                       *)

TInv == TypeOK /\ DeliveredOnly

LEMMA NowhereType == Nowhere \in Known /\ \A d \in Devices : Nowhere[d] = 0
  BY DEF Nowhere, Known

LEMMA KnownGrows == \A f : rows \subseteq rows' /\ f \in Known => f \in Known'
  BY DEF Known

LEMMA UpdatedType ==
  ASSUME NEW f \in Known, NEW S \in SUBSET Entry, S \subseteq rows', rows \subseteq rows'
  PROVE  Updated(f, S) \in Known'
<1>1. ASSUME NEW d \in Devices
      PROVE  (IF LastOf(S, d) = 0 THEN f[d] ELSE LastOf(S, d)) \in {0} \cup rows'
  BY LastOfIsNewest DEF Known
<1> QED BY <1>1 DEF Updated, Known

\* A batch handed out is of delivered entries.
LEMMA HandOutType ==
  ASSUME TInv, NEW w \in Workers, NEW pc \in {"read", "broadcast", "drain"},
         HandOutNew(w, pc) \/ HandOutAgain(w, pc)
  PROVE  TInv'
<1> USE BoundsAssumption DEF TInv, TypeOK, StartFlush, Goto, flushVars, mapVars, streamVars
<1>1. ASSUME NEW newest \in nextNew..(nextNew + ReadCount - 1) \cap Entry, nextNew' = newest + 1
      PROVE  /\ nextNew..newest \subseteq Entry /\ nextNew' \in 1..NumPings + 1
             /\ nextNew..newest \subseteq 1..nextNew' - 1 /\ 1..nextNew - 1 \subseteq 1..nextNew' - 1
  BY <1>1 DEF Entry
<1>2. CASE HandOutNew(w, pc)
  <2> PICK newest \in nextNew..(nextNew + ReadCount - 1) \cap Entry :
             /\ StartFlush(w, nextNew..newest, pc)
             /\ pending' = pending \cup (nextNew..newest)
             /\ nextNew' = newest + 1
    BY <1>2 DEF HandOutNew
  <2>1. UNCHANGED <<rows, positions, sending, shown, lastBy, everShown, reclaims, faults, owed, redelivered>>
    BY <1>2 DEF HandOutNew
  <2>2. Known' = Known BY <2>1 DEF Known
  <2>3. TypeOK' BY <1>1, <2>1, <2>2
  <2>4. DeliveredOnly' BY <1>1 DEF DeliveredOnly
  <2> QED BY <2>3, <2>4
<1>3. CASE HandOutAgain(w, pc)
  <2> PICK S \in SUBSET pending : StartFlush(w, S, pc) /\ redelivered' = redelivered \cup S
    BY <1>3 DEF HandOutAgain
  <2>1. UNCHANGED <<nextNew, pending, rows, positions, sending, shown, lastBy, everShown, faults, owed>>
        /\ reclaims' \in 0..MaxReclaims
    BY <1>3 DEF HandOutAgain
  <2>2. Known' = Known BY <2>1 DEF Known
  <2>3. S \subseteq 1..nextNew - 1 /\ 1..nextNew - 1 \subseteq Entry BY DEF Entry
  <2>4. TypeOK' BY <2>1, <2>2, <2>3
  <2>5. DeliveredOnly' BY <2>1, <2>3 DEF DeliveredOnly
  <2> QED BY <2>4, <2>5
<1> QED BY <1>2, <1>3

LEMMA GiveUpType ==
  ASSUME TypeOK, NEW w \in Workers, NEW f, GiveUp(w, f), rows' = rows
  PROVE  owed' \in [Workers -> Known']
<1>1. ASSUME NEW d \in Devices
      PROVE  (IF owed[w][d] = f[d] THEN 0 ELSE owed[w][d]) \in {0} \cup rows
  BY DEF TypeOK, Known
<1> QED BY <1>1 DEF GiveUp, TypeOK, Known

LEMMA TypeStep == TInv /\ [Next]_vars => TInv'
<1> SUFFICES ASSUME TInv, [Next]_vars PROVE TInv'
  OBVIOUS
<1> USE DEF TInv, TypeOK, DeliveredOnly, Goto, Leave, flushVars, mapVars, streamVars
<1> DEFINE Flow == {"top", "read", "flush", "ack", "broadcast", "publish", "drain", "stopped"}
           Back == {"top", "read", "broadcast", "drain"}
<1>a. /\ NumPings \in Nat /\ MaxReclaims \in Nat /\ MaxFaults \in Nat
      /\ nextNew \in 1..NumPings + 1 /\ 1..nextNew - 1 \in SUBSET Entry
  BY BoundsAssumption DEF Entry
<1>b. rows' = rows => Known' = Known BY DEF Known
\* The worker's place and its batch are within their types.
<1>c. ASSUME nextNew' = nextNew, pending' \subseteq pending, rows' = rows, wpc' \in [Workers -> Flow],
             resume' \in [Workers -> Back], \/ batch' = batch
                                            \/ \E w \in Workers : batch' = [batch EXCEPT ![w] = {}],
             positions' \in [Workers -> Known], sending' \in [Workers -> Known], shown' \in Known,
             reclaims' = reclaims, faults' = faults \/ Fault, owed' \in [Workers -> Known],
             lastBy' \in [Devices -> SUBSET Workers], everShown' \subseteq rows, redelivered' = redelivered
      PROVE  TInv'
  <2>1. faults' \in 0..MaxFaults BY <1>a, <1>c DEF Fault
  <2>2. batch' \in [Workers -> SUBSET Entry] /\ \A v \in Workers : batch'[v] \subseteq 1..nextNew - 1
    BY <1>c
  <2> QED BY <1>b, <1>c, <2>1, <2>2
<1>1. ASSUME NEW w \in Workers, Claim(w) \/ DrainPending(w) \/ Read(w) \/ DrainNew(w) PROVE TInv'
  BY <1>1, HandOutType DEF Claim, DrainPending, Read, DrainNew
<1>2. ASSUME NEW w \in Workers, ReadNothing(w) \/ NotDue(w) \/ Restart(w) PROVE TInv'
  BY <1>2, <1>c DEF ReadNothing, NotDue, Restart
<1>3. ASSUME NEW w \in Workers, ReadFails(w) PROVE TInv'
  BY <1>3, <1>c DEF ReadFails
<1>4. ASSUME NEW w \in Workers, Commit(w) PROVE TInv'
  <2>1. /\ batch[w] \in SUBSET Entry /\ rows \subseteq rows' /\ batch[w] \subseteq rows'
        /\ rows' \subseteq 1..nextNew - 1
    BY <1>4 DEF Commit
  <2>2. Updated(positions[w], batch[w]) \in Known' BY <2>1, UpdatedType
  <2>3. positions' \in [Workers -> Known'] BY <1>4, <2>1, <2>2, KnownGrows DEF Commit
  <2>4. ASSUME NEW d \in Devices
        PROVE  (IF LastOf(batch[w], d) = 0 THEN owed[w][d] ELSE LastOf(batch[w], d)) \in {0} \cup rows'
    <3>1. owed[w][d] \in {0} \cup rows BY DEF Known
    <3>2. LastOf(batch[w], d) \in {0} \cup batch[w] BY <2>1, LastOfIsNewest
    <3> QED BY <2>1, <3>1, <3>2
  <2>5. [d \in Devices |-> IF LastOf(batch[w], d) = 0 THEN owed[w][d] ELSE LastOf(batch[w], d)] \in Known'
    BY <2>4 DEF Known
  <2>6. owed' \in [Workers -> Known'] BY <1>4, <2>1, <2>5, KnownGrows DEF Commit
  <2>7. sending' \in [Workers -> Known'] /\ shown' \in Known' BY <1>4, <2>1, KnownGrows DEF Commit
  <2>8. UNCHANGED <<nextNew, pending, resume, batch, reclaims, faults, lastBy, everShown, redelivered>>
        /\ wpc' = [wpc EXCEPT ![w] = "ack"]
    BY <1>4 DEF Commit
  <2> QED BY <2>1, <2>3, <2>6, <2>7, <2>8
<1>5. ASSUME NEW w \in Workers, FlushFails(w) PROVE TInv'
  <2>1. resume[w] # "drain" => resume[w] \in Flow OBVIOUS
  <2> QED BY <1>5, <1>c, <2>1 DEF FlushFails
<1>6. ASSUME NEW w \in Workers, CommitLost(w) PROVE TInv'
  <2>1. rows \subseteq rows' /\ rows' \subseteq 1..nextNew - 1 /\ everShown \subseteq rows'
    BY <1>6 DEF CommitLost
  <2>2. UNCHANGED <<nextNew, pending, positions, sending, shown, lastBy, everShown, reclaims, owed, redelivered>>
    BY <1>6 DEF CommitLost
  <2>3. faults' \in 0..MaxFaults BY <1>6, <1>a DEF CommitLost, Fault
  <2>4. /\ positions' \in [Workers -> Known'] /\ sending' \in [Workers -> Known']
        /\ shown' \in Known' /\ owed' \in [Workers -> Known']
    BY <2>1, <2>2, KnownGrows
  <2>5. /\ wpc' \in [Workers -> Flow] /\ resume' \in [Workers -> Back]
        /\ batch' \in [Workers -> SUBSET Entry] /\ \A v \in Workers : batch'[v] \subseteq 1..nextNew - 1
    BY <1>6 DEF CommitLost
  <2> QED BY <2>1, <2>2, <2>3, <2>4, <2>5
<1>7. ASSUME NEW w \in Workers, Ack(w) PROVE TInv'
  <2>1. resume[w] \in Flow OBVIOUS
  <2> QED BY <1>7, <1>c, <2>1 DEF Ack
<1>8. ASSUME NEW w \in Workers, AckFails(w) PROVE TInv'
  BY <1>8, <1>c DEF AckFails, AfterError
<1>9. ASSUME NEW w \in Workers, Broadcast(w) PROVE TInv'
  <2>1. sending' \in [Workers -> Known] /\ positions' \in [Workers -> Known]
    BY <1>9, NowhereType DEF Broadcast
  <2> QED BY <1>9, <1>c, <2>1 DEF Broadcast
<1>10. ASSUME NEW w \in Workers, Publish(w) PROVE TInv'
  <2>1. owed' \in [Workers -> Known] BY <1>10, <1>b, GiveUpType DEF Publish
  <2>2. sending[w] \in Known OBVIOUS
  <2>3. shown' \in Known /\ lastBy' \in [Devices -> SUBSET Workers] /\ everShown' \subseteq rows
    BY <1>10, <2>2 DEF Publish, Known
  <2>4. sending' \in [Workers -> Known] BY <1>10, NowhereType DEF Publish
  <2>5. UNCHANGED <<nextNew, pending, rows, resume, batch, positions, reclaims, faults, redelivered>>
        /\ wpc' = [wpc EXCEPT ![w] = "top"]
    BY <1>10 DEF Publish
  <2> QED BY <1>c, <2>1, <2>3, <2>4, <2>5
<1>11. ASSUME NEW w \in Workers, PublishFails(w) PROVE TInv'
  <2>1. owed' \in [Workers -> Known] BY <1>11, <1>b, GiveUpType DEF PublishFails
  <2>2. sending' \in [Workers -> Known] BY <1>11, NowhereType DEF PublishFails
  <2> QED BY <1>11, <1>c, <2>1, <2>2 DEF PublishFails
<1>12. ASSUME NEW w \in Workers, Cancel(w) PROVE TInv'
  <2>1. owed' \in [Workers -> Known] BY <1>12, <1>b, GiveUpType DEF Cancel
  <2>2. sending' \in [Workers -> Known] BY <1>12, NowhereType DEF Cancel
  <2> QED BY <1>12, <1>c, <2>1, <2>2 DEF Cancel
<1>13. ASSUME NEW w \in Workers, DrainEnds(w) PROVE TInv'
  BY <1>13, <1>c DEF DrainEnds
<1>14. ASSUME NEW w \in Workers, Crash(w) PROVE TInv'
  <2>1. /\ positions' \in [Workers -> Known] /\ sending' \in [Workers -> Known]
        /\ owed' \in [Workers -> Known]
    BY <1>14, NowhereType DEF Crash
  <2> QED BY <1>14, <1>c, <2>1 DEF Crash
<1>15. CASE UNCHANGED vars
  BY <1>15, <1>c DEF vars
<1> QED BY <1>1, <1>2, <1>3, <1>4, <1>5, <1>6, <1>7, <1>8, <1>9, <1>10, <1>11, <1>12, <1>13, <1>14, <1>15
        DEF Next, Step

-----------------------------------------------------------------------------
(* One snapshot, and nothing forgotten.                                    *)

Owes == OneSnapshot /\ NothingForgotten

LEMMA UpdatedOwed ==
  ASSUME TInv, NEW w \in Workers, NEW d \in Devices, NEW S \in SUBSET Entry, NothingForgotten,
         sending[w] = Nowhere,
         (IF LastOf(S, d) = 0 THEN owed[w][d] ELSE LastOf(S, d)) # 0
  PROVE  Updated(positions[w], S)[d] # 0
         /\ (IF LastOf(S, d) = 0 THEN owed[w][d] ELSE LastOf(S, d)) = Updated(positions[w], S)[d]
<1>1. Updated(positions[w], S)[d] = IF LastOf(S, d) = 0 THEN positions[w][d] ELSE LastOf(S, d)
  BY DEF Updated
<1>2. sending[w][d] = 0 BY NowhereType
<1> QED BY <1>1, <1>2 DEF NothingForgotten

\* A worker that neither flushes nor publishes owes what it owed.
LEMMA SameOwed ==
  ASSUME Owes, UNCHANGED <<positions, sending, owed>>,
         \A w \in Workers : wpc'[w] = "publish" <=> wpc[w] = "publish"
  PROVE  Owes'
  BY DEF Owes, OneSnapshot, NothingForgotten

LEMMA OwesStep == TInv /\ Owes /\ [Next]_vars => Owes'
<1> SUFFICES ASSUME TInv, Owes, [Next]_vars PROVE Owes'
  OBVIOUS
<1> USE DEF Goto, Leave
<1>a. wpc \in [Workers -> {"top", "read", "flush", "ack", "broadcast", "publish", "drain", "stopped"}]
      /\ resume \in [Workers -> {"top", "read", "broadcast", "drain"}]
  BY DEF TInv, TypeOK
<1>b. positions \in [Workers -> Known] /\ sending \in [Workers -> Known] /\ owed \in [Workers -> Known]
  BY DEF TInv, TypeOK
\* A worker that is not publishing before or after the step.
<1>c. ASSUME NEW w \in Workers, wpc[w] # "publish", NEW pc, pc # "publish", Goto(w, pc),
             UNCHANGED <<positions, sending, owed>>
      PROVE  Owes'
  <2>1. \A v \in Workers : wpc'[v] = "publish" <=> wpc[v] = "publish" BY <1>a, <1>c
  <2> QED BY <1>c, <2>1, SameOwed
<1>1. ASSUME NEW w \in Workers, Claim(w) \/ DrainPending(w) \/ Read(w) \/ DrainNew(w) PROVE Owes'
  BY <1>1, <1>c DEF Claim, DrainPending, Read, DrainNew, HandOutNew, HandOutAgain, StartFlush
<1>2. ASSUME NEW w \in Workers, ReadNothing(w) \/ NotDue(w) \/ Restart(w) \/ ReadFails(w) PROVE Owes'
  BY <1>2, <1>c DEF ReadNothing, NotDue, Restart, ReadFails
<1>3. ASSUME NEW w \in Workers, FlushFails(w) \/ CommitLost(w) PROVE Owes'
  <2>1. (IF resume[w] = "drain" THEN "stopped" ELSE resume[w]) # "publish" BY <1>a
  <2> QED BY <1>3, <1>c, <2>1 DEF FlushFails, CommitLost
<1>4. ASSUME NEW w \in Workers, Ack(w) \/ AckFails(w) \/ DrainEnds(w) PROVE Owes'
  <2>1. resume[w] # "publish" /\ AfterError(w) # "publish" BY <1>a DEF AfterError
  <2> QED BY <1>4, <1>c, <2>1 DEF Ack, AckFails, DrainEnds
<1>5. ASSUME NEW w \in Workers, Commit(w) PROVE Owes'
  <2>1. wpc[w] = "flush" /\ sending[w] = Nowhere BY <1>5 DEF Owes, OneSnapshot, Commit
  <2>2. batch[w] \in SUBSET Entry BY DEF TInv, TypeOK
  <2>3. OneSnapshot' BY <1>5, <1>a, <2>1 DEF Owes, OneSnapshot, Commit
  <2>4. ASSUME NEW v \in Workers, NEW d \in Devices, owed'[v][d] # 0
        PROVE  owed'[v][d] = IF positions'[v][d] # 0 THEN positions'[v][d] ELSE sending'[v][d]
    <3>1. CASE v = w
      <4>1. owed'[w][d] = IF LastOf(batch[w], d) = 0 THEN owed[w][d] ELSE LastOf(batch[w], d)
        BY <1>5, <1>b DEF Commit
      <4>2. positions'[w] = Updated(positions[w], batch[w]) BY <1>5, <1>b DEF Commit
      <4> QED BY <2>1, <2>2, <2>4, <3>1, <4>1, <4>2, UpdatedOwed DEF Owes
    <3>2. CASE v # w
      BY <1>5, <1>b, <2>4, <3>2 DEF Commit, Owes, NothingForgotten
    <3> QED BY <3>1, <3>2
  <2> QED BY <2>3, <2>4 DEF Owes, NothingForgotten
<1>6. ASSUME NEW w \in Workers, Broadcast(w) PROVE Owes'
  <2>1. sending[w] = Nowhere BY <1>6 DEF Owes, OneSnapshot, Broadcast
  <2>2. OneSnapshot' BY <1>6, <1>a, <1>b DEF Owes, OneSnapshot, Broadcast
  <2>3. ASSUME NEW v \in Workers, NEW d \in Devices, owed'[v][d] # 0
        PROVE  owed'[v][d] = IF positions'[v][d] # 0 THEN positions'[v][d] ELSE sending'[v][d]
    BY <1>6, <1>b, <2>1, <2>3, NowhereType DEF Broadcast, Owes, NothingForgotten
  <2> QED BY <2>2, <2>3 DEF Owes, NothingForgotten
\* The snapshot that is being published is given up, or is none.
<1>7. ASSUME NEW w \in Workers, GiveUp(w, sending[w]), UNCHANGED positions,
             sending' = [sending EXCEPT ![w] = Nowhere], NEW pc, pc # "publish", Goto(w, pc)
      PROVE  Owes'
  <2>1. OneSnapshot' BY <1>7, <1>a, <1>b DEF Owes, OneSnapshot
  <2>2. ASSUME NEW v \in Workers, NEW d \in Devices, owed'[v][d] # 0
        PROVE  owed'[v][d] = IF positions'[v][d] # 0 THEN positions'[v][d] ELSE sending'[v][d]
    <3>1. CASE v = w
      <4>1. owed'[w][d] = IF owed[w][d] = sending[w][d] THEN 0 ELSE owed[w][d]
        BY <1>7, <1>b DEF GiveUp
      <4> QED BY <1>7, <1>b, <2>2, <3>1, <4>1 DEF Owes, NothingForgotten
    <3>2. CASE v # w
      BY <1>7, <1>b, <2>2, <3>2 DEF GiveUp, Owes, NothingForgotten
    <3> QED BY <3>1, <3>2
  <2> QED BY <2>1, <2>2 DEF Owes, NothingForgotten
<1>8. ASSUME NEW w \in Workers, Publish(w) \/ PublishFails(w) \/ Cancel(w) PROVE Owes'
  BY <1>8, <1>7 DEF Publish, PublishFails, Cancel
<1>9. ASSUME NEW w \in Workers, Crash(w) PROVE Owes'
  BY <1>9, <1>a, <1>b, NowhereType DEF Crash, Owes, OneSnapshot, NothingForgotten
<1>10. CASE UNCHANGED vars
  BY <1>10 DEF vars, Owes, OneSnapshot, NothingForgotten
<1> QED BY <1>1, <1>2, <1>3, <1>4, <1>5, <1>6, <1>8, <1>9, <1>10 DEF Next, Step

-----------------------------------------------------------------------------
(* An entry is held by one worker until it is redelivered.                 *)

Race == OneHolder /\ FlushIsNew /\ SnapshotIsNew

\* A step that shows nothing and takes up no entry keeps them, whether it loses
\* what a worker holds, or moves it from the flush to the snapshot.
LEMMA SameRace ==
  ASSUME TInv, Race, UNCHANGED mapVars, redelivered \subseteq redelivered',
         \A w \in Workers, e \in Entry \ redelivered' :
            Flushing(w, e)' => Flushing(w, e) /\ (e \in rows' => e \in rows),
         \A w \in Workers, d \in Devices, e \in Entry \ redelivered' :
             Snapshot(w, d, e)' => Snapshot(w, d, e) \/ (Flushing(w, e) /\ Device[e] = d)
  PROVE  Race'
<1> DEFINE Fresh == Entry \ redelivered'
<1>1. \A w \in Workers, e \in Fresh : Holds(w, e)' => Holds(w, e) BY DEF Holds
<1>2. Fresh \subseteq Entry \ redelivered OBVIOUS
<1>3. OneHolder' BY <1>1, <1>2 DEF Race, OneHolder
<1>4. UNCHANGED <<shown, lastBy, everShown>> BY DEF mapVars
<1>5. FlushIsNew' BY <1>2, <1>4 DEF Race, FlushIsNew, NewerThanShown
<1>6. everShown \subseteq rows BY DEF TInv, TypeOK
<1>7. SnapshotIsNew'
  <2> SUFFICES ASSUME NEW w \in Workers, NEW d \in Devices, NEW e \in Fresh, Snapshot(w, d, e)'
               PROVE  e \notin everShown /\ NewerThanShown(w, d, e)
    BY <1>4 DEF SnapshotIsNew, NewerThanShown
  <2>1. CASE Snapshot(w, d, e) BY <1>2, <2>1 DEF Race, SnapshotIsNew
  <2>2. CASE Flushing(w, e) /\ Device[e] = d BY <1>2, <1>6, <2>2 DEF Race, FlushIsNew
  <2> QED BY <2>1, <2>2
<1> QED BY <1>3, <1>5, <1>7 DEF Race

\* New entries are held by nobody and newer than all that is shown.
LEMMA NewRace ==
  ASSUME TInv, Race, NEW w \in Workers, NEW pc, HandOutNew(w, pc)
  PROVE  Race'
<1> PICK newest \in nextNew..(nextNew + ReadCount - 1) \cap Entry : StartFlush(w, nextNew..newest, pc)
  BY DEF HandOutNew
<1>1. UNCHANGED <<rows, positions, sending, shown, lastBy, everShown, redelivered>>
  BY DEF HandOutNew, mapVars
<1>2. wpc' = [wpc EXCEPT ![w] = "flush"] /\ batch' = [batch EXCEPT ![w] = nextNew..newest]
  BY DEF StartFlush, Goto
<1>3. /\ wpc = [v \in Workers |-> wpc[v]] /\ batch = [v \in Workers |-> batch[v]]
      /\ nextNew \in Nat /\ rows \subseteq 1..nextNew - 1 /\ everShown \subseteq rows
      /\ positions \in [Workers -> Known] /\ sending \in [Workers -> Known] /\ shown \in Known
  BY BoundsAssumption DEF TInv, TypeOK
<1>4. \A v \in Workers : batch[v] \subseteq 1..nextNew - 1 BY DEF TInv, DeliveredOnly
<1>5. \A v \in Workers, e \in Entry :
          Flushing(v, e)' => \/ Flushing(v, e) /\ v # w /\ e < nextNew
                             \/ v = w /\ e >= nextNew
  BY <1>2, <1>3, <1>4 DEF Flushing
<1>6. \A v \in Workers, d \in Devices : \A e : Snapshot(v, d, e)' <=> Snapshot(v, d, e)
  BY <1>1 DEF Snapshot
<1>7. \A v \in Workers, d \in Devices, e \in Entry : Snapshot(v, d, e) => e < nextNew
  BY <1>3 DEF Snapshot, Known
<1>8. OneHolder'
  <2> SUFFICES ASSUME NEW e \in Entry \ redelivered, NEW u \in Workers, NEW v \in Workers,
                      Holds(u, e)', Holds(v, e)'
               PROVE  u = v
    BY <1>1 DEF OneHolder
  <2>1. CASE e < nextNew
    <3>1. \A x \in Workers : Holds(x, e)' => Holds(x, e) BY <1>5, <1>6, <2>1, <1>3 DEF Holds, Entry
    <3> QED BY <3>1 DEF Race, OneHolder
  <2>2. CASE ~(e < nextNew)
    <3>1. \A x \in Workers : Holds(x, e)' => x = w BY <1>5, <1>6, <1>7, <2>2 DEF Holds
    <3> QED BY <3>1
  <2> QED BY <2>1, <2>2
<1>9. FlushIsNew'
  <2> SUFFICES ASSUME NEW v \in Workers, NEW e \in Entry \ redelivered, Flushing(v, e)'
               PROVE  e \notin rows /\ NewerThanShown(v, Device[e], e)
    BY <1>1 DEF FlushIsNew, NewerThanShown
  <2>1. CASE Flushing(v, e) BY <2>1 DEF Race, FlushIsNew
  <2>2. CASE e >= nextNew
    <3>1. e \notin rows BY <1>3, <2>2 DEF Entry
    <3>2. Device[e] \in Devices BY DeviceAssumption
    <3>3. shown[Device[e]] \in {0} \cup rows BY <1>3, <3>2 DEF Known
    <3>4. shown[Device[e]] < e BY <1>3, <2>2, <3>3 DEF Entry
    <3> QED BY <3>1, <3>4 DEF NewerThanShown
  <2> QED BY <1>5, <2>1, <2>2
<1>10. SnapshotIsNew' BY <1>1, <1>6 DEF Race, SnapshotIsNew, NewerThanShown
<1> QED BY <1>8, <1>9, <1>10 DEF Race

\* What one worker shows, no other holds.
LEMMA PublishRace ==
  ASSUME TInv, Race, OneSnapshot, NEW w \in Workers, Publish(w)
  PROVE  Race'
<1>1. wpc[w] = "publish" /\ positions[w] = Nowhere /\ UNCHANGED <<rows, positions, batch, redelivered>>
  BY DEF Publish, OneSnapshot, flushVars
<1>2. wpc' = [wpc EXCEPT ![w] = "top"] /\ sending' = [sending EXCEPT ![w] = Nowhere]
  BY DEF Publish, Goto
<1>3. wpc = [v \in Workers |-> wpc[v]] /\ sending = [v \in Workers |-> sending[v]] BY DEF TInv, TypeOK
<1>4. \A v \in Workers, e \in Entry : Flushing(v, e)' => Flushing(v, e) /\ v # w
  BY <1>1, <1>2, <1>3 DEF Flushing
<1>5. \A v \in Workers, d \in Devices : \A e : Snapshot(v, d, e)' => Snapshot(v, d, e) /\ v # w
  BY <1>1, <1>2, <1>3, NowhereType DEF Snapshot
<1>6. \A v \in Workers, e \in Entry : Holds(v, e)' => Holds(v, e) /\ v # w BY <1>4, <1>5 DEF Holds
<1>7. \A v \in Workers, d \in Devices : \A e :
          v # w /\ NewerThanShown(v, d, e) => NewerThanShown(v, d, e)'
  BY DEF Publish, NewerThanShown
<1>8. \A e \in everShown' \ everShown : \E d \in Devices : Snapshot(w, d, e)
  BY DEF Publish, Snapshot
<1>9. OneHolder' BY <1>1, <1>6 DEF Race, OneHolder
<1>10. FlushIsNew'
  <2> SUFFICES ASSUME NEW v \in Workers, NEW e \in Entry \ redelivered, Flushing(v, e)'
               PROVE  e \notin rows /\ NewerThanShown(v, Device[e], e)'
    BY <1>1 DEF FlushIsNew
  <2>1. Device[e] \in Devices BY DeviceAssumption
  <2> QED BY <1>4, <1>7, <2>1 DEF Race, FlushIsNew
<1>11. SnapshotIsNew'
  <2> SUFFICES ASSUME NEW v \in Workers, NEW d \in Devices, NEW e \in Entry \ redelivered, Snapshot(v, d, e)'
               PROVE  e \notin everShown' /\ NewerThanShown(v, d, e)'
    BY <1>1 DEF SnapshotIsNew
  <2>1. Snapshot(v, d, e) /\ v # w BY <1>5
  <2>2. e \notin everShown /\ NewerThanShown(v, d, e)' BY <1>7, <2>1 DEF Race, SnapshotIsNew
  <2>3. e \notin everShown' BY <1>8, <2>1, <2>2 DEF Race, OneHolder, Holds
  <2> QED BY <2>2, <2>3
<1> QED BY <1>9, <1>10, <1>11 DEF Race

LEMMA RaceStep == TInv /\ OneSnapshot /\ Race /\ [Next]_vars => Race'
<1> SUFFICES ASSUME TInv, OneSnapshot, Race, [Next]_vars PROVE Race'
  OBVIOUS
<1> USE DEF Goto, Leave
<1> DEFINE Fresh == Entry \ redelivered'
<1>a. /\ wpc = [v \in Workers |-> wpc[v]] /\ batch = [v \in Workers |-> batch[v]]
      /\ positions = [v \in Workers |-> positions[v]] /\ sending = [v \in Workers |-> sending[v]]
  BY DEF TInv, TypeOK
<1>b. resume \in [Workers -> {"top", "read", "broadcast", "drain"}] BY DEF TInv, TypeOK
\* A worker that takes up nothing, and at most loses its snapshots.
<1>c. ASSUME NEW w \in Workers, NEW pc, pc # "flush", Goto(w, pc), UNCHANGED <<rows, mapVars, redelivered>>,
             batch' = batch \/ batch' = [batch EXCEPT ![w] = {}],
             positions' = positions \/ positions' = [positions EXCEPT ![w] = Nowhere],
             sending' = sending \/ sending' = [sending EXCEPT ![w] = Nowhere]
      PROVE  Race'
  <2>1. \A v \in Workers, e \in Fresh : Flushing(v, e)' => Flushing(v, e) /\ (e \in rows' => e \in rows)
    BY <1>a, <1>c DEF Flushing
  <2>2. \A v \in Workers : positions'[v] \in {positions[v], Nowhere} /\ sending'[v] \in {sending[v], Nowhere}
    BY <1>a, <1>c
  <2>3. \A v \in Workers, d \in Devices, e \in Fresh :
             Snapshot(v, d, e)' => Snapshot(v, d, e) \/ (Flushing(v, e) /\ Device[e] = d)
    BY <2>2, NowhereType DEF Snapshot
  <2> QED BY <1>c, <2>1, <2>3, SameRace
<1>1. ASSUME NEW w \in Workers, NEW pc, HandOutAgain(w, pc) PROVE Race'
  <2> PICK S \in SUBSET pending : StartFlush(w, S, pc) /\ redelivered' = redelivered \cup S
    BY <1>1 DEF HandOutAgain
  <2>1. UNCHANGED <<rows, positions, sending, mapVars>> BY <1>1 DEF HandOutAgain
  <2>2. \A v \in Workers, e \in Fresh : Flushing(v, e)' => Flushing(v, e) /\ (e \in rows' => e \in rows)
    BY <2>1, <1>a DEF Flushing, StartFlush
  <2>3. \A v \in Workers, d \in Devices, e \in Fresh :
             Snapshot(v, d, e)' => Snapshot(v, d, e) \/ (Flushing(v, e) /\ Device[e] = d)
    BY <2>1 DEF Snapshot
  <2> QED BY <2>1, <2>2, <2>3, SameRace
<1>2. ASSUME NEW w \in Workers, Claim(w) \/ DrainPending(w) PROVE Race'
  BY <1>1, <1>2 DEF Claim, DrainPending
<1>3. ASSUME NEW w \in Workers, Read(w) \/ DrainNew(w) PROVE Race'
  BY <1>3, NewRace DEF Read, DrainNew
<1>4. ASSUME NEW w \in Workers, ReadNothing(w) \/ NotDue(w) \/ Restart(w) \/ ReadFails(w) PROVE Race'
  BY <1>4, <1>c DEF ReadNothing, NotDue, Restart, ReadFails, flushVars
<1>5. ASSUME NEW w \in Workers, FlushFails(w) PROVE Race'
  <2>1. (IF resume[w] = "drain" THEN "stopped" ELSE resume[w]) # "flush" BY <1>b
  <2> QED BY <1>5, <1>c, <2>1 DEF FlushFails
<1>6. ASSUME NEW w \in Workers, Ack(w) \/ AckFails(w) \/ DrainEnds(w) PROVE Race'
  <2>1. resume[w] # "flush" /\ AfterError(w) # "flush" BY <1>b DEF AfterError
  <2> QED BY <1>6, <1>c, <2>1 DEF Ack, AckFails, DrainEnds
<1>7. ASSUME NEW w \in Workers, PublishFails(w) \/ Cancel(w) \/ Crash(w) PROVE Race'
  BY <1>7, <1>c DEF PublishFails, Cancel, Crash, flushVars
\* What w commits no other worker is flushing.
<1>8. ASSUME NEW w \in Workers, NEW pc, pc # "flush", wpc[w] = "flush", Goto(w, pc),
             UNCHANGED <<mapVars, redelivered>>,
             batch' = batch \/ batch' = [batch EXCEPT ![w] = {}], rows' = rows \cup batch[w]
      PROVE  \A v \in Workers, e \in Fresh :
                 Flushing(v, e)' => Flushing(v, e) /\ (e \in rows' => e \in rows)
  <2>1. \A v \in Workers, e \in Fresh : Flushing(v, e)' => Flushing(v, e) /\ v # w
    BY <1>a, <1>8 DEF Flushing
  <2>2. \A v \in Workers, e \in Fresh : Flushing(v, e) /\ Flushing(w, e) => v = w
    BY <1>8 DEF Race, OneHolder, Holds
  <2> QED BY <1>8, <2>1, <2>2 DEF Flushing
<1>9. ASSUME NEW w \in Workers, CommitLost(w) PROVE Race'
  <2>1. (IF resume[w] = "drain" THEN "stopped" ELSE resume[w]) # "flush" BY <1>b
  <2>2. \A v \in Workers, e \in Fresh : Flushing(v, e)' => Flushing(v, e) /\ (e \in rows' => e \in rows)
    BY <1>8, <1>9, <2>1 DEF CommitLost
  <2>3. \A v \in Workers, d \in Devices, e \in Fresh :
             Snapshot(v, d, e)' => Snapshot(v, d, e) \/ (Flushing(v, e) /\ Device[e] = d)
    BY <1>9 DEF CommitLost, Snapshot
  <2> QED BY <1>9, <2>2, <2>3, SameRace DEF CommitLost
<1>10. ASSUME NEW w \in Workers, Commit(w) PROVE Race'
  <2>1. \A v \in Workers, e \in Fresh : Flushing(v, e)' => Flushing(v, e) /\ (e \in rows' => e \in rows)
    BY <1>8, <1>10 DEF Commit, flushVars
  <2>2. batch[w] \in SUBSET Entry BY DEF TInv, TypeOK
  <2>3. ASSUME NEW v \in Workers, NEW d \in Devices, NEW e \in Fresh, Snapshot(v, d, e)'
        PROVE  Snapshot(v, d, e) \/ (Flushing(v, e) /\ Device[e] = d)
    <3>1. CASE v # w
      <4>1. positions'[v] = positions[v] /\ sending' = sending BY <1>10, <1>a, <3>1 DEF Commit
      <4>2. e # 0 /\ (positions'[v][d] = e \/ sending'[v][d] = e) BY <2>3 DEF Snapshot
      <4> QED BY <4>1, <4>2 DEF Snapshot
    <3>2. CASE v = w
      <4>1. sending' = sending /\ positions'[w] = Updated(positions[w], batch[w]) /\ wpc[w] = "flush"
        BY <1>10, <1>a DEF Commit
      <4>2. positions'[w][d] = IF LastOf(batch[w], d) = 0 THEN positions[w][d] ELSE LastOf(batch[w], d)
        BY <4>1 DEF Updated
      <4>3. LastOf(batch[w], d) # 0 => LastOf(batch[w], d) \in batch[w] /\ Device[LastOf(batch[w], d)] = d
        BY <2>2, LastOfIsNewest
      <4>4. e # 0 /\ (positions'[w][d] = e \/ sending'[w][d] = e) BY <2>3, <3>2 DEF Snapshot
      <4> QED BY <3>2, <4>1, <4>2, <4>3, <4>4 DEF Snapshot, Flushing
    <3> QED BY <3>1, <3>2
  <2> QED BY <1>10, <2>1, <2>3, SameRace DEF Commit
<1>11. ASSUME NEW w \in Workers, Broadcast(w) PROVE Race'
  <2>1. \A v \in Workers, e \in Fresh : Flushing(v, e)' => Flushing(v, e) /\ (e \in rows' => e \in rows)
    BY <1>a, <1>11 DEF Flushing, Broadcast, flushVars
  <2>2. \A v \in Workers : /\ positions'[v] \in {positions[v], Nowhere}
                           /\ sending'[v] \in {sending[v], positions[v]}
    BY <1>a, <1>11 DEF Broadcast
  <2>3. \A v \in Workers, d \in Devices, e \in Fresh :
             Snapshot(v, d, e)' => Snapshot(v, d, e) \/ (Flushing(v, e) /\ Device[e] = d)
    BY <2>2, NowhereType DEF Snapshot
  <2> QED BY <1>11, <2>1, <2>3, SameRace DEF Broadcast
<1>12. ASSUME NEW w \in Workers, Publish(w) PROVE Race'
  BY <1>12, PublishRace
<1>13. CASE UNCHANGED vars
  <2>1. UNCHANGED <<rows, wpc, batch, positions, sending, mapVars, redelivered>> BY <1>13 DEF vars, flushVars
  <2>2. UNCHANGED mapVars /\ redelivered \subseteq redelivered' BY <2>1
  <2>3. \A w \in Workers, e \in Entry \ redelivered' :
           Flushing(w, e)' => Flushing(w, e) /\ (e \in rows' => e \in rows)
    BY <2>1 DEF Flushing
  <2>4. \A w \in Workers, d \in Devices, e \in Entry \ redelivered' :
             Snapshot(w, d, e)' => Snapshot(w, d, e) \/ (Flushing(w, e) /\ Device[e] = d)
    BY <2>1 DEF Snapshot
  <2> QED BY ONLY TInv, Race, <2>2, <2>3, <2>4, SameRace
<1> QED BY <1>2, <1>3, <1>4, <1>5, <1>6, <1>7, <1>9, <1>10, <1>11, <1>12, <1>13 DEF Next, Step

-----------------------------------------------------------------------------
(* The theorems.                                                           *)

LEMMA Initial == Init => IInv
<1> SUFFICES ASSUME Init PROVE IInv
  OBVIOUS
<1> USE BoundsAssumption DEF Init
<1>1. TypeOK BY NowhereType DEF TypeOK
<1>2. DeliveredOnly BY DEF DeliveredOnly
<1>3. OneSnapshot /\ NothingForgotten BY NowhereType DEF OneSnapshot, NothingForgotten
<1>4. \A w \in Workers : \A e : ~Flushing(w, e) BY DEF Flushing
<1>5. \A w \in Workers, d \in Devices : \A e : ~Snapshot(w, d, e) BY NowhereType DEF Snapshot
<1>6. OneHolder /\ FlushIsNew /\ SnapshotIsNew BY <1>4, <1>5 DEF OneHolder, FlushIsNew, SnapshotIsNew, Holds
<1> QED BY <1>1, <1>2, <1>3, <1>6 DEF IInv

LEMMA Inductive == IInv /\ [Next]_vars => IInv'
<1> SUFFICES ASSUME IInv, [Next]_vars PROVE IInv'
  OBVIOUS
<1>1. TInv /\ Owes /\ OneSnapshot /\ Race BY DEF IInv, TInv, Owes, Race
<1>2. TInv' BY <1>1, TypeStep
<1>3. Owes' BY <1>1, OwesStep
<1>4. Race' BY <1>1, RaceStep
<1> QED BY <1>2, <1>3, <1>4 DEF IInv, TInv, Owes, Race

\* Only positions of committed pings are remembered, sent or shown, through
\* commits whose reply is lost, redeliveries, cancelled workers and crashes.
THEOREM TypeCorrect == Spec => []TypeOK
<1>1. IInv => TypeOK BY DEF IInv
<1> QED BY Initial, Inductive, <1>1, PTL DEF Spec

\* What a worker has flushed of a device is in its next snapshot, in the one it
\* is publishing, shown, or given up to a fault.
THEOREM NothingIsForgotten == Spec => []NothingForgotten
<1>1. IInv => NothingForgotten BY DEF IInv
<1> QED BY Initial, Inductive, <1>1, PTL DEF Spec

\* The map of a device goes back only to a redelivered position, or to one not
\* shown before that another worker held.
THEOREM BackOnlyByRaces == Spec => BackOnlyByRace
<1>1. ASSUME IInv, [Next]_vars, NEW d \in Devices, shown'[d] < shown[d]
      PROVE  \/ shown'[d] \in redelivered
             \/ lastBy'[d] # lastBy[d] /\ shown'[d] \notin everShown
  <2>1. shown \in Known /\ sending \in [Workers -> Known] /\ rows \subseteq Entry
    BY <1>1, BoundsAssumption DEF IInv, TypeOK, Entry
  <2>2. shown[d] \in Nat
    <3>1. shown[d] \in {0} \cup rows BY <2>1 DEF Known
    <3>2. \A n \in {0} \cup Entry : n \in Nat BY BoundsAssumption DEF Entry
    <3>3. rows \subseteq Entry BY <2>1
    <3> QED BY ONLY <3>1, <3>2, <3>3
  <2>3. shown' # shown BY <1>1, <2>2
  <2>4. PICK w \in Workers : Publish(w)
    BY <1>1, <2>3 DEF Next, Step, Claim, DrainPending, Read, DrainNew, HandOutNew, HandOutAgain, ReadNothing,
           NotDue, Restart, ReadFails, FlushFails, CommitLost, Commit, Ack, AckFails, DrainEnds, Broadcast,
           PublishFails, Cancel, Crash, mapVars, vars
  <2>5. shown'[d] = (IF sending[w][d] # 0 THEN sending[w][d] ELSE shown[d])
        /\ lastBy'[d] = (IF sending[w][d] # 0 THEN {w} ELSE lastBy[d])
    BY <2>4 DEF Publish
  <2>6. /\ sending[w][d] # 0 /\ shown'[d] = sending[w][d] /\ lastBy'[d] = {w}
    BY <1>1, <2>2, <2>5
  <2>7. sending[w][d] \in Entry /\ Snapshot(w, d, sending[w][d])
    BY <2>1, <2>6 DEF Known, Snapshot
  <2>8. CASE sending[w][d] \notin redelivered
    <3>1. sending[w][d] \notin everShown /\ (lastBy[d] = {w} => shown[d] < sending[w][d])
      BY <1>1, <2>7, <2>8 DEF IInv, SnapshotIsNew, NewerThanShown
    <3>2. sending[w][d] \in Nat BY <2>1, <2>7, BoundsAssumption DEF Entry
    <3> QED BY <1>1, <2>2, <2>6, <3>1, <3>2
  <2> QED BY <2>6, <2>8
<1>2. IInv /\ [Next]_vars => [\A d \in Devices :
          shown'[d] < shown[d] =>
              \/ shown'[d] \in redelivered
              \/ lastBy'[d] # lastBy[d] /\ shown'[d] \notin everShown]_vars
  BY <1>1
<1> QED BY Initial, Inductive, <1>2, PTL DEF Spec, BackOnlyByRace
=============================================================================
