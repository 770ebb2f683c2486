---------------------------- MODULE IngestProofs ----------------------------
(***************************************************************************)
(* Proofs about the write path, for any workers, consumer names, requests, *)
(* batch, chunk and read sizes, stream length and numbers of entries and   *)
(* faults.                                                                 *)
(***************************************************************************)
EXTENDS IngestProperties, FiniteSetTheorems, TLAPS

-----------------------------------------------------------------------------
(* Lemmas about the helpers.                                               *)

LEMMA EntriesFinite == \A S \in SUBSET Entry : IsFiniteSet(S)
<1>1. IsFiniteSet(Entry) BY FS_Interval, LimitsAssumption DEF Entry
<1> QED BY <1>1, FS_Subset

\* Oldest takes a prefix: with an entry it takes all smaller ones of the set.
LEMMA OldestIsPrefix ==
  ASSUME NEW S \in SUBSET Entry, NEW n \in Nat, NEW b \in Oldest(S, n), NEW a \in S, a <= b
  PROVE  a \in Oldest(S, n)
<1>1. S \subseteq Int /\ b \in S BY DEF Entry, Oldest
<1> DEFINE A == {x \in S : x < a}
           B == {x \in S : x < b}
<1>2. A \subseteq B
  <2> SUFFICES ASSUME NEW x \in S, x < a PROVE x < b
    OBVIOUS
  <2>1. x \in Int /\ a \in Int /\ b \in Int BY <1>1
  <2> QED BY <2>1
<1>3. IsFiniteSet(B) /\ IsFiniteSet(A) BY EntriesFinite
<1>4. Cardinality(A) <= Cardinality(B) BY <1>2, <1>3, FS_Subset
<1>5. Cardinality(B) < n BY <1>1 DEF Oldest
<1>6. Cardinality(A) \in Nat /\ Cardinality(B) \in Nat BY <1>3, FS_CardinalityType
<1>7. Cardinality(A) < n BY <1>4, <1>5, <1>6
<1> QED BY <1>7 DEF Oldest

LEMMA OldestSubset == \A S, n : Oldest(S, n) \subseteq S
  BY DEF Oldest

\* A number of pings is a natural number.
LEMMA PingCountType == \A S \in SUBSET Entry : PingCount(S) \in Nat
<1> SUFFICES ASSUME NEW S \in SUBSET Entry PROVE PingCount(S) \in Nat
  OBVIOUS
<1>1. IsFiniteSet(S) /\ IsFiniteSet(1..ChunkSize)
  BY EntriesFinite, FS_Interval, LimitsAssumption
<1>2. IsFiniteSet(S \X (1..ChunkSize)) BY <1>1, FS_Product
<1> DEFINE P == {p \in S \X (1..ChunkSize) : p[2] <= size[p[1]]}
<1>3. P \subseteq S \X (1..ChunkSize) OBVIOUS
<1>4. IsFiniteSet(P) BY ONLY <1>2, <1>3, FS_Subset
<1> QED BY <1>4, FS_CardinalityType DEF PingCount

LEMMA EntrySetsAreEntries ==
    /\ Retained \subseteq Entry /\ Pending \subseteq Entry /\ Undelivered \subseteq Retained
    /\ Claimable \subseteq Pending /\ Claimed \subseteq Claimable
    /\ Deliverable \subseteq Undelivered
    /\ \A w : History(w) \subseteq Retained /\ OwnPending(w) \subseteq Entry
  BY DEF Retained, Pending, Undelivered, Claimable, Claimed, Deliverable, History, OwnPending, Oldest

-----------------------------------------------------------------------------
(* Type correctness.                                                       *)

LEMMA TypeStep == TypeOK /\ [Next]_vars => TypeOK'
<1> USE LimitsAssumption, ConsumerAssumption
<1> SUFFICES ASSUME TypeOK, [Next]_vars PROVE TypeOK'
OBVIOUS
<1> USE DEF TypeOK
<1>1. ASSUME NEW r \in Requests, NEW n \in 1..MaxPings, Admit(r, n) PROVE TypeOK'
  BY <1>1 DEF Admit, stream, group, rows, workers
<1>2. ASSUME NEW r \in Requests, Reject(r) PROVE TypeOK'
  BY <1>2 DEF Reject, vars, stream, group, rows, handlers, workers
<1>3. ASSUME NEW r \in Requests, Xadd(r) PROVE TypeOK'
  <2> DEFINE n == NextChunk(left[r])
  <2>1. left[r] \in 0..MaxPings OBVIOUS
  <2>2. n \in 0..ChunkSize /\ n <= left[r] /\ left[r] - n \in 0..MaxPings
    BY <2>1 DEF NextChunk
  <2>3. last' \in 0..MaxEntries /\ first' \in 1..last' + 1 /\ delivered' \in 0..last'
    BY <1>3 DEF Xadd, TrimTo, group
  <2>4. size' \in [Entry -> 0..ChunkSize] /\ left' \in [Requests -> 0..MaxPings]
    BY <1>3, <2>2 DEF Xadd
  <2>5. rpc' \in [Requests -> {"idle", "xadd", "incr"}]
    BY <1>3 DEF Xadd
  <2> QED BY <1>3, <2>3, <2>4, <2>5 DEF Xadd, group, rows, workers
<1>4. ASSUME NEW r \in Requests, IncrBy(r) PROVE TypeOK'
  BY <1>4 DEF IncrBy, stream, group, rows, workers
<1>5. ASSUME NEW r \in Requests, PublishFails(r) PROVE TypeOK'
  BY <1>5 DEF PublishFails, Fault, stream, group, rows, workers
<1>6. ASSUME NEW w \in Workers, AutoClaim(w)
      PROVE  /\ owner' \in [Entry -> Consumers \cup {NoOne}]
             /\ idle' \subseteq Entry /\ redelivered' \subseteq Entry
             /\ UNCHANGED <<first, last, size, delivered, counter, written, rewritten, rpc, left, total>>
  BY <1>6, EntrySetsAreEntries DEF AutoClaim, stream, rows, handlers
<1>7. ASSUME NEW w \in Workers, Claim(w) PROVE TypeOK'
  BY <1>6, <1>7, EntrySetsAreEntries DEF Claim, Goto, StartFlush
<1>8. ASSUME NEW w \in Workers, ClaimLost(w) PROVE TypeOK'
  BY <1>6, <1>8 DEF ClaimLost, Fault, workers
<1>9. ASSUME NEW w \in Workers, ReconcileStep(w) PROVE TypeOK'
  BY <1>9 DEF ReconcileStep, XInfo, GetBacklog, SetZero, Goto, stream, group, rows, handlers
<1>10. ASSUME NEW w \in Workers, ReadGroup(w)
       PROVE  /\ owner' \in [Entry -> Consumers \cup {NoOne}]
              /\ delivered' \in 0..last
              /\ UNCHANGED <<first, last, size, idle, redelivered, counter, written, rewritten,
                             rpc, left, total>>
  <2>1. Deliverable \subseteq 0..last
    BY EntrySetsAreEntries DEF Retained, Entry
  <2> QED BY <1>10, <2>1 DEF ReadGroup, stream, rows, handlers
<1>11. Deliverable \subseteq Entry /\ \A w \in Workers : History(w) \subseteq Entry
  BY EntrySetsAreEntries
<1>12. ASSUME NEW w \in Workers, ReadStep(w) PROVE TypeOK'
  BY <1>10, <1>11, <1>12 DEF ReadStep, ReadNew, ReadNothing, StartFlush, Goto, stream, group, rows, handlers
<1>13. ASSUME NEW w \in Workers, ReadLost(w) PROVE TypeOK'
  BY <1>10, <1>13 DEF ReadLost, Abandon, Fault
<1>14. ASSUME NEW w \in Workers, Commit(w) PROVE TypeOK'
  BY <1>14 DEF Commit, Store, Goto, stream, group, handlers
<1>15. ASSUME NEW w \in Workers, Xack(w) PROVE TypeOK'
  BY <1>15 DEF Xack, Goto, stream, rows, handlers
<1>16. ASSUME NEW w \in Workers, DecrBy(w) PROVE TypeOK'
  <2>1. PingCount(batch[w]) \in Nat BY PingCountType
  <2>2. counter' \in Int BY <1>16, <2>1 DEF DecrBy
  <2>3. resume[w] \in {"top", "xinfo", "drainPending", "drainNew"} OBVIOUS
  <2> QED BY <1>16, <2>2, <2>3 DEF DecrBy, Abandon, stream, group, rows, handlers
<1>17. ASSUME NEW w \in Workers, FlushFails(w) PROVE TypeOK'
  BY <1>17 DEF FlushFails, AfterFailedFlush, Abandon, Fault, stream, group, rows, handlers
<1>18. ASSUME NEW w \in Workers, CommitLost(w) PROVE TypeOK'
  BY <1>18 DEF CommitLost, Store, AfterFailedFlush, Abandon, Fault, stream, group, handlers
<1>19. ASSUME NEW w \in Workers, RedisFails(w) \/ Cancel(w) \/ DrainAborted(w) \/ Crash(w)
       PROVE  TypeOK'
  BY <1>19 DEF RedisFails, Cancel, DrainAborted, Crash, Abandon, Fault, stream, group, rows, handlers
<1>20. ASSUME NEW w \in Workers, DrainStep(w) PROVE TypeOK'
  <2>1. CASE DrainPending(w)
    BY <2>1, <1>11 DEF DrainPending, Goto, StartFlush, stream, rows, handlers
  <2>2. CASE DrainNew(w)
    BY <2>2, <1>10, <1>11 DEF DrainNew, StartFlush
  <2>3. CASE DrainDone(w)
    BY <2>3 DEF DrainDone, Abandon, stream, group, rows, handlers
  <2> QED BY <1>20, <2>1, <2>2, <2>3 DEF DrainStep
<1>21. ASSUME NEW w \in Workers, Restart(w) PROVE TypeOK'
  BY <1>21 DEF Restart, Goto, stream, group, rows, handlers
<1>22. ASSUME NEW e \in Entry, Age(e) PROVE TypeOK'
  BY <1>22 DEF Age, Pending, stream, rows, handlers, workers
<1>23. CASE UNCHANGED vars
  BY <1>23 DEF vars, stream, group, rows, handlers, workers
<1> QED
  BY <1>1, <1>2, <1>3, <1>4, <1>5, <1>7, <1>8, <1>9, <1>12, <1>13, <1>14, <1>15, <1>16,
     <1>17, <1>18, <1>19, <1>20, <1>21, <1>22, <1>23
     DEF Next, RequestStep, WorkerStep, FlushStep, WorkerFault

\* Every variable of the write path keeps to its type.
THEOREM TypeCorrect == Spec => []TypeOK
<1>1. Init => TypeOK
  BY LimitsAssumption, ConsumerAssumption DEF Init, TypeOK, Entry
<1> QED BY <1>1, TypeStep, PTL DEF Spec

-----------------------------------------------------------------------------
(* No entry of the window is lost.                                         *)

\* The stream gave up only entries beyond the STREAM_MAX_LEN newest.
Trimmed == first = 1 \/ last - first + 1 >= StreamMaxLen

\* A worker holds entries only inside a flush, acknowledges only what it has
\* written, and what it holds or has written was delivered to the group.
BatchSafe ==
    \A w \in Workers :
        /\ batch[w] # {} => wpc[w] \in {"flush", "ack", "decr"}
        /\ wpc[w] \in {"ack", "decr"} => batch[w] \subseteq written

DeliveredOnly ==
    /\ \A w \in Workers : batch[w] \subseteq 1..delivered
    /\ written \subseteq 1..delivered
    /\ \A e \in Entry : owner[e] # NoOne => e <= delivered

\* A delivered entry is a row, or pending, or out of the stream.
Accounted == \A e \in 1..delivered : e \in written \/ owner[e] # NoOne \/ e < first

IInv == TypeOK /\ Trimmed /\ BatchSafe /\ DeliveredOnly /\ Accounted

LEMMA NoLossFromIInv == IInv => NoLossWithinWindow
<1> USE LimitsAssumption
<1> SUFFICES ASSUME IInv, NEW e \in 1..last, last - e < StreamMaxLen
             PROVE  \/ e \in written
                    \/ e \in Retained /\ (e > delivered \/ owner[e] # NoOne)
  BY DEF NoLossWithinWindow
<1> USE DEF IInv, TypeOK
<1>1. e >= first BY DEF Trimmed
<1>2. e \in Retained BY <1>1 DEF Retained, Entry
<1>3. e <= delivered => e \in written \/ owner[e] # NoOne BY <1>1 DEF Accounted
<1> QED BY <1>2, <1>3

\* What AutoClaim and ReadGroup do to the pending list, for the proofs below.
LEMMA AutoClaimEffect ==
  ASSUME IInv, NEW w \in Workers, AutoClaim(w)
  PROVE  /\ \A e \in Entry : owner'[e] # NoOne => owner[e] # NoOne
         /\ \A e \in Entry : owner[e] # NoOne /\ owner'[e] = NoOne => e < first
         /\ Claimed \subseteq 1..delivered
         /\ UNCHANGED <<first, last, size, delivered, counter, written, rewritten, rpc, left, total>>
<1> USE ConsumerAssumption
<1>1. Consumer[w] \in Consumers /\ Consumer[w] # NoOne OBVIOUS
<1>2. \A e \in Claimable : e \in Entry /\ owner[e] # NoOne
  BY EntrySetsAreEntries DEF Pending
<1>3. \A e \in Claimable : e \notin Claimed => e < first
  <2> SUFFICES ASSUME NEW e \in Claimable, e \notin Claimed PROVE e < first
    OBVIOUS
  <2>1. e \in Int /\ first \in Int /\ ~(e >= first)
    BY <1>2 DEF Claimed, Entry, IInv, TypeOK
  <2> QED BY <2>1
<1>4. \A e \in Entry : owner'[e] = IF e \in Claimed THEN Consumer[w]
                                   ELSE IF e \in Claimable THEN NoOne ELSE owner[e]
  BY DEF AutoClaim
<1>5. Claimed \subseteq Claimable BY EntrySetsAreEntries
<1>6. Claimed \subseteq 1..delivered
  BY <1>2, <1>5 DEF IInv, DeliveredOnly, Entry, TypeOK
<1> QED BY <1>1, <1>2, <1>3, <1>4, <1>5, <1>6 DEF AutoClaim, stream, rows, handlers

LEMMA ReadGroupEffect ==
  ASSUME IInv, NEW w \in Workers, ReadGroup(w)
  PROVE  /\ delivered' \in delivered..last /\ delivered' \in Entry
         /\ Deliverable \subseteq delivered + 1..delivered'
         /\ \A e \in delivered + 1..delivered' : e \in Deliverable \/ e < first
         /\ \A e \in Entry : e \in Deliverable => owner'[e] # NoOne
         /\ \A e \in Entry : e \notin Deliverable => owner'[e] = owner[e]
         /\ UNCHANGED <<first, last, size, idle, redelivered, counter, written, rewritten,
                        rpc, left, total>>
<1> USE LimitsAssumption, ConsumerAssumption
<1>1. delivered' \in Deliverable /\ \A e \in Deliverable : e <= delivered'
  BY DEF ReadGroup
<1>2. \A e \in Deliverable : e \in Entry /\ e > delivered /\ e <= last /\ e >= first
  BY EntrySetsAreEntries DEF Undelivered, Retained
<1>3. delivered' \in delivered..last /\ delivered' \in Entry
  BY <1>1, <1>2 DEF IInv, TypeOK, Entry
<1>4. Deliverable \subseteq delivered + 1..delivered'
  BY <1>1, <1>2, <1>3 DEF IInv, TypeOK, Entry
<1>5. ASSUME NEW e \in delivered + 1..delivered', e >= first PROVE e \in Deliverable
  <2>1. e \in Entry /\ e <= last /\ e > delivered /\ e <= delivered'
    BY <1>3 DEF IInv, TypeOK, Entry
  <2>2. e \in Undelivered BY <2>1, <1>5 DEF Undelivered, Retained
  <2>3. Undelivered \in SUBSET Entry BY EntrySetsAreEntries
  <2>4. delivered' \in Oldest(Undelivered, ReadCount) BY <1>1 DEF Deliverable
  <2> QED BY <2>1, <2>2, <2>3, <2>4, OldestIsPrefix DEF Deliverable
<1>6. \A e \in delivered + 1..delivered' : e \in Deliverable \/ e < first
  <2> SUFFICES ASSUME NEW e \in delivered + 1..delivered', ~(e < first) PROVE e \in Deliverable
    OBVIOUS
  <2>1. e >= first BY <1>3 DEF IInv, TypeOK
  <2> QED BY <1>5, <2>1
<1>7. Consumer[w] # NoOne OBVIOUS
<1>8. \A e \in Entry : owner'[e] = IF e \in Deliverable THEN Consumer[w] ELSE owner[e]
  BY DEF ReadGroup
<1> QED BY <1>3, <1>4, <1>6, <1>7, <1>8 DEF ReadGroup, stream, rows, handlers

LEMMA IInvStep == IInv /\ [Next]_vars => IInv'
<1> USE LimitsAssumption
<1> SUFFICES ASSUME IInv, [Next]_vars PROVE IInv'
  OBVIOUS
<1>0. TypeOK /\ TypeOK' BY TypeStep DEF IInv
<1> DEFINE Rest == Trimmed /\ BatchSafe /\ DeliveredOnly /\ Accounted
<1>a. IInv' <=> TypeOK' /\ Rest'
  BY DEF IInv
<1> USE DEF Trimmed, BatchSafe, DeliveredOnly, Accounted
\* A step that leaves the stream, the pending list and the rows alone, and at
\* most forgets the batch of a worker.
<1>b. ASSUME NEW w \in Workers, NEW pc, Abandon(w, pc), pc \notin {"ack", "decr"},
             UNCHANGED <<first, last, delivered, owner, written>>
      PROVE  Rest'
  BY <1>b, <1>0 DEF IInv, Abandon, TypeOK
<1>1. ASSUME NEW r \in Requests, NEW n \in 1..MaxPings, Admit(r, n) PROVE Rest'
  BY <1>1 DEF IInv, Admit, stream, group, rows, workers
<1>2. ASSUME NEW r \in Requests, Reject(r) PROVE Rest'
  BY <1>2 DEF IInv, Reject, vars, stream, group, rows, handlers, workers
<1>3. ASSUME NEW r \in Requests, Xadd(r) PROVE Rest'
  <2>1. last' = last + 1 /\ first' \in TrimTo(last + 1) BY <1>3 DEF Xadd
  <2>b. first \in Int /\ last \in Int /\ first' \in Int BY <1>0 DEF TypeOK
  <2>2. first' = first \/ (first' > first /\ (last + 1) - first' + 1 >= StreamMaxLen)
    BY <2>1 DEF TrimTo
  <2>3. Trimmed'
    <3>1. Trimmed BY DEF IInv
    <3>2. last' = last + 1 /\ StreamMaxLen \in Int BY <2>1
    <3>3. CASE first' = first BY ONLY <2>b, <3>1, <3>2, <3>3 DEF Trimmed
    <3>4. CASE first' > first /\ (last + 1) - first' + 1 >= StreamMaxLen
      BY ONLY <2>b, <3>2, <3>4 DEF Trimmed
    <3> QED BY ONLY <2>2, <3>3, <3>4
  <2>a. first' >= first BY ONLY <2>2, <2>b
  <2>4. Accounted'
    BY <1>3, <1>0, <2>2, <2>a DEF Xadd, IInv, group, rows, TypeOK, Entry
  <2> QED BY <1>3, <2>3, <2>4 DEF Xadd, IInv, group, rows, workers
<1>4. ASSUME NEW r \in Requests, IncrBy(r) PROVE Rest'
  BY <1>4 DEF IInv, IncrBy, stream, group, rows, workers
<1>5. ASSUME NEW r \in Requests, PublishFails(r) PROVE Rest'
  BY <1>5 DEF IInv, PublishFails, stream, group, rows, workers
<1>6. ASSUME NEW w \in Workers, AutoClaim(w) PROVE (Trimmed /\ Accounted)'
  <2>1. ASSUME NEW e \in 1..delivered, owner[e] # NoOne PROVE owner'[e] # NoOne \/ e < first
    <3>1. e \in Entry BY <1>0 DEF TypeOK, Entry
    <3> QED BY <2>1, <3>1, <1>6, AutoClaimEffect
  <2> QED BY <2>1, <1>6, AutoClaimEffect DEF IInv
<1>7. ASSUME NEW w \in Workers, Claim(w) PROVE Rest'
  <2>1. AutoClaim(w) BY <1>7 DEF Claim
  <2>2. DeliveredOnly'
    BY <1>7, <1>0, <2>1, AutoClaimEffect DEF Claim, IInv, Goto, StartFlush, TypeOK
  <2>3. BatchSafe'
    <3>1. CASE Claimed = {}
      BY <1>7, <1>0, <2>1, <3>1, AutoClaimEffect DEF Claim, IInv, Goto, TypeOK
    <3>2. CASE Claimed # {}
      BY <1>7, <1>0, <2>1, <3>2, AutoClaimEffect DEF Claim, IInv, StartFlush, TypeOK
    <3> QED BY <3>1, <3>2
  <2> QED BY <1>6, <2>1, <2>2, <2>3
<1>8. ASSUME NEW w \in Workers, ClaimLost(w) PROVE Rest'
  <2>1. AutoClaim(w) BY <1>8 DEF ClaimLost
  <2>2. DeliveredOnly' /\ BatchSafe'
    BY <1>8, <2>1, AutoClaimEffect DEF ClaimLost, IInv, workers
  <2> QED BY <1>6, <2>1, <2>2
<1>9. ASSUME NEW w \in Workers, ReconcileStep(w) PROVE Rest'
  <2>1. wpc[w] \in {"xinfo", "get", "set"} /\ wpc'[w] \in {"get", "set", "read"}
    BY <1>9, <1>0 DEF ReconcileStep, XInfo, GetBacklog, SetZero, Goto, TypeOK
  <2>2. \A v \in Workers : v # w => wpc'[v] = wpc[v]
    BY <1>9, <1>0 DEF ReconcileStep, XInfo, GetBacklog, SetZero, Goto, TypeOK
  <2>3. UNCHANGED <<first, last, delivered, owner, written, batch>>
    BY <1>9 DEF ReconcileStep, XInfo, GetBacklog, SetZero, stream, group, rows
  <2> QED BY <2>1, <2>2, <2>3 DEF IInv
<1>10. ASSUME NEW w \in Workers, ReadGroup(w) PROVE (Trimmed /\ Accounted)'
  <2>1. ASSUME NEW e \in 1..delivered' PROVE e \in written \/ owner'[e] # NoOne \/ e < first
    <3>1. e \in Entry /\ delivered \in 0..last
      BY <1>0, <1>10, ReadGroupEffect DEF TypeOK, Entry
    <3>2. CASE e <= delivered
      <4>1. e \in 1..delivered BY <3>1, <3>2 DEF Entry
      <4> QED BY <1>10, <3>1, <4>1, ReadGroupEffect DEF IInv
    <3>3. CASE e > delivered
      <4>1. e \in delivered + 1..delivered' BY <3>1, <3>3, <1>0 DEF TypeOK, Entry
      <4> QED BY <1>10, <3>1, <4>1, ReadGroupEffect
    <3> QED BY <3>1, <3>2, <3>3 DEF Entry
  <2> QED BY <2>1, <1>10, ReadGroupEffect DEF IInv
<1>11. ASSUME NEW w \in Workers, NEW pc, ReadGroup(w),
              StartFlush(w, Deliverable, pc) \/ Abandon(w, "top")
       PROVE  Rest'
  <2>1. /\ delivered' \in delivered..last /\ Deliverable \subseteq delivered + 1..delivered'
        /\ UNCHANGED written
    BY <1>11, ReadGroupEffect
  <2>2. \A v \in Workers : batch'[v] \in {batch[v], Deliverable, {}}
    BY <1>11, <1>0 DEF StartFlush, Abandon, TypeOK
  <2>3. 1..delivered \subseteq 1..delivered' /\ Deliverable \subseteq 1..delivered'
    BY <2>1, <1>0 DEF TypeOK
  <2>4. ASSUME NEW e \in Entry, owner'[e] # NoOne PROVE e <= delivered'
    <3>1. CASE e \in Deliverable BY <2>3, <3>1, <1>0 DEF TypeOK, Entry
    <3>2. CASE e \notin Deliverable
      <4>1. owner[e] # NoOne BY <1>11, <2>4, <3>2, ReadGroupEffect
      <4>2. e <= delivered BY <4>1 DEF IInv
      <4> QED BY <4>2, <2>1, <1>0 DEF TypeOK, Entry
    <3> QED BY <3>1, <3>2
  <2>5. DeliveredOnly' BY <2>1, <2>2, <2>3, <2>4 DEF IInv
  <2>6. BatchSafe' BY <1>11, <1>0, <2>1 DEF IInv, StartFlush, Abandon, TypeOK
  <2> QED BY <1>10, <1>11, <2>5, <2>6
<1>12. ASSUME NEW w \in Workers, ReadNew(w) \/ DrainNew(w) \/ ReadLost(w) PROVE Rest'
  BY <1>11, <1>12 DEF ReadNew, DrainNew, ReadLost
<1>13. ASSUME NEW w \in Workers, ReadNothing(w) PROVE Rest'
  BY <1>13, <1>0 DEF IInv, ReadNothing, Goto, stream, group, rows, TypeOK
<1>14. ASSUME NEW w \in Workers, Commit(w) PROVE Rest'
  BY <1>14, <1>0 DEF IInv, Commit, Store, Goto, stream, group, TypeOK
<1>15. ASSUME NEW w \in Workers, Xack(w) PROVE Rest'
  <2>1. batch[w] \subseteq written BY <1>15 DEF Xack, IInv
  <2>2. \A e \in Entry : owner'[e] = IF e \in batch[w] THEN NoOne ELSE owner[e]
    BY <1>15 DEF Xack
  <2>3. UNCHANGED <<first, last, delivered, written, batch>>
    BY <1>15 DEF Xack, stream, rows
  <2>4. Accounted'
    <3> SUFFICES ASSUME NEW e \in 1..delivered PROVE e \in written \/ owner'[e] # NoOne \/ e < first
      BY <2>3
    <3>1. e \in Entry BY <1>0 DEF TypeOK, Entry
    <3> QED BY <2>1, <2>2, <3>1 DEF IInv
  <2>5. BatchSafe' BY <1>15, <1>0, <2>1, <2>3 DEF IInv, Xack, Goto, TypeOK
  <2> QED BY <2>2, <2>3, <2>4, <2>5 DEF IInv
<1>16. ASSUME NEW w \in Workers, DecrBy(w) PROVE Rest'
  BY <1>16, <1>0, <1>b DEF DecrBy, stream, group, rows, TypeOK
<1>17. ASSUME NEW w \in Workers, FlushFails(w) PROVE Rest'
  BY <1>17, <1>0, <1>b DEF FlushFails, AfterFailedFlush, stream, group, rows, TypeOK
<1>18. ASSUME NEW w \in Workers, CommitLost(w) PROVE Rest'
  <2>1. AfterFailedFlush(w) \notin {"ack", "decr"} BY <1>0 DEF AfterFailedFlush, TypeOK
  <2>2. written' = written \cup batch[w] /\ UNCHANGED <<first, last, delivered, owner>>
    BY <1>18 DEF CommitLost, Store, stream, group
  <2>3. written' \subseteq 1..delivered BY <2>2 DEF IInv
  <2>4. \A v \in Workers : batch'[v] = IF v = w THEN {} ELSE batch[v]
    BY <1>18, <1>0 DEF CommitLost, Abandon, TypeOK
  <2>5. \A v \in Workers : wpc'[v] = IF v = w THEN AfterFailedFlush(w) ELSE wpc[v]
    BY <1>18, <1>0 DEF CommitLost, Abandon, TypeOK
  <2>6. DeliveredOnly' BY <2>2, <2>3, <2>4 DEF IInv
  <2>7. BatchSafe' BY <2>1, <2>2, <2>4, <2>5 DEF IInv
  <2>8. (Trimmed /\ Accounted)' BY <2>2 DEF IInv
  <2> QED BY <2>6, <2>7, <2>8
<1>19. ASSUME NEW w \in Workers, RedisFails(w) \/ Cancel(w) \/ DrainAborted(w) \/ Crash(w) \/ DrainDone(w)
       PROVE  Rest'
  BY <1>19, <1>b DEF RedisFails, Cancel, DrainAborted, Crash, DrainDone, stream, group, rows
<1>20. ASSUME NEW w \in Workers, DrainPending(w) PROVE Rest'
  <2>1. History(w) \subseteq 1..delivered
    <3> SUFFICES ASSUME NEW e \in History(w) PROVE e \in 1..delivered
      OBVIOUS
    <3>1. e \in Entry /\ owner[e] = Consumer[w]
      BY DEF History, OwnPending, Oldest
    <3>2. owner[e] # NoOne BY <3>1, ConsumerAssumption
    <3> QED BY <3>1, <3>2, <1>0 DEF IInv, TypeOK, Entry
  <2>2. UNCHANGED <<first, last, delivered, owner, written>>
    BY <1>20 DEF DrainPending, stream, rows
  <2>3. CASE History(w) = {}
    BY <1>20, <1>0, <2>2, <2>3 DEF DrainPending, Goto, IInv, TypeOK
  <2>4. CASE History(w) # {}
    BY <1>20, <1>0, <2>1, <2>2, <2>4 DEF DrainPending, StartFlush, IInv, TypeOK
  <2> QED BY <2>3, <2>4
<1>21. ASSUME NEW w \in Workers, Restart(w) PROVE Rest'
  BY <1>21, <1>0 DEF IInv, Restart, Goto, stream, group, rows, TypeOK
<1>22. ASSUME NEW e \in Entry, Age(e) PROVE Rest'
  BY <1>22 DEF IInv, Age, stream, rows, workers
<1>23. ASSUME UNCHANGED vars PROVE Rest'
  <2>1. UNCHANGED <<first, last, delivered, owner, written, wpc, batch>>
    BY <1>23 DEF vars, stream, group, rows, workers
  <2> QED BY <2>1 DEF IInv
<1> HIDE DEF Rest, Trimmed, BatchSafe, DeliveredOnly, Accounted
<1>24. Rest'
  BY <1>1, <1>2, <1>3, <1>4, <1>5, <1>7, <1>8, <1>9, <1>12, <1>13, <1>14, <1>15, <1>16, <1>17,
     <1>18, <1>19, <1>20, <1>21, <1>22, <1>23
     DEF Next, RequestStep, ReadStep, FlushStep, DrainStep, WorkerStep, WorkerFault
<1> QED BY <1>0, <1>a, <1>24

LEMMA Invariance == Spec => []IInv
<1>1. Init => IInv
  <2>1. Init => TypeOK
    BY LimitsAssumption, ConsumerAssumption DEF Init, TypeOK, Entry
  <2> QED BY <2>1 DEF Init, IInv, Trimmed, BatchSafe, DeliveredOnly, Accounted
<1> QED BY <1>1, IInvStep, PTL DEF Spec

\* No crash, cancellation, time-out, lost reply or order of two workers' steps
\* loses an entry that is among the STREAM_MAX_LEN newest.
THEOREM NoLoss == Spec => []NoLossWithinWindow
BY Invariance, NoLossFromIInv, PTL

-----------------------------------------------------------------------------
(* Nothing is acknowledged before it is written.                           *)

LEMMA AckStep ==
  ASSUME IInv, [Next]_vars, NEW e \in Entry, owner[e] # NoOne, owner'[e] = NoOne
  PROVE  e \in written \/ e < first
<1> DEFINE Goal == e \in written \/ e < first
<1>1. ASSUME UNCHANGED owner PROVE Goal
  BY <1>1
<1>2. ASSUME NEW w \in Workers, Claim(w) \/ ClaimLost(w) PROVE Goal
  BY <1>2, AutoClaimEffect DEF Claim, ClaimLost
<1>3. ASSUME NEW w \in Workers, ReadNew(w) \/ DrainNew(w) \/ ReadLost(w) PROVE Goal
  BY <1>3, ReadGroupEffect DEF ReadNew, DrainNew, ReadLost
<1>4. ASSUME NEW w \in Workers, Xack(w) PROVE Goal
  BY <1>4 DEF Xack, IInv, BatchSafe
<1>5. ASSUME NEW r \in Requests,
             \/ \E n \in 1..MaxPings : Admit(r, n)
             \/ Reject(r) \/ RequestStep(r) \/ PublishFails(r)
      PROVE  Goal
  BY <1>1, <1>5 DEF Admit, Reject, RequestStep, Xadd, IncrBy, PublishFails, group, vars
<1>6. ASSUME NEW w \in Workers,
             \/ ReconcileStep(w) \/ ReadNothing(w) \/ Commit(w) \/ DecrBy(w) \/ DrainPending(w)
             \/ DrainDone(w) \/ FlushFails(w) \/ CommitLost(w) \/ RedisFails(w) \/ Cancel(w)
             \/ DrainAborted(w) \/ Crash(w) \/ Restart(w)
      PROVE  Goal
  BY <1>1, <1>6
     DEF ReconcileStep, XInfo, GetBacklog, SetZero, ReadNothing, Commit, DecrBy, DrainPending,
         DrainDone, FlushFails, CommitLost, RedisFails, Cancel, DrainAborted, Crash, Restart, group
<1>7. ASSUME NEW d \in Entry, Age(d) PROVE Goal
  BY <1>1, <1>7 DEF Age
<1>8. ASSUME UNCHANGED vars PROVE Goal
  BY <1>1, <1>8 DEF vars, group
<1> HIDE DEF Goal
<1>9. Goal
  BY <1>2, <1>3, <1>4, <1>5, <1>6, <1>7, <1>8
     DEF Next, ReadStep, FlushStep, DrainStep, WorkerStep, WorkerFault
<1> QED BY <1>9 DEF Goal

\* No interleaving of commits, claims and acknowledgements takes an entry off
\* the pending list before its pings are rows, unless it was trimmed.
THEOREM AckedIsWritten == Spec => AckOnlyWritten
<1>1. IInv /\ [Next]_vars =>
        [\A e \in Entry : owner[e] # NoOne /\ owner'[e] = NoOne => e \in written \/ e < first]_vars
  BY AckStep
<1> QED BY <1>1, Invariance, PTL DEF Spec, AckOnlyWritten

-----------------------------------------------------------------------------
(* Duplicates come from redelivery only.                                   *)

\* An entry delivered once is in one batch at most, and a batch that is still
\* to be committed holds no row of such an entry.
SingleHolder ==
    \A e \in Entry \ redelivered : \A v, w \in Workers : e \in batch[v] /\ e \in batch[w] => v = w

FirstWrite ==
    \A e \in Entry \ redelivered : \A w \in Workers :
        e \in batch[w] /\ wpc[w] = "flush" => e \notin written

DInv == IInv /\ SingleHolder /\ FirstWrite /\ DuplicatesOnlyFromRedelivery

LEMMA DInvStep == DInv /\ [Next]_vars => DInv'
<1> SUFFICES ASSUME DInv, [Next]_vars PROVE DInv'
  OBVIOUS
<1>0. IInv /\ IInv' /\ TypeOK BY IInvStep DEF DInv, IInv
<1> DEFINE Rest == SingleHolder /\ FirstWrite /\ DuplicatesOnlyFromRedelivery
<1>a. Rest BY DEF DInv
<1> USE DEF SingleHolder, FirstWrite, DuplicatesOnlyFromRedelivery
\* Steps after which every worker holds what it held or nothing, none has
\* entered its flush, and nothing more is written.
<1>b. ASSUME \A w \in Workers : batch'[w] \in {batch[w], {}},
             \A w \in Workers : batch'[w] # {} /\ wpc'[w] = "flush" => wpc[w] = "flush",
             redelivered \subseteq redelivered',
             UNCHANGED <<written, rewritten>>
      PROVE  Rest'
  BY <1>a, <1>b
\* Steps that hand worker w entries delivered for the second time.
<1>c. ASSUME NEW w \in Workers, NEW S, NEW pc, StartFlush(w, S, pc),
             redelivered' = redelivered \cup S, UNCHANGED <<written, rewritten>>
      PROVE  Rest'
  <2>1. \A v \in Workers : batch'[v] = IF v = w THEN S ELSE batch[v]
    BY <1>c, <1>0 DEF StartFlush, TypeOK
  <2>2. \A v \in Workers : v # w => wpc'[v] = wpc[v]
    BY <1>c, <1>0 DEF StartFlush, TypeOK
  <2> QED BY <1>a, <1>c, <2>1, <2>2
\* Steps that hand worker w new entries.
<1>d. ASSUME NEW w \in Workers, NEW pc, ReadGroup(w), StartFlush(w, Deliverable, pc)
      PROVE  Rest'
  <2>1. \A v \in Workers : batch'[v] = IF v = w THEN Deliverable ELSE batch[v]
    BY <1>d, <1>0 DEF StartFlush, TypeOK
  <2>2. \A v \in Workers : v # w => wpc'[v] = wpc[v]
    BY <1>d, <1>0 DEF StartFlush, TypeOK
  <2>3. Deliverable \subseteq delivered + 1..delivered' /\ UNCHANGED <<redelivered, written, rewritten>>
    BY <1>d, <1>0, ReadGroupEffect
  <2>4. \A e \in Deliverable : e \notin written /\ \A v \in Workers : e \notin batch[v]
    BY <2>3, <1>0 DEF IInv, DeliveredOnly, TypeOK
  <2> QED BY <1>a, <2>1, <2>2, <2>3, <2>4
\* Steps that write the batch of w, which then is no longer in its flush.
<1>e. ASSUME NEW w \in Workers, wpc[w] = "flush", Store(batch[w]),
             \A v \in Workers : batch'[v] \in {batch[v], {}},
             \A v \in Workers : v # w => wpc'[v] = wpc[v],
             wpc'[w] # "flush" \/ batch'[w] = {},
             UNCHANGED redelivered
      PROVE  Rest'
  <2>1. written' = written \cup batch[w] /\ rewritten' = rewritten \cup (batch[w] \cap written)
    BY <1>e DEF Store
  <2>2. batch[w] \subseteq Entry BY <1>0 DEF TypeOK
  <2>3. DuplicatesOnlyFromRedelivery' BY <1>a, <1>e, <2>1, <2>2
  <2>4. SingleHolder' BY <1>a, <1>e
  <2>5. FirstWrite'
    <3> SUFFICES ASSUME NEW e \in Entry \ redelivered, NEW v \in Workers,
                        e \in batch'[v], wpc'[v] = "flush"
                 PROVE  e \notin written'
      BY <1>e
    <3>1. v # w /\ e \in batch[v] /\ wpc[v] = "flush" BY <1>e
    <3>2. e \notin written BY <1>a, <3>1
    <3>3. e \notin batch[w] BY <1>a, <3>1
    <3> QED BY <2>1, <3>2, <3>3
  <2> QED BY <2>3, <2>4, <2>5
<1>1. ASSUME NEW r \in Requests,
             \/ \E n \in 1..MaxPings : Admit(r, n)
             \/ Reject(r) \/ RequestStep(r) \/ PublishFails(r)
      PROVE  Rest'
  <2>1. UNCHANGED <<redelivered, written, rewritten, wpc, batch>>
    BY <1>1 DEF Admit, Reject, RequestStep, Xadd, IncrBy, PublishFails, group, rows, workers, vars
  <2> QED BY <1>b, <2>1
<1>2. ASSUME NEW w \in Workers, Claim(w) PROVE Rest'
  <2>1. redelivered' = redelivered \cup Claimed /\ UNCHANGED <<written, rewritten>>
    BY <1>2 DEF Claim, AutoClaim, rows
  <2>2. CASE Claimed = {}
    BY <1>2, <1>b, <2>1, <2>2, <1>0 DEF Claim, Goto, TypeOK
  <2>3. CASE Claimed # {}
    BY <1>2, <1>c, <2>1, <2>3 DEF Claim
  <2> QED BY <2>2, <2>3
<1>3. ASSUME NEW w \in Workers, ClaimLost(w) PROVE Rest'
  BY <1>3, <1>b DEF ClaimLost, AutoClaim, rows, workers
<1>4. ASSUME NEW w \in Workers, ReconcileStep(w) \/ ReadNothing(w) \/ Xack(w) \/ Restart(w) PROVE Rest'
  <2>1. UNCHANGED <<redelivered, written, rewritten, batch>>
    BY <1>4 DEF ReconcileStep, XInfo, GetBacklog, SetZero, ReadNothing, Xack, Restart, group, rows
  <2>2. \A v \in Workers : wpc'[v] = "flush" => wpc[v] = "flush"
    BY <1>4, <1>0 DEF ReconcileStep, XInfo, GetBacklog, SetZero, ReadNothing, Xack, Restart, Goto, TypeOK
  <2> QED BY <1>b, <2>1, <2>2
<1>5. ASSUME NEW w \in Workers, ReadNew(w) \/ DrainNew(w) PROVE Rest'
  BY <1>5, <1>d DEF ReadNew, DrainNew
<1>6. ASSUME NEW w \in Workers, NEW pc, Abandon(w, pc), redelivered' = redelivered,
             UNCHANGED <<written, rewritten>>
      PROVE  Rest'
  BY <1>6, <1>b, <1>0 DEF Abandon, TypeOK
<1>7. ASSUME NEW w \in Workers, ReadLost(w) PROVE Rest'
  BY <1>7, <1>6 DEF ReadLost, ReadGroup, rows
<1>8. ASSUME NEW w \in Workers,
             \/ DecrBy(w) \/ FlushFails(w) \/ RedisFails(w) \/ Cancel(w) \/ DrainAborted(w)
             \/ Crash(w) \/ DrainDone(w)
      PROVE  Rest'
  BY <1>8, <1>6
     DEF DecrBy, FlushFails, RedisFails, Cancel, DrainAborted, Crash, DrainDone, group, rows
<1>9. ASSUME NEW w \in Workers, Commit(w) PROVE Rest'
  BY <1>9, <1>e, <1>0 DEF Commit, Goto, group, TypeOK
<1>10. ASSUME NEW w \in Workers, CommitLost(w) PROVE Rest'
  BY <1>10, <1>e, <1>0 DEF CommitLost, Abandon, group, TypeOK
<1>11. ASSUME NEW w \in Workers, DrainPending(w) PROVE Rest'
  <2>1. redelivered' = redelivered \cup History(w) /\ UNCHANGED <<written, rewritten>>
    BY <1>11 DEF DrainPending, rows
  <2>2. CASE History(w) = {}
    BY <1>11, <1>b, <2>1, <2>2, <1>0 DEF DrainPending, Goto, TypeOK
  <2>3. CASE History(w) # {}
    BY <1>11, <1>c, <2>1, <2>3 DEF DrainPending
  <2> QED BY <2>2, <2>3
<1>12. ASSUME NEW e \in Entry, Age(e) PROVE Rest'
  BY <1>12, <1>b DEF Age, rows, workers
<1>13. ASSUME UNCHANGED vars PROVE Rest'
  BY <1>13, <1>b DEF vars, group, rows, workers
<1> HIDE DEF Rest
<1>14. Rest'
  BY <1>1, <1>2, <1>3, <1>4, <1>5, <1>7, <1>8, <1>9, <1>10, <1>11, <1>12, <1>13
     DEF Next, ReadStep, FlushStep, DrainStep, WorkerStep, WorkerFault
<1> QED BY <1>0, <1>14 DEF DInv, Rest

\* Whatever the workers and the faults do, a row is written twice only for an
\* entry Redis delivered twice.
THEOREM DuplicatesNeedRedelivery == Spec => []DuplicatesOnlyFromRedelivery
<1>1. Init /\ IInv => DInv
  BY DEF Init, DInv, SingleHolder, FirstWrite, DuplicatesOnlyFromRedelivery
<1>2. DInv => DuplicatesOnlyFromRedelivery
  BY DEF DInv
<1> QED BY <1>1, <1>2, DInvStep, Invariance, PTL DEF Spec

-----------------------------------------------------------------------------
(* The counter is bounded.                                                 *)

\* The handlers that have passed the gate and not yet counted their pings.
Publishing == {r \in Requests : rpc[r] \in {"xadd", "incr"}}

\* The counter, with a full batch for each of them, is within the bound: the
\* form of BacklogBound that one request's INCRBY preserves.
Headroom ==
    counter + MaxPings * Cardinality(Publishing) <= BacklogLimit + MaxPings * Cardinality(Requests)

BInv == TypeOK /\ Headroom

LEMMA PublishingFinite ==
    /\ IsFiniteSet(Publishing) /\ IsFiniteSet(Publishing')
    /\ Cardinality(Requests) \in Nat
    /\ Cardinality(Publishing) \in 0..Cardinality(Requests)
    /\ Cardinality(Publishing') \in 0..Cardinality(Requests)
<1>1. Publishing \subseteq Requests /\ Publishing' \subseteq Requests BY DEF Publishing
<1> QED BY <1>1, RequestsAssumption, FS_Subset, FS_CardinalityType

LEMMA TimesMonotone ==
  ASSUME NEW m \in Nat, NEW a \in Nat, NEW b \in Nat, a <= b
  PROVE  m * a \in Nat /\ m * b \in Nat /\ m * a <= m * b
  OBVIOUS

\* The three ways in which a step keeps c + m * k within b + m * r.
LEMMA LowerBoth ==
  ASSUME NEW m \in Nat, NEW b \in Nat, NEW r \in Nat, NEW c \in Int, NEW k \in Nat,
         NEW d \in Int, NEW j \in Nat, d <= c, j <= k, c + m * k <= b + m * r
  PROVE  d + m * j <= b + m * r
<1>1. m * j \in Nat /\ m * k \in Nat /\ m * r \in Nat /\ m * j <= m * k
  BY TimesMonotone
<1> QED BY <1>1

LEMMA LowCounter ==
  ASSUME NEW m \in Nat, NEW b \in Nat, NEW r \in Nat, NEW d \in Int, NEW j \in Nat, d <= b, j <= r
  PROVE  d + m * j <= b + m * r
<1>1. m * j \in Nat /\ m * r \in Nat /\ m * j <= m * r
  BY TimesMonotone
<1> QED BY <1>1

LEMMA OneFewer ==
  ASSUME NEW m \in Nat, NEW b \in Nat, NEW r \in Nat, NEW c \in Int, NEW k \in Nat,
         NEW d \in Int, NEW j \in Nat, d <= c + m, k = j + 1, c + m * k <= b + m * r
  PROVE  d + m * j <= b + m * r
<1>1. m * k = m * j + m /\ m * j \in Nat /\ m * r \in Nat
  OBVIOUS
<1> QED BY <1>1

LEMMA BInvStep == BInv /\ [Next]_vars => BInv'
<1> SUFFICES ASSUME BInv, [Next]_vars PROVE Headroom'
  BY TypeStep DEF BInv
<1>0. TypeOK BY DEF BInv
<1> DEFINE C == Cardinality(Publishing)
           R == Cardinality(Requests)
<1>t. /\ MaxPings \in Nat /\ BacklogLimit \in Nat /\ counter \in Int
      /\ C \in Nat /\ C' \in Nat /\ R \in Nat /\ C' <= R
  BY <1>0, PublishingFinite, LimitsAssumption DEF TypeOK
<1>h. counter + MaxPings * C <= BacklogLimit + MaxPings * R BY DEF BInv, Headroom
<1>g. Headroom' <=> counter' + MaxPings * C' <= BacklogLimit + MaxPings * R BY DEF Headroom
<1> HIDE DEF C, R
\* Steps that do not raise the counter and let nobody in.
<1>a. ASSUME counter' \in Int, counter' <= counter, Publishing' \subseteq Publishing PROVE Headroom'
  <2>1. C' <= C BY <1>a, PublishingFinite, FS_Subset DEF C
  <2>2. counter' + MaxPings * C' <= BacklogLimit + MaxPings * R
    BY ONLY <1>a, <1>t, <1>h, <2>1, LowerBoth
  <2> QED BY <1>g, <2>2
\* Steps after which the counter is at most the limit.
<1>b. ASSUME counter' \in Int, counter' <= BacklogLimit PROVE Headroom'
  <2>1. counter' + MaxPings * C' <= BacklogLimit + MaxPings * R
    BY ONLY <1>b, <1>t, LowCounter
  <2> QED BY <1>g, <2>1
<1>1. ASSUME NEW r \in Requests, NEW n \in 1..MaxPings, Admit(r, n) PROVE Headroom'
  BY <1>1, <1>b, <1>t DEF Admit, Backlog
<1>2. ASSUME NEW r \in Requests, Xadd(r) PROVE Headroom'
  <2>1. \A q \in Requests : rpc'[q] \in {"xadd", "incr"} => rpc[q] \in {"xadd", "incr"}
    BY <1>2, <1>0 DEF Xadd, TypeOK
  <2>2. Publishing' \subseteq Publishing BY <2>1 DEF Publishing
  <2> QED BY <1>2, <1>a, <1>t, <2>2 DEF Xadd
<1>3. ASSUME NEW r \in Requests, IncrBy(r) PROVE Headroom'
  <2>1. r \in Publishing BY <1>3 DEF IncrBy, Publishing
  <2>2. \A q \in Requests : rpc'[q] = IF q = r THEN "idle" ELSE rpc[q]
    BY <1>3, <1>0 DEF IncrBy, TypeOK
  <2>3. Publishing' = Publishing \ {r} BY <2>2 DEF Publishing
  <2>4. C = C' + 1
    <3>1. Cardinality(Publishing \ {r}) = Cardinality(Publishing) - 1
      BY <2>1, PublishingFinite, FS_RemoveElement
    <3> QED BY <2>3, <3>1, <1>t DEF C
  <2>6. total[r] \in 0..MaxPings /\ counter' = counter + total[r] BY <1>3, <1>0 DEF IncrBy, TypeOK
  <2>7. counter' \in Int /\ counter' <= counter + MaxPings BY <2>6, <1>t
  <2>8. counter' + MaxPings * C' <= BacklogLimit + MaxPings * R
    BY ONLY <2>4, <2>7, <1>t, <1>h, OneFewer
  <2> QED BY <1>g, <2>8
<1>4. ASSUME NEW r \in Requests, PublishFails(r) PROVE Headroom'
  <2>1. \A q \in Requests : rpc'[q] \in {rpc[q], "idle"}
    BY <1>4, <1>0 DEF PublishFails, TypeOK
  <2>2. Publishing' \subseteq Publishing BY <2>1 DEF Publishing
  <2> QED BY <1>4, <1>a, <1>t, <2>2 DEF PublishFails
<1>5. ASSUME NEW w \in Workers, SetZero(w) PROVE Headroom'
  BY <1>5, <1>b, <1>t DEF SetZero
<1>6. ASSUME NEW w \in Workers, DecrBy(w) PROVE Headroom'
  <2>1. batch[w] \subseteq Entry BY <1>0 DEF TypeOK
  <2>2. PingCount(batch[w]) \in Nat BY <2>1, PingCountType
  <2>3. counter' \in Int /\ counter' <= counter BY <1>6, <2>2, <1>t DEF DecrBy
  <2>4. Publishing' \subseteq Publishing BY <1>6 DEF DecrBy, handlers, Publishing
  <2> QED BY <1>a, <2>3, <2>4
\* All other steps leave the counter and the handlers alone.
<1>7. ASSUME UNCHANGED <<counter, rpc>> PROVE Headroom'
  <2>1. Publishing' \subseteq Publishing BY <1>7 DEF Publishing
  <2> QED BY <1>7, <2>1, <1>a, <1>t
<1>8. ASSUME NEW w \in Workers, WorkerFault(w) \/ Claim(w) \/ Restart(w) \/ DrainStep(w) \/ ReadStep(w)
      PROVE  Headroom'
  BY <1>7, <1>8
     DEF WorkerFault, Claim, ClaimLost, AutoClaim, ReadLost, ReadGroup, FlushFails, CommitLost,
         RedisFails, Cancel, DrainAborted, Crash, Restart, DrainStep, DrainPending, DrainNew,
         DrainDone, ReadStep, ReadNew, ReadNothing, handlers
<1>9. ASSUME NEW w \in Workers, XInfo(w) \/ GetBacklog(w) \/ Commit(w) \/ Xack(w) PROVE Headroom'
  BY <1>7, <1>9 DEF XInfo, GetBacklog, Commit, Xack, handlers
<1>10. ASSUME NEW e \in Entry, Age(e) PROVE Headroom'
  BY <1>7, <1>10 DEF Age, handlers
<1>11. ASSUME NEW r \in Requests, Reject(r) PROVE Headroom'
  BY <1>7, <1>11 DEF Reject, vars, handlers
<1>12. ASSUME UNCHANGED vars PROVE Headroom'
  BY <1>7, <1>12 DEF vars, handlers
<1> QED
  BY <1>1, <1>2, <1>3, <1>4, <1>5, <1>6, <1>8, <1>9, <1>10, <1>11, <1>12
     DEF Next, RequestStep, ReconcileStep, FlushStep, WorkerStep

\* However many handlers race through the gate, and whatever fails, the
\* counter stays within one batch per handler of the limit.
THEOREM BacklogBounded == Spec => []BacklogBound
<1> DEFINE R == Cardinality(Requests)
           C == Cardinality(Publishing)
<1>1. Init => BInv
  <2> SUFFICES ASSUME Init PROVE BInv
    OBVIOUS
  <2>1. TypeOK
    BY LimitsAssumption, ConsumerAssumption DEF Init, TypeOK, Entry
  <2>2. Publishing = {} BY DEF Init, Publishing
  <2>3. C = 0 BY <2>2, FS_EmptySet
  <2>4. MaxPings * R \in Nat
    <3>1. R \in Nat BY PublishingFinite
    <3> HIDE DEF R
    <3> QED BY <3>1, LimitsAssumption, TimesMonotone
  <2>5. counter = 0 /\ MaxPings * C = 0 BY <2>3, LimitsAssumption DEF Init
  <2>6. Headroom
    <3> HIDE DEF R, C
    <3>1. counter + MaxPings * C <= BacklogLimit + MaxPings * R
      BY <2>4, <2>5, LimitsAssumption
    <3> QED BY <3>1 DEF Headroom, R, C
  <2> QED BY <2>1, <2>6 DEF BInv
<1>2. BInv => BacklogBound
  <2> SUFFICES ASSUME BInv PROVE counter <= BacklogLimit + MaxPings * R
    BY DEF BacklogBound
  <2>1. C \in Nat /\ R \in Nat BY PublishingFinite
  <2>2. counter + MaxPings * C <= BacklogLimit + MaxPings * R BY DEF BInv, Headroom
  <2>3. counter \in Int /\ MaxPings \in Nat /\ BacklogLimit \in Nat
    BY LimitsAssumption DEF BInv, TypeOK
  <2> HIDE DEF R, C
  <2>4. MaxPings * C \in Nat /\ MaxPings * R \in Nat BY <2>1, <2>3, TimesMonotone
  <2> QED BY <2>2, <2>3, <2>4
<1> QED BY <1>1, <1>2, BInvStep, PTL DEF Spec
-----------------------------------------------------------------------------
(* The write path implements the ledger of module DeliveryLedger, for all  *)
(* values of the constants.                                                *)

\* Under the invariant an accepted entry that is no row is open exactly when
\* the stream retains it or a worker is about to write it.
StatusForm ==
    \A e \in Entry :
        Status(e) = IF e > last THEN "none" ELSE IF e \in written THEN "stored"
                    ELSE IF e >= first \/ Held(e) THEN "open" ELSE "lost"

LEMMA StatusSimple == IInv => StatusForm
<1> SUFFICES ASSUME IInv, NEW e \in Entry
             PROVE  Status(e) = IF e > last THEN "none" ELSE IF e \in written THEN "stored"
                                ELSE IF e >= first \/ Held(e) THEN "open" ELSE "lost"
  BY DEF StatusForm
<1>1. last \in Int /\ first \in Int /\ delivered \in Int /\ e \in Int /\ e >= 1
  BY DEF IInv, TypeOK, Entry
<1>2. e <= delivered => e \in written \/ owner[e] # NoOne \/ e < first
  BY <1>1 DEF IInv, Accounted
<1> QED BY <1>1, <1>2 DEF Status

LEMMA StatusSimpleNext == IInv' => StatusForm'
  BY StatusSimple, PTL

\* What has left the stream is beyond the window.
TrimmedOld == \A e \in Entry : e < first => last - e >= StreamMaxLen

LEMMA TrimmedIsOld == IInv => TrimmedOld
<1> SUFFICES ASSUME IInv, NEW e \in Entry, e < first PROVE last - e >= StreamMaxLen
  BY DEF TrimmedOld
<1>1. last \in Int /\ first \in Int /\ e \in Int /\ e >= 1 /\ StreamMaxLen \in Int
  BY LimitsAssumption DEF IInv, TypeOK, Entry
<1>2. last - first + 1 >= StreamMaxLen BY <1>1 DEF IInv, Trimmed
<1> QED BY <1>1, <1>2

LEMMA TrimmedIsOldNext == IInv' => TrimmedOld'
  BY TrimmedIsOld, PTL

\* A step that changes neither the stream nor the rows, and after which no
\* trimmed entry is held that was not held before, forgets at most.
LEMMA ForgetStep ==
  ASSUME IInv, IInv', UNCHANGED <<first, last, written>>,
         \A e \in Entry : Held(e)' => Held(e) \/ e >= first
  PROVE  Ledger!Forget
<1> DEFINE S == {e \in Entry : Status(e) = "open" /\ Status(e)' = "lost"}
<1>1. ASSUME NEW e \in Entry
      PROVE  Status(e)' = Status(e) \/ (e \in S /\ Status(e)' = "lost" /\ last - e >= StreamMaxLen)
  <2>1. Status(e) = IF e > last THEN "none" ELSE IF e \in written THEN "stored"
                    ELSE IF e >= first \/ Held(e) THEN "open" ELSE "lost"
    BY StatusSimple, StatusSimpleNext DEF StatusForm
  <2>2. Status(e)' = IF e > last THEN "none" ELSE IF e \in written THEN "stored"
                     ELSE IF e >= first \/ Held(e)' THEN "open" ELSE "lost"
    BY StatusSimple, StatusSimpleNext DEF StatusForm
  <2>3. e \in Int /\ first \in Int BY DEF IInv, TypeOK, Entry
  <2>4. CASE e >= first BY <2>1, <2>2, <2>4
  <2>5. CASE e < first
    <3>1. last - e >= StreamMaxLen BY <2>5, TrimmedIsOld DEF TrimmedOld
    <3>2. Held(e)' => Held(e) BY <2>3, <2>5
    <3> QED BY <2>1, <2>2, <3>1, <3>2
  <2> QED BY <2>3, <2>4, <2>5
<1>2. S \in SUBSET {e \in {x \in Entry : [y \in Entry |-> Status(y)][x] = "open"} : last - e >= StreamMaxLen}
  BY <1>1
<1>3. [e \in Entry |-> Status(e)]' =
        [e \in Entry |-> IF e \in S THEN "lost" ELSE [y \in Entry |-> Status(y)][e]]
  BY <1>1
<1> HIDE DEF S
<1> QED BY <1>2, <1>3 DEF Ledger!Forget, Ledger!Open, Ledger!Entry, Entry

\* A commit of worker w's batch writes its entries in the ledger.
LEMMA WriteStep ==
  ASSUME IInv, IInv', UNCHANGED <<first, last>>, NEW w \in Workers, wpc[w] = "flush",
         written' = written \cup batch[w],
         \A v \in Workers : v # w => wpc'[v] = wpc[v] /\ batch'[v] = batch[v],
         batch'[w] \subseteq batch[w]
  PROVE  Ledger!Write
<1> DEFINE S == batch[w] \ written
<1>0. batch[w] \subseteq Entry /\ \A e \in batch[w] : e <= last
  BY DEF IInv, TypeOK, DeliveredOnly, Entry
<1>1. ASSUME NEW e \in Entry
      PROVE  /\ e \in S => Status(e) = "open" /\ Status(e)' = "stored"
             /\ e \notin S => Status(e)' = Status(e)
  <2>1. Status(e) = IF e > last THEN "none" ELSE IF e \in written THEN "stored"
                    ELSE IF e >= first \/ Held(e) THEN "open" ELSE "lost"
    BY StatusSimple, StatusSimpleNext DEF StatusForm
  <2>2. Status(e)' = IF e > last THEN "none" ELSE IF e \in written' THEN "stored"
                     ELSE IF e >= first \/ Held(e)' THEN "open" ELSE "lost"
    BY StatusSimple, StatusSimpleNext DEF StatusForm
  <2>3. e \in batch[w] => Held(e) /\ ~(e > last) BY <1>0 DEF Held, IInv, TypeOK, Entry
  <2>4. e \notin batch[w] => (Held(e)' <=> Held(e)) BY DEF Held
  <2> QED BY <2>1, <2>2, <2>3, <2>4
<1>2. S \in SUBSET {x \in Entry : [y \in Entry |-> Status(y)][x] = "open"}
  BY <1>0, <1>1
<1>3. [e \in Entry |-> Status(e)]' =
        [e \in Entry |-> IF e \in S THEN "stored" ELSE [y \in Entry |-> Status(y)][e]]
  BY <1>1
<1> HIDE DEF S
<1> QED BY <1>2, <1>3 DEF Ledger!Write, Ledger!Open, Ledger!Entry, Entry

\* An XADD accepts an entry, and what it trims is beyond the window.
LEMMA AcceptStep ==
  ASSUME IInv, IInv', NEW r \in Requests, Xadd(r)
  PROVE  Ledger!Accept
<1> DEFINE S == {e \in Entry : Status(e) = "open" /\ Status(e)' = "lost"}
<1>0. /\ last' = last + 1 /\ last < MaxEntries /\ last \in Int /\ first \in Int /\ first' \in Int
      /\ first' >= first /\ first' <= last + 1
      /\ UNCHANGED <<written, wpc, batch>>
  <2>1. first' \in TrimTo(last + 1) /\ first \in Int /\ first' \in Int /\ last \in Int
    BY DEF Xadd, IInv, TypeOK
  <2>2. first' = first \/ first' > first BY <2>1 DEF TrimTo
  <2>3. first' >= first BY ONLY <2>1, <2>2
  <2>4. first' <= last + 1 BY <2>1 DEF TrimTo
  <2> QED BY <2>1, <2>3, <2>4 DEF Xadd, rows, workers
<1>1. ASSUME NEW e \in Entry, e # last + 1
      PROVE  Status(e)' = Status(e)
             \/ (e \in S /\ Status(e)' = "lost" /\ last + 1 - e >= StreamMaxLen)
  <2>1. Status(e) = IF e > last THEN "none" ELSE IF e \in written THEN "stored"
                    ELSE IF e >= first \/ Held(e) THEN "open" ELSE "lost"
    BY StatusSimple, StatusSimpleNext DEF StatusForm
  <2>2. Status(e)' = IF e > last' THEN "none" ELSE IF e \in written THEN "stored"
                     ELSE IF e >= first' \/ Held(e)' THEN "open" ELSE "lost"
    BY StatusSimpleNext, <1>0 DEF StatusForm
  <2>3. Held(e)' <=> Held(e) BY <1>0 DEF Held
  <2>4. e \in Int /\ (e > last' <=> e > last) BY <1>0, <1>1 DEF Entry
  <2>5. e < first' => last' - e >= StreamMaxLen BY TrimmedIsOldNext DEF TrimmedOld
  <2>6. e >= first' => e >= first BY <1>0, <2>4
  <2>7. CASE e >= first' BY <2>1, <2>2, <2>3, <2>4, <2>6, <2>7
  <2>8. CASE e < first' BY <1>0, <2>1, <2>2, <2>3, <2>4, <2>5, <2>8
  <2> QED BY <1>0, <2>4, <2>7, <2>8
<1>2. ASSUME NEW e \in Entry, e = last + 1
      PROVE  Status(e) = "none" /\ Status(e)' = "open"
  <2>1. e \notin written /\ e >= first' /\ e = last' /\ e > last
    BY <1>0, <1>2 DEF IInv, DeliveredOnly, TypeOK
  <2>2. Status(e)' = IF e > last' THEN "none" ELSE IF e \in written' THEN "stored"
                     ELSE IF e >= first' \/ Held(e)' THEN "open" ELSE "lost"
    BY StatusSimpleNext DEF StatusForm
  <2>3. ~(e > last') /\ e \notin written' BY <1>0, <2>1
  <2> QED BY <2>1, <2>2, <2>3 DEF Status
<1>3. S \in SUBSET {e \in {x \in Entry : [y \in Entry |-> Status(y)][x] = "open"} :
                      last + 1 - e >= StreamMaxLen}
  BY <1>1, <1>2
<1>4. [e \in Entry |-> Status(e)]' =
        [e \in Entry |-> IF e = last + 1 THEN "open"
                         ELSE IF e \in S THEN "lost" ELSE [y \in Entry |-> Status(y)][e]]
  BY <1>1, <1>2
<1> HIDE DEF S
<1> QED BY <1>0, <1>3, <1>4 DEF Ledger!Accept, Ledger!Open, Ledger!Entry, Entry

LEMMA LedgerStep ==
  ASSUME IInv, IInv', [Next]_vars
  PROVE  [Ledger!Next]_<<last, [e \in Entry |-> Status(e)]>>
<1> DEFINE Goal == Ledger!Accept \/ Ledger!Write \/ Ledger!Forget
<1>0. TypeOK BY DEF IInv
\* Steps that change no worker's batch or place in a flush, or only take it
\* out of one.
<1>a. ASSUME \A w \in Workers : wpc'[w] = "flush" => wpc[w] = "flush",
             \A w \in Workers : batch'[w] \subseteq batch[w],
             UNCHANGED <<first, last, written>>
      PROVE  Goal
  <2>1. \A e \in Entry : Held(e)' => Held(e) BY <1>a DEF Held
  <2> QED BY <1>a, <2>1, ForgetStep
\* Steps that start a flush on retained entries.
<1>b. ASSUME NEW w \in Workers, NEW S, NEW pc, StartFlush(w, S, pc), \A e \in S : e >= first,
             UNCHANGED <<first, last, written>>
      PROVE  Goal
  <2>1. \A v \in Workers : batch'[v] = IF v = w THEN S ELSE batch[v]
    BY <1>b, <1>0 DEF StartFlush, TypeOK
  <2>2. \A v \in Workers : v # w => wpc'[v] = wpc[v]
    BY <1>b, <1>0 DEF StartFlush, TypeOK
  <2>3. \A e \in Entry : Held(e)' => Held(e) \/ e >= first
    BY <1>b, <2>1, <2>2 DEF Held
  <2> QED BY <1>b, <2>3, ForgetStep
<1>1. ASSUME NEW r \in Requests, Xadd(r) PROVE Goal
  BY <1>1, AcceptStep
<1>2. ASSUME NEW r \in Requests,
             \/ \E n \in 1..MaxPings : Admit(r, n)
             \/ Reject(r) \/ IncrBy(r) \/ PublishFails(r)
      PROVE  Goal
  <2>1. UNCHANGED <<first, last, written, wpc, batch>>
    BY <1>2 DEF Admit, Reject, IncrBy, PublishFails, stream, rows, workers, vars
  <2> QED BY <1>a, <2>1
<1>3. ASSUME NEW w \in Workers, Claim(w) PROVE Goal
  <2>1. UNCHANGED <<first, last, written>> BY <1>3 DEF Claim, AutoClaim, stream, rows
  <2>2. \A e \in Claimed : e >= first BY DEF Claimed
  <2>3. CASE Claimed = {} BY <1>3, <1>0, <1>a, <2>1, <2>3 DEF Claim, Goto, TypeOK
  <2>4. CASE Claimed # {} BY <1>3, <1>b, <2>1, <2>2, <2>4 DEF Claim
  <2> QED BY <2>3, <2>4
<1>4. ASSUME NEW w \in Workers, ClaimLost(w) PROVE Goal
  <2>1. UNCHANGED <<first, last, written, wpc, batch>>
    BY <1>4 DEF ClaimLost, AutoClaim, stream, rows, workers
  <2> QED BY <1>a, <2>1
<1>5. ASSUME NEW w \in Workers, ReconcileStep(w) \/ ReadNothing(w) \/ Xack(w) \/ Restart(w) PROVE Goal
  <2>1. UNCHANGED <<first, last, written, batch>>
    BY <1>5 DEF ReconcileStep, XInfo, GetBacklog, SetZero, ReadNothing, Xack, Restart, stream, rows
  <2>2. \A v \in Workers : wpc'[v] = "flush" => wpc[v] = "flush"
    BY <1>5, <1>0 DEF ReconcileStep, XInfo, GetBacklog, SetZero, ReadNothing, Xack, Restart, Goto, TypeOK
  <2> QED BY <1>a, <2>1, <2>2
<1>6. ASSUME NEW w \in Workers, ReadNew(w) \/ DrainNew(w) PROVE Goal
  <2>1. ReadGroup(w) /\ \A e \in Deliverable : e >= first
    BY <1>6, EntrySetsAreEntries DEF ReadNew, DrainNew, Retained
  <2>2. UNCHANGED <<first, last, written>> BY <2>1 DEF ReadGroup, stream, rows
  <2> QED BY <1>6, <1>b, <2>1, <2>2 DEF ReadNew, DrainNew
<1>7. ASSUME NEW w \in Workers, NEW pc, Abandon(w, pc), pc # "flush", UNCHANGED <<first, last, written>>
      PROVE  Goal
  <2>1. \A v \in Workers : wpc'[v] = "flush" => wpc[v] = "flush"
    BY <1>7, <1>0 DEF Abandon, TypeOK
  <2>2. \A v \in Workers : batch'[v] \subseteq batch[v]
    BY <1>7, <1>0 DEF Abandon, TypeOK
  <2> QED BY <1>7, <1>a, <2>1, <2>2
<1>8. ASSUME NEW w \in Workers, ReadLost(w) PROVE Goal
  BY <1>7, <1>8 DEF ReadLost, ReadGroup, stream, rows
<1>9. ASSUME NEW w \in Workers,
             RedisFails(w) \/ Cancel(w) \/ DrainAborted(w) \/ Crash(w) \/ DrainDone(w)
      PROVE  Goal
  BY <1>7, <1>9 DEF RedisFails, Cancel, DrainAborted, Crash, DrainDone, stream, rows
<1>10. ASSUME NEW w \in Workers, DecrBy(w) \/ FlushFails(w) PROVE Goal
  <2>1. resume[w] # "flush" BY <1>0 DEF TypeOK
  <2>2. AfterFailedFlush(w) # "flush" BY <2>1 DEF AfterFailedFlush
  <2> QED BY <1>7, <1>10, <2>1, <2>2 DEF DecrBy, FlushFails, stream, rows
<1>11. ASSUME NEW w \in Workers, Commit(w) \/ CommitLost(w) PROVE Goal
  <2>1. /\ wpc[w] = "flush" /\ written' = written \cup batch[w] /\ UNCHANGED <<first, last>>
        /\ \A v \in Workers : v # w => wpc'[v] = wpc[v] /\ batch'[v] = batch[v]
        /\ batch'[w] \subseteq batch[w]
    BY <1>11, <1>0 DEF Commit, CommitLost, Store, Goto, Abandon, stream, TypeOK
  <2> QED BY <2>1, WriteStep
<1>12. ASSUME NEW w \in Workers, DrainPending(w) PROVE Goal
  <2>1. \A e \in History(w) : e >= first BY EntrySetsAreEntries DEF Retained
  <2>2. UNCHANGED <<first, last, written>> BY <1>12 DEF DrainPending, stream, rows
  <2>3. CASE History(w) = {} BY <1>12, <1>0, <1>a, <2>2, <2>3 DEF DrainPending, Goto, TypeOK
  <2>4. CASE History(w) # {} BY <1>12, <1>b, <2>1, <2>2, <2>4 DEF DrainPending
  <2> QED BY <2>3, <2>4
<1>13. ASSUME NEW e \in Entry, Age(e) PROVE Goal
  BY <1>13, <1>a DEF Age, stream, rows, workers
<1>14. ASSUME UNCHANGED vars PROVE Goal
  BY <1>14, <1>a DEF vars, stream, rows, workers
<1> HIDE DEF Goal
<1>15. Goal
  BY <1>1, <1>2, <1>3, <1>4, <1>5, <1>6, <1>8, <1>9, <1>10, <1>11, <1>12, <1>13, <1>14
     DEF Next, RequestStep, ReadStep, FlushStep, DrainStep, WorkerStep, WorkerFault
<1> QED BY <1>15 DEF Goal, Ledger!Next

\* Every behaviour of the write path, with its crashes and lost replies, is a
\* behaviour of the ledger: entries become rows or leave the window, no other
\* way out exists, and rows stay rows.
THEOREM ImplementsTheLedger == Spec => ImplementsLedger
<1>1. Init => Ledger!Init
  <2> SUFFICES ASSUME Init PROVE Ledger!Init
    OBVIOUS
  <2>1. \A e \in Entry : Status(e) = "none" BY DEF Init, Status, Entry
  <2> QED BY <2>1 DEF Init, Ledger!Init, Ledger!Entry, Entry
<1>2. IInv /\ IInv' /\ [Next]_vars => [Ledger!Next]_(Ledger!ledger)
  BY LedgerStep DEF Ledger!ledger
<1> QED BY <1>1, <1>2, Invariance, PTL DEF Spec, ImplementsLedger, Ledger!Spec
=============================================================================
