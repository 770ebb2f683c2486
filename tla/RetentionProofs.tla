-------------------------- MODULE RetentionProofs ---------------------------
(***************************************************************************)
(* Proofs about the retention workers, for any rows, purgers, retention,   *)
(* batch size, number of passes and faults.                                *)
(***************************************************************************)
EXTENDS Retention, TLAPS

-----------------------------------------------------------------------------
(* The inductive invariant.                                                *)

\* The clock starts with a full retention behind it, as every cutoff has.
CutoffInv ==
    /\ RetentionDays <= now
    /\ \A w \in Purgers : pc[w] # "sleep" => cutoff[w] + RetentionDays <= now

\* A DELETE has selected inserted rows older than its cutoff, and no row is late
\* for one that is not under way.
ChosenInv ==
    \A w \in Purgers :
        /\ pc[w] # "delete" => chosen[w] = {} /\ late[w] = {}
        /\ \A r \in chosen[w] : r \in 1..inserted /\ recordedAt[r] < cutoff[w]

\* It has a full batch, or all of them but the late ones.
BatchInv ==
    \A w \in Purgers : pc[w] = "delete" =>
        \/ Cardinality(chosen[w]) = BatchSize
        \/ \A r \in Expired(cutoff[w]) : r \in chosen[w] \cup late[w]

IInv == TypeOK /\ CutoffInv /\ ChosenInv /\ BatchInv

-----------------------------------------------------------------------------
(* The parts of the invariant, step by step.                               *)

\* What a DELETE does, whether or not its purge ends with it.
LEMMA DeleteEffect ==
  ASSUME TypeOK, NEW w \in Purgers, Delete(w)
  PROVE  /\ rows' = rows \ chosen[w] /\ \A r \in rows' : recordedAt'[r] = recordedAt[r]
         /\ \A r \in Rows : recordedAt'[r] \in {0, recordedAt[r]}
         /\ chosen' = [chosen EXCEPT ![w] = {}] /\ late' = [late EXCEPT ![w] = {}]
         /\ UNCHANGED <<now, inserted, faults>>
         /\ pc'[w] # "delete"
         /\ pc' \in [Purgers -> {"sleep", "select", "delete"}] /\ passes' \in [Purgers -> 0..MaxPasses - 1]
         /\ cutoff' \in [Purgers -> 0..LastDay]
         /\ \A v \in Purgers : v # w => pc'[v] = pc[v] /\ cutoff'[v] = cutoff[v]
         /\ pc'[w] # "sleep" => cutoff'[w] = cutoff[w]
<1> USE RetentionAssumption DEF TypeOK
<1> DEFINE removed == Cardinality(chosen[w] \cap rows)
<1>1. /\ rows' = rows \ chosen[w] /\ UNCHANGED <<now, inserted, faults>>
      /\ recordedAt' = [r \in Rows |-> IF r \in chosen[w] THEN 0 ELSE recordedAt[r]]
      /\ chosen' = [chosen EXCEPT ![w] = {}] /\ late' = [late EXCEPT ![w] = {}]
  BY DEF Delete, StatementEnds
<1>2. rows \subseteq Rows BY DEF Rows
<1>3. CASE Ends(w, removed)
  <2>1. Leave(w, "sleep") BY <1>3 DEF Delete
  <2> QED BY <1>1, <1>2, <2>1 DEF Leave
<1>4. CASE ~Ends(w, removed)
  <2>1. NextPass(w) BY <1>4 DEF Delete
  <2>2. passes[w] + 1 # MaxPasses /\ passes[w] \in 0..MaxPasses - 1 BY <1>4 DEF Ends
  <2>3. passes[w] + 1 \in 0..MaxPasses - 1 BY <2>2
  <2> QED BY <1>1, <1>2, <2>1, <2>3 DEF NextPass
<1> QED BY <1>3, <1>4

LEMMA TypeStep == TypeOK /\ CutoffInv /\ ChosenInv /\ [Next]_vars => TypeOK' /\ CutoffInv' /\ ChosenInv'
<1> SUFFICES ASSUME TypeOK, CutoffInv, ChosenInv, [Next]_vars PROVE TypeOK' /\ CutoffInv' /\ ChosenInv'
  OBVIOUS
<1> USE RetentionAssumption DEF TypeOK, CutoffInv, table, purge
<1>1. CASE Tick
  <2>1. now' = now + 1 /\ now' \in 0..LastDay BY <1>1 DEF Tick
  <2>2. UNCHANGED <<inserted, rows, recordedAt, pc, cutoff, passes, chosen, faults, late>>
    BY <1>1 DEF Tick
  <2>3. TypeOK' BY <2>1, <2>2
  <2>4. CutoffInv' BY <2>1, <2>2
  <2>5. ChosenInv' BY <2>2 DEF ChosenInv
  <2> QED BY <2>3, <2>4, <2>5
<1>2. ASSUME NEW at \in RecordedOn, Insert(at)
      PROVE  TypeOK' /\ CutoffInv' /\ ChosenInv'
  <2> DEFINE r == inserted + 1
  <2>1. /\ r \in Rows /\ inserted' = r /\ rows' = rows \cup {r} /\ at \in 0..LastDay
        /\ recordedAt' = [recordedAt EXCEPT ![r] = at]
        /\ late' = [w \in Purgers |-> IF pc[w] = "delete" THEN late[w] \cup {r} ELSE late[w]]
        /\ UNCHANGED <<now, pc, cutoff, passes, chosen, faults>>
    BY <1>2 DEF Insert
  <2>2. 1..inserted \subseteq 1..r /\ r \in 1..r /\ r \notin 1..inserted /\ r \in 0..NumRows
    BY <2>1 DEF Rows
  <2> HIDE DEF r
  <2>3. TypeOK' BY <2>1, <2>2
  <2>4. CutoffInv' BY <2>1
  <2>5. ChosenInv'
    <3> SUFFICES ASSUME NEW w \in Purgers
                 PROVE  /\ pc'[w] # "delete" => chosen'[w] = {} /\ late'[w] = {}
                        /\ \A x \in chosen'[w] : x \in 1..inserted' /\ recordedAt'[x] < cutoff'[w]
      BY DEF ChosenInv
    <3>1. pc'[w] # "delete" => chosen'[w] = {} /\ late'[w] = {} BY <2>1 DEF ChosenInv
    <3>2. ASSUME NEW x \in chosen[w] PROVE x \in 1..inserted' /\ recordedAt'[x] < cutoff'[w]
      <4>1. x \in 1..inserted /\ recordedAt[x] < cutoff[w] BY <3>2 DEF ChosenInv
      <4>2. x # r /\ x \in Rows BY <2>2, <3>2, <4>1
      <4> QED BY <2>1, <2>2, <4>1, <4>2
    <3> QED BY <2>1, <3>1, <3>2
  <2> QED BY <2>3, <2>4, <2>5
<1>3. ASSUME NEW w \in Purgers, Begin(w) PROVE TypeOK' /\ CutoffInv' /\ ChosenInv'
  <2>1. Cutoff \in 0..LastDay /\ Cutoff + RetentionDays <= now BY DEF Cutoff
  <2>2. TypeOK' BY <1>3, <2>1 DEF Begin
  <2>3. CutoffInv' BY <1>3, <2>1 DEF Begin
  <2>4. ChosenInv' BY <1>3 DEF Begin, ChosenInv
  <2> QED BY <2>2, <2>3, <2>4
<1>4. ASSUME NEW w \in Purgers, Select(w) PROVE TypeOK' /\ CutoffInv' /\ ChosenInv'
  <2> PICK S \in SUBSET Expired(cutoff[w]) : chosen' = [chosen EXCEPT ![w] = S]
    BY <1>4 DEF Select
  <2>1. S \subseteq Rows /\ \A r \in S : r \in 1..inserted /\ recordedAt[r] < cutoff[w]
    BY DEF Expired, Rows
  <2>2. TypeOK' BY <1>4, <2>1 DEF Select
  <2>3. CutoffInv' BY <1>4 DEF Select
  <2>4. ChosenInv' BY <1>4, <2>1 DEF Select, ChosenInv
  <2> QED BY <2>2, <2>3, <2>4
<1>5. ASSUME NEW w \in Purgers, Delete(w) PROVE TypeOK' /\ CutoffInv' /\ ChosenInv'
  <2>1. TypeOK'
    <3>1. recordedAt' \in [Rows -> 0..LastDay] BY <1>5 DEF Delete
    <3> QED BY <1>5, <3>1, DeleteEffect
  <2>2. CutoffInv'
    <3>1. now' = now BY <1>5, DeleteEffect
    <3>2. ASSUME NEW v \in Purgers, pc'[v] # "sleep" PROVE cutoff'[v] + RetentionDays <= now
      <4>1. cutoff'[v] = cutoff[v] /\ pc[v] # "sleep"
        BY <1>5, <3>2, DeleteEffect DEF Delete
      <4> QED BY <4>1
    <3> QED BY <3>1, <3>2
  <2>3. ChosenInv'
    <3> SUFFICES ASSUME NEW v \in Purgers
                 PROVE  /\ pc'[v] # "delete" => chosen'[v] = {} /\ late'[v] = {}
                        /\ \A x \in chosen'[v] : x \in 1..inserted' /\ recordedAt'[x] < cutoff'[v]
      BY DEF ChosenInv
    <3>1. CASE v = w
      <4>1. chosen'[w] = {} /\ late'[w] = {} BY <1>5, DeleteEffect
      <4> QED BY <3>1, <4>1
    <3>2. CASE v # w
      <4>1. /\ chosen'[v] = chosen[v] /\ late'[v] = late[v] /\ pc'[v] = pc[v] /\ cutoff'[v] = cutoff[v]
            /\ inserted' = inserted
        BY <1>5, <3>2, DeleteEffect
      <4>2. ASSUME NEW x \in chosen[v] PROVE x \in 1..inserted /\ recordedAt'[x] < cutoff[v]
        <5>1. x \in 1..inserted /\ recordedAt[x] < cutoff[v] /\ x \in Rows BY <4>2 DEF ChosenInv
        <5>2. recordedAt'[x] \in {0, recordedAt[x]} BY <1>5, <5>1, DeleteEffect
        <5>3. recordedAt[x] \in Nat /\ cutoff[v] \in Nat BY <5>1
        <5> QED BY <5>1, <5>2, <5>3
      <4> QED BY <4>1, <4>2 DEF ChosenInv
    <3> QED BY <3>1, <3>2
  <2> QED BY <2>1, <2>2, <2>3
<1>6. ASSUME NEW w \in Purgers, Fails(w) PROVE TypeOK' /\ CutoffInv' /\ ChosenInv'
  <2> USE <1>6 DEF Fails, Abandon, Leave, StatementEnds
  <2>1. TypeOK' OBVIOUS
  <2>2. CutoffInv' OBVIOUS
  <2>3. ChosenInv' BY DEF ChosenInv
  <2> QED BY <2>1, <2>2, <2>3
<1>7. CASE UNCHANGED vars
  BY <1>7 DEF vars, ChosenInv
<1> QED BY <1>1, <1>2, <1>3, <1>4, <1>5, <1>6, <1>7 DEF Next

LEMMA BatchStep ==
  ASSUME TypeOK, ChosenInv, BatchInv, [Next]_vars
  PROVE  BatchInv'
<1> USE DEF TypeOK, table, purge, BatchInv
<1>1. CASE Tick BY <1>1 DEF Tick, Expired
<1>2. ASSUME NEW at \in RecordedOn, Insert(at) PROVE BatchInv'
  <2> SUFFICES ASSUME NEW w \in Purgers, pc'[w] = "delete", Cardinality(chosen'[w]) # BatchSize,
                      NEW x \in Expired(cutoff[w])'
               PROVE  x \in chosen'[w] \cup late'[w]
    OBVIOUS
  <2> DEFINE r == inserted + 1
  <2>1. /\ rows' = rows \cup {r} /\ recordedAt' = [recordedAt EXCEPT ![r] = at]
        /\ UNCHANGED <<pc, cutoff, chosen>> /\ late'[w] = late[w] \cup {r}
    BY <1>2 DEF Insert
  <2>2. x \in rows' /\ recordedAt'[x] < cutoff[w] BY <2>1 DEF Expired
  <2>3. x = r \/ x \in Expired(cutoff[w])
    <3>1. ASSUME x # r PROVE x \in rows /\ recordedAt'[x] = recordedAt[x]
      BY <2>1, <2>2, <3>1 DEF Rows
    <3> QED BY <2>2, <3>1 DEF Expired
  <2> QED BY <2>1, <2>3
<1>3. ASSUME NEW w \in Purgers, Begin(w) PROVE BatchInv'
  BY <1>3 DEF Begin, Expired
<1>4. ASSUME NEW w \in Purgers, Select(w) PROVE BatchInv'
  BY <1>4 DEF Select, Expired
<1>5. ASSUME NEW w \in Purgers, Delete(w) PROVE BatchInv'
  <2>1. \A day : Expired(day)' \subseteq Expired(day) BY <1>5, DeleteEffect DEF Expired
  <2>2. \A v \in Purgers : pc'[v] = "delete" =>
            /\ v # w /\ pc[v] = "delete" /\ cutoff'[v] = cutoff[v]
            /\ chosen'[v] = chosen[v] /\ late'[v] = late[v]
    BY <1>5, DeleteEffect
  <2> QED BY <2>1, <2>2 DEF Expired
<1>6. ASSUME NEW w \in Purgers, Fails(w) PROVE BatchInv'
  BY <1>6 DEF Fails, Abandon, Leave, StatementEnds, Expired
<1>7. CASE UNCHANGED vars BY <1>7 DEF vars, Expired
<1> QED BY <1>1, <1>2, <1>3, <1>4, <1>5, <1>6, <1>7 DEF Next

-----------------------------------------------------------------------------
(* The theorems.                                                           *)

LEMMA Initial == Init => IInv
<1> SUFFICES ASSUME Init PROVE IInv
  OBVIOUS
<1> USE RetentionAssumption DEF Init
<1>1. TypeOK BY DEF TypeOK
<1>2. CutoffInv /\ ChosenInv BY DEF CutoffInv, ChosenInv
<1>3. BatchInv BY DEF BatchInv
<1> QED BY <1>1, <1>2, <1>3 DEF IInv

LEMMA Inductive == IInv /\ [Next]_vars => IInv'
  BY TypeStep, BatchStep DEF IInv

\* Clock, table and purges keep to their types: a purge makes no more than its
\* RETENTION_MAX_PASSES, and no cutoff is before the clock's beginning.
THEOREM TypeCorrect == Spec => []TypeOK
<1>1. IInv => TypeOK BY DEF IInv
<1> QED BY Initial, Inductive, <1>1, PTL DEF Spec

\* A step that takes rows out of the table is the DELETE of one purger.
LEMMA OnlyDeleteRemoves ==
  ASSUME TypeOK, [Next]_vars, ~(rows \subseteq rows')
  PROVE  \E w \in Purgers : Delete(w)
  BY DEF Next, Tick, Insert, Begin, Select, Fails, Abandon, table, vars

\* No row leaves the table before it is RetentionDays old, however long a purge
\* has been under way and whoever else purges.
THEOREM OnlyExpiredRows == Spec => OnlyExpiredRowsGo
<1>1. ASSUME IInv, [Next]_vars, NEW r \in rows \ rows' PROVE recordedAt[r] + RetentionDays < now
  <2>1. PICK w \in Purgers : Delete(w) BY <1>1, OnlyDeleteRemoves DEF IInv
  <2>2. r \in chosen[w] BY <1>1, <2>1 DEF Delete
  <2>3. recordedAt[r] < cutoff[w] /\ cutoff[w] + RetentionDays <= now
    BY <1>1, <2>1, <2>2 DEF IInv, ChosenInv, CutoffInv, Delete
  <2>4. recordedAt[r] \in Int /\ cutoff[w] \in Int /\ now \in Int
    <3>1. r \in Rows BY <1>1, RetentionAssumption DEF IInv, TypeOK, Rows
    <3> QED BY <1>1, <3>1 DEF IInv, TypeOK
  <2> QED BY <2>3, <2>4, RetentionAssumption
<1>2. IInv /\ [Next]_vars => [\A r \in rows \ rows' : recordedAt[r] + RetentionDays < now]_vars
  BY <1>1
<1> QED BY Initial, Inductive, <1>2, PTL DEF Spec, OnlyExpiredRowsGo

\* A purge that does not fail leaves no row older than its cutoff but those
\* inserted after its last DELETE took its snapshot, unless after a full batch
\* its passes ran out, or another process had taken rows of that batch.
THEOREM PurgeLeavesNoExpiredRow == Spec => PurgeIsComplete
<1>1. ASSUME IInv, [Next]_vars, NEW w \in Purgers, pc[w] = "delete", pc'[w] = "sleep", faults' = faults,
             ~(/\ Cardinality(chosen[w]) = BatchSize
               /\ passes[w] + 1 = MaxPasses \/ ~(chosen[w] \subseteq rows)),
             NEW r \in rows', recordedAt[r] < cutoff[w]
      PROVE  r \in late[w]
  <2>1. faults \in Nat /\ pc = [v \in Purgers |-> pc[v]] BY <1>1, RetentionAssumption DEF IInv, TypeOK
  <2>2. Delete(w)
    <3>1. pc' # pc BY <1>1
    <3>2. PICK v \in Purgers : Begin(v) \/ Select(v) \/ Delete(v) \/ Fails(v)
      BY <1>1, <3>1 DEF Next, Tick, Insert, purge, vars
    <3>3. ~Fails(v) BY <1>1, <2>1 DEF Fails, Abandon
    <3>4. ~Begin(v) /\ ~Select(v) BY <1>1, <2>1 DEF Begin, Select
    <3>5. Delete(v) => v = w BY <1>1, <2>1, DeleteEffect DEF IInv
    <3> QED BY <3>2, <3>3, <3>4, <3>5
  <2>3. r \in Expired(cutoff[w]) /\ r \notin chosen[w] BY <1>1, <2>2 DEF Delete, Expired
  <2>4. CASE Cardinality(chosen[w]) # BatchSize
    BY <1>1, <2>3, <2>4 DEF IInv, BatchInv
  <2>5. CASE Cardinality(chosen[w]) = BatchSize
    <3>1. chosen[w] \cap rows = chosen[w] /\ passes[w] + 1 # MaxPasses BY <1>1, <2>5
    <3>a. Cardinality(chosen[w] \cap rows) = BatchSize BY <2>5, <3>1
    <3>b. ~(BatchSize < BatchSize) BY RetentionAssumption
    <3>2. ~Ends(w, Cardinality(chosen[w] \cap rows))
      BY <3>1, <3>a, <3>b DEF Ends
    <3>3. pc'[w] = "select" BY <1>1, <2>2, <3>2 DEF Delete, NextPass, IInv, TypeOK
    <3> QED BY <1>1, <3>3
  <2> QED BY <2>4, <2>5
<1>2. IInv /\ [Next]_vars => [\A w \in Purgers :
          pc[w] = "delete" /\ pc'[w] = "sleep" /\ faults' = faults =>
              \/ \A r \in rows' : recordedAt[r] < cutoff[w] => r \in late[w]
              \/ /\ Cardinality(chosen[w]) = BatchSize
                 /\ passes[w] + 1 = MaxPasses \/ ~(chosen[w] \subseteq rows)]_vars
  BY <1>1
<1> QED BY Initial, Inductive, <1>2, PTL DEF Spec, PurgeIsComplete
=============================================================================
