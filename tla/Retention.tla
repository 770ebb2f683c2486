----------------------------- MODULE Retention ------------------------------
(***************************************************************************)
(* The location_pings table and the retention workers that purge it, one   *)
(* in each API process, while the ingest workers insert.                   *)
(*                                                                         *)
(* A row is its place in the order of insertion, and has a recorded_at, in *)
(* days.  PostgreSQL is external: a DELETE works on the rows its statement *)
(* saw first, and skips those that another transaction has deleted         *)
(* meanwhile.                                                              *)
(***************************************************************************)
EXTENDS Integers, FiniteSets

CONSTANTS
    NumRows,        \* bound: rows ever inserted
    Purgers,        \* retention workers, one per process
    RetentionDays,  \* INGEST_RETENTION_DAYS
    BatchSize,      \* INGEST_RETENTION_BATCH_SIZE
    MaxPasses,      \* RETENTION_MAX_PASSES
    LastDay,        \* bound: the clock
    RecordedOn,     \* bound: the days the rows' pings were recorded on
    MaxFaults       \* bound: failed batches

ASSUME RetentionAssumption ==
    /\ RetentionDays \in Nat \ {0} /\ BatchSize \in Nat \ {0} /\ MaxPasses \in Nat \ {0}
    /\ LastDay \in Nat /\ RetentionDays < LastDay /\ RecordedOn \subseteq 0..LastDay
    /\ NumRows \in Nat /\ MaxFaults \in Nat

Rows == 1..NumRows

VARIABLES
    now,
    inserted,       \* how many rows have been inserted
    rows,           \* those in the table
    recordedAt,     \* recordedAt[r]: recorded_at of a row in the table, else 0
    pc,             \* pc[w]: "sleep", "select" or "delete"
    cutoff,         \* cutoff[w]: of the purge under way, else 0
    passes,         \* passes[w]: passes it has made, else 0
    chosen,         \* chosen[w]: the rows its DELETE saw and selected
    faults,
    \* History, read by no action:
    late            \* late[w]: rows inserted since the DELETE under way saw the table

table == <<inserted, rows, recordedAt>>
purge == <<pc, cutoff, passes, chosen, late>>
vars == <<now, table, purge, faults>>

\* The first day on which a row of day 0 is old enough to go.
Init ==
    /\ now = RetentionDays + 1
    /\ inserted = 0 /\ rows = {} /\ recordedAt = [r \in Rows |-> 0]
    /\ pc = [w \in Purgers |-> "sleep"]
    /\ cutoff = [w \in Purgers |-> 0]
    /\ passes = [w \in Purgers |-> 0]
    /\ chosen = [w \in Purgers |-> {}]
    /\ faults = 0
    /\ late = [w \in Purgers |-> {}]

-----------------------------------------------------------------------------
Tick ==
    /\ now < LastDay
    /\ now' = now + 1
    /\ UNCHANGED <<table, purge, faults>>

\* A ping is accepted and written: LocationRequest takes any recorded_at.
Insert(at) ==
    LET r == inserted + 1
    IN  /\ r \in Rows
        /\ inserted' = r /\ rows' = rows \cup {r}
        /\ recordedAt' = [recordedAt EXCEPT ![r] = at]
        /\ late' = [w \in Purgers |-> IF pc[w] = "delete" THEN late[w] \cup {r} ELSE late[w]]
        /\ UNCHANGED <<now, pc, cutoff, passes, chosen, faults>>

Expired(day) == {r \in rows : recordedAt[r] < day}

OneDayEarly == now - RetentionDays + 1   \* mutant: off by one
OneDayLate == now - RetentionDays - 1    \* mutant: off by one
Cutoff == now - RetentionDays

\* RETENTION_INTERVAL_S pass: purge_expired_pings begins.
Begin(w) ==
    /\ pc[w] = "sleep"
    /\ pc' = [pc EXCEPT ![w] = "select"]
    /\ cutoff' = [cutoff EXCEPT ![w] = Cutoff]
    /\ UNCHANGED <<now, table, passes, chosen, faults, late>>

\* The DELETE of a pass takes its snapshot: any batch_size expired rows.
Select(w) ==
    /\ pc[w] = "select"
    /\ \E S \in SUBSET Expired(cutoff[w]) :
          /\ Cardinality(S) <= BatchSize
          /\ Cardinality(S) = BatchSize \/ S = Expired(cutoff[w])
          /\ chosen' = [chosen EXCEPT ![w] = S]
    /\ pc' = [pc EXCEPT ![w] = "delete"]
    /\ UNCHANGED <<now, table, cutoff, passes, faults, late>>

\* Mutant: a full batch ends the purge as well.
EndsEarly(w, removed) == removed <= BatchSize \/ passes[w] + 1 = MaxPasses
\* The loop of purge_expired_pings ends: a short batch, or the last pass.
Ends(w, removed) == removed < BatchSize \/ passes[w] + 1 = MaxPasses

\* The purge ends and its locals die.
Leave(w, at) ==
    /\ pc' = [pc EXCEPT ![w] = at]
    /\ cutoff' = [cutoff EXCEPT ![w] = 0]
    /\ passes' = [passes EXCEPT ![w] = 0]

NextPass(w) ==
    /\ pc' = [pc EXCEPT ![w] = "select"]
    /\ passes' = [passes EXCEPT ![w] = @ + 1]
    /\ UNCHANGED cutoff

StatementEnds(w) == chosen' = [chosen EXCEPT ![w] = {}] /\ late' = [late EXCEPT ![w] = {}]

\* It deletes those of them that are still there, and commits.
Delete(w) ==
    /\ pc[w] = "delete"
    /\ rows' = rows \ chosen[w]
    /\ recordedAt' = [r \in Rows |-> IF r \in chosen[w] THEN 0 ELSE recordedAt[r]]
    /\ IF Ends(w, Cardinality(chosen[w] \cap rows)) THEN Leave(w, "sleep") ELSE NextPass(w)
    /\ StatementEnds(w)
    /\ UNCHANGED <<now, inserted, faults>>

Abandon(w, at) ==
    /\ faults < MaxFaults /\ faults' = faults + 1
    /\ pc[w] \in {"select", "delete"}
    /\ Leave(w, at) /\ StatementEnds(w)
    /\ UNCHANGED <<now, table>>

FailsForGood(w) == Abandon(w, "failed")   \* mutant: the error ends the task

\* The batch fails: the pass is given up until the next interval.
Fails(w) == Abandon(w, "sleep")

Next ==
    \/ Tick
    \/ \E at \in RecordedOn : Insert(at)
    \/ \E w \in Purgers : Begin(w) \/ Select(w) \/ Delete(w) \/ Fails(w)

Spec == Init /\ [][Next]_vars

\* The worker's sleep ends and its statements are answered, or fail.
FairSpec == Spec /\ \A w \in Purgers : WF_vars(Begin(w)) /\ WF_vars(Select(w)) /\ WF_vars(Delete(w))

-----------------------------------------------------------------------------
TypeOK ==
    /\ now \in 0..LastDay
    /\ inserted \in 0..NumRows /\ rows \subseteq 1..inserted
    /\ recordedAt \in [Rows -> 0..LastDay]
    /\ pc \in [Purgers -> {"sleep", "select", "delete"}]
    /\ cutoff \in [Purgers -> 0..LastDay] /\ passes \in [Purgers -> 0..MaxPasses - 1]
    /\ chosen \in [Purgers -> SUBSET Rows]
    /\ faults \in 0..MaxFaults
    /\ late \in [Purgers -> SUBSET Rows]

\* README.md: "Deletes `location_pings` rows older than `INGEST_RETENTION_DAYS`",
\* and no younger row, although a purge keeps its cutoff while days pass.
OnlyExpiredRowsGo == [][\A r \in rows \ rows' : recordedAt[r] + RetentionDays < now]_vars

\* A purge that does not fail leaves no row older than its cutoff but those that
\* its last DELETE could not see, being inserted later.  There are two
\* exceptions, both after a full batch: that pass was the last one allowed, or
\* another process took rows of the batch away, which makes it look short.
PurgeIsComplete ==
    [][\A w \in Purgers :
          pc[w] = "delete" /\ pc'[w] = "sleep" /\ faults' = faults =>
              \/ \A r \in rows' : recordedAt[r] < cutoff[w] => r \in late[w]
              \/ /\ Cardinality(chosen[w]) = BatchSize
                 /\ passes[w] + 1 = MaxPasses \/ ~(chosen[w] \subseteq rows)]_vars

\* README.md: "keeping the table bounded": an expired row goes in the end,
\* although passes are bounded, two purgers stop each other's loop short, and
\* batches fail.
ExpiredRowsGo == \A r \in Rows : (r \in rows /\ recordedAt[r] + RetentionDays < now) ~> (r \notin rows)
=============================================================================
