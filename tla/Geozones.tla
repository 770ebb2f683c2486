------------------------------ MODULE Geozones ------------------------------
(***************************************************************************)
(* The geozone API: POST, PATCH and DELETE handlers of one or many         *)
(* processes, each in a transaction of its own on one table.               *)
(*                                                                         *)
(* PATCH and DELETE first retrieve the geozone (dependencies.get_geozone)  *)
(* and act on it in a later statement.  The table is PostgreSQL's, READ    *)
(* COMMITTED: a write waits for the row another transaction has written,   *)
(* and then sees what that transaction left; a new name waits in the       *)
(* unique index for a transaction that is about to take or to free it.     *)
(* GET handlers change nothing and are left out.  The column `bounds', an  *)
(* envelope of the circle that the matcher's index looks at first, is kept *)
(* by a trigger; here it is the centre and radius it was computed from.    *)
(***************************************************************************)
EXTENDS Integers, FiniteSets

CONSTANTS
    Handlers,       \* requests in progress at once
    Users,          \* user ids
    Names,          \* geozone names
    Centers,        \* points
    Radii,          \* radius_m
    NoZone,         \* no row
    Patches,        \* the sets of fields that requests set
    Initial,        \* the rows that earlier requests have left
    NumIds,         \* bound: geozone ids
    MaxRequests,    \* bound: requests
    MaxFaults       \* bound: failed statements

Id == 1..NumIds
Zone == [user : Users, name : Names, center : Centers, radius : Radii, bounds : Centers \X Radii]

\* The fields a PATCH sets (exclude_unset).
Fields ==
    LET values == [name |-> Names, center |-> Centers, radius |-> Radii]
    IN  {f \in UNION {[K -> Names \cup Centers \cup Radii] : K \in SUBSET DOMAIN values} :
            \A k \in DOMAIN f : f[k] \in values[k]}

\* A request: POST has no id yet, DELETE no fields.
Request == [op : {"create", "update", "delete"}, user : Users, id : 0..NumIds, fields : Fields]

ASSUME HandlersAssumption == IsFiniteSet(Handlers)
ASSUME NoZoneAssumption == NoZone \notin Zone \cup Request
ASSUME PatchesAssumption == Patches \subseteq Fields
\* The index and the trigger were there from the first row on.
ASSUME InitialAssumption ==
    /\ Initial \in [Id -> Zone \cup {NoZone}]
    /\ \A i, j \in Id : i # j /\ Initial[i] # NoZone /\ Initial[j] # NoZone =>
          <<Initial[i].user, Initial[i].name>> # <<Initial[j].user, Initial[j].name>>
    /\ \A i \in Id : Initial[i] # NoZone =>
          Initial[i].bounds = <<Initial[i].center, Initial[i].radius>>
ASSUME BoundsAssumption == NumIds \in Nat /\ MaxRequests \in Nat /\ MaxFaults \in Nat

VARIABLES
    zones,      \* zones[i]: the committed row with id i
    nextId,     \* the id sequence, which no rollback takes back
    pc,         \* pc[h]: the next statement of handler h
    request,    \* request[h]: what it was asked
    geozone,    \* geozone[h]: what it has retrieved
    held,       \* held[h]: the row its transaction has written, or 0
    draft,      \* draft[h]: the version it has written, NoZone for a DELETE
    status,     \* status[h]: its last answer
    requests, faults,
    deleted     \* history, read by no action: ids whose DELETE was answered 204

handlerVars == <<pc, request, geozone, held, draft, status>>
vars == <<zones, nextId, handlerVars, requests, faults, deleted>>

\* UNIQUE (user_id, name).
SameKey(z, y) == z.user = y.user /\ z.name = y.name

\* Deleted rows and refused inserts have left gaps in the sequence of ids.
Init ==
    /\ zones = Initial
    /\ nextId \in {n \in 1..NumIds + 1 : \A i \in Id : i >= n => Initial[i] = NoZone}
    /\ pc = [h \in Handlers |-> "idle"]
    /\ request = [h \in Handlers |-> NoZone]
    /\ geozone = [h \in Handlers |-> NoZone]
    /\ held = [h \in Handlers |-> 0]
    /\ draft = [h \in Handlers |-> NoZone]
    /\ status = [h \in Handlers |-> 0]
    /\ requests = 0 /\ faults = 0 /\ deleted = {}

-----------------------------------------------------------------------------
Goto(h, s) == pc' = [pc EXCEPT ![h] = s]

\* The handler answers; its transaction, committed or not, is over.
Answer(h, code) ==
    /\ Goto(h, "idle")
    /\ request' = [request EXCEPT ![h] = NoZone]
    /\ geozone' = [geozone EXCEPT ![h] = NoZone]
    /\ held' = [held EXCEPT ![h] = 0]
    /\ draft' = [draft EXCEPT ![h] = NoZone]
    /\ status' = [status EXCEPT ![h] = code]

\* ROLLBACK, explicit or by closing the session, and an error response.
Refuse(h, code) == Answer(h, code) /\ UNCHANGED <<zones, nextId, requests, deleted>>

Write(h, i, z) ==
    /\ held' = [held EXCEPT ![h] = i]
    /\ draft' = [draft EXCEPT ![h] = z]

Arrives(h, r) ==
    /\ pc[h] = "idle"
    /\ requests < MaxRequests
    /\ requests' = requests + 1
    /\ request' = [request EXCEPT ![h] = r]
    /\ status' = [status EXCEPT ![h] = 0]
    /\ Goto(h, IF r.op = "create" THEN "write" ELSE "retrieve")
    /\ UNCHANGED <<zones, nextId, geozone, held, draft, faults, deleted>>

Inserting == {h \in Handlers : pc[h] = "write" /\ request[h].op = "create"}

Create(h) ==
    /\ nextId + Cardinality(Inserting) <= NumIds
    /\ \E u \in Users, n \in Names, c \in Centers, r \in Radii :
          Arrives(h, [op |-> "create", user |-> u, id |-> 0,
                      fields |-> [name |-> n, center |-> c, radius |-> r]])

Patch(h) ==
    \E u \in Users, i \in Id, f \in Patches :
        Arrives(h, [op |-> "update", user |-> u, id |-> i, fields |-> f])

Delete(h) ==
    \E u \in Users, i \in Id :
        Arrives(h, [op |-> "delete", user |-> u, id |-> i, fields |-> <<>>])

-----------------------------------------------------------------------------
\* The WHERE of retrieve: this id, this user.
AnyUsers(h) == zones[request[h].id] # NoZone   \* mutant: no user_id in the WHERE
Visible(h) ==
    /\ zones[request[h].id] # NoZone
    /\ zones[request[h].id].user = request[h].user

Retrieve(h) ==
    /\ pc[h] = "retrieve"
    /\ Visible(h)
    /\ geozone' = [geozone EXCEPT ![h] = zones[request[h].id]]
    /\ Goto(h, "write")
    /\ UNCHANGED <<zones, nextId, request, held, draft, status, requests, faults, deleted>>

NotFound(h) ==
    /\ pc[h] = "retrieve"
    /\ ~Visible(h)
    /\ Refuse(h, 404)
    /\ UNCHANGED faults

\* Another transaction has written the row: the statement waits for it.
Locked(i) == \E t \in Handlers : held[t] = i

\* The WHERE of update and delete, on the row as it is now.
Stands(h) ==
    /\ zones[request[h].id] # NoZone
    /\ zones[request[h].id].user = geozone[h].user

Set(z, f) == [k \in DOMAIN z |-> IF k \in DOMAIN f THEN f[k] ELSE z[k]]

Enveloped(z) == [z EXCEPT !.bounds = <<z.center, z.radius>>]

\* Mutant: the trigger is BEFORE UPDATE OF center.
CenterTrigger(z, f) == IF "center" \in DOMAIN f THEN Enveloped(z) ELSE z
\* trg_geozones_set_bounds, for an UPDATE that sets the columns of f: it sees
\* the row as the statement is about to write it.
BoundsTrigger(z, f) == IF DOMAIN f \cap {"center", "radius"} # {} THEN Enveloped(z) ELSE z

\* Mutant: all fields are written, as they were retrieved.
AsRetrieved(h) == BoundsTrigger(Set(geozone[h], request[h].fields), request[h].fields)
Replacement(h) == request[h].fields                    \* mutant: PUT for PATCH
\* What an update writes: the row with the fields that were set.
Updated(h) == BoundsTrigger(Set(zones[request[h].id], request[h].fields), request[h].fields)

\* INSERT puts a row in the table; its name is still to enter the index.
Insert(h) ==
    /\ pc[h] = "write" /\ request[h].op = "create"
    /\ nextId' = nextId + 1
    /\ LET f == request[h].fields
       IN  Write(h, nextId, [user |-> request[h].user, name |-> f.name, center |-> f.center,
                             radius |-> f.radius, bounds |-> <<f.center, f.radius>>])
    /\ Goto(h, "index")
    /\ UNCHANGED <<zones, request, geozone, status, requests, faults, deleted>>

Update(h) ==
    /\ pc[h] = "write" /\ request[h].op = "update"
    /\ ~Locked(request[h].id) /\ Stands(h)
    /\ Write(h, request[h].id, Updated(h))
    /\ Goto(h, "index")
    /\ UNCHANGED <<zones, nextId, request, geozone, status, requests, faults, deleted>>

Remove(h) ==
    /\ pc[h] = "write" /\ request[h].op = "delete"
    /\ ~Locked(request[h].id) /\ Stands(h)
    /\ Write(h, request[h].id, NoZone)
    /\ Goto(h, "commit")
    /\ UNCHANGED <<zones, nextId, request, geozone, status, requests, faults, deleted>>

\* Mutant: the row a DELETE returns is not looked at.
Unchecked(h) ==
    /\ pc[h] = "write" /\ request[h].op # "create"
    /\ ~Locked(request[h].id) /\ ~Stands(h)
    /\ Refuse(h, 200)
    /\ UNCHANGED faults

\* The statement returns no row: it was deleted since it was retrieved.
Gone(h) ==
    /\ pc[h] = "write" /\ request[h].op # "create"
    /\ ~Locked(request[h].id) /\ ~Stands(h)
    /\ Refuse(h, 404)
    /\ UNCHANGED faults

\* A committed row has the name, and no transaction is about to change that.
Taken(h) ==
    \E i \in Id : /\ i # held[h] /\ zones[i] # NoZone /\ ~Locked(i)
                  /\ SameKey(zones[i], draft[h])

\* The transaction of t may be about to take the name h needs, or to free it.
HasName(t, h) ==
    \/ pc[t] = "commit" /\ draft[t] # NoZone /\ SameKey(draft[t], draft[h])
    \/ held[t] # 0 /\ zones[held[t]] # NoZone /\ SameKey(zones[held[t]], draft[h])

WaitsFor(h, t) ==
    /\ t # h
    /\ \/ pc[h] = "write" /\ request[h].op # "create" /\ held[t] = request[h].id
       \/ pc[h] = "index" /\ HasName(t, h)

\* h waits, through others, for itself.
Deadlocked(h) ==
    \A S \in SUBSET Handlers :
        (\A t \in Handlers : (\E s \in S \cup {h} : WaitsFor(s, t)) => t \in S) => h \in S

EntersIndex(h) ==
    /\ pc[h] = "index"
    /\ ~Taken(h) /\ \A t \in Handlers : ~WaitsFor(h, t)
    /\ Goto(h, "commit")
    /\ UNCHANGED <<zones, nextId, request, geozone, held, draft, status, requests, faults, deleted>>

\* Mutant: the handler rolls back and tries again until the name is free.
RetryConflict(h) ==
    /\ pc[h] = "index"
    /\ Taken(h)
    /\ Goto(h, IF request[h].op = "create" THEN "index" ELSE "write")
    /\ IF request[h].op = "create" THEN UNCHANGED <<held, draft>> ELSE Write(h, 0, NoZone)
    /\ UNCHANGED <<zones, nextId, request, geozone, status, requests, faults, deleted>>

\* IntegrityError: rollback, 409.
Conflict(h) ==
    /\ pc[h] = "index"
    /\ Taken(h)
    /\ Refuse(h, 409)
    /\ UNCHANGED faults

\* The database aborts a statement that waits for itself; the error is no
\* IntegrityError, nothing catches it and the session rolls back.
DeadlockFails(h) ==
    /\ pc[h] = "index"
    /\ Deadlocked(h)
    /\ Refuse(h, 500)
    /\ UNCHANGED faults

Applied(h) == zones' = [zones EXCEPT ![held[h]] = draft[h]]

Commit(h) ==
    /\ pc[h] = "commit"
    /\ Applied(h)
    /\ deleted' = IF request[h].op = "delete" THEN deleted \cup {held[h]} ELSE deleted
    /\ Answer(h, 200)
    /\ UNCHANGED <<nextId, requests, faults>>

Fault == faults < MaxFaults /\ faults' = faults + 1

\* A statement or the commit fails or times out: 500.
Fails(h) ==
    /\ Fault
    /\ pc[h] # "idle"
    /\ Refuse(h, 500)

\* The commit is done and its reply lost: 500 all the same.
CommitLost(h) ==
    /\ Fault
    /\ pc[h] = "commit"
    /\ Applied(h)
    /\ Answer(h, 500)
    /\ UNCHANGED <<nextId, requests, deleted>>

Step(h) ==
    \/ Retrieve(h) \/ NotFound(h)
    \/ Insert(h) \/ Update(h) \/ Remove(h) \/ Gone(h)
    \/ EntersIndex(h) \/ Conflict(h) \/ DeadlockFails(h)
    \/ Commit(h)

Next ==
    \E h \in Handlers :
        \/ Create(h) \/ Patch(h) \/ Delete(h)
        \/ Step(h)
        \/ Fails(h) \/ CommitLost(h)

Spec == Init /\ [][Next]_vars

\* Handlers run until they answer; the database grants a lock once it is free.
FairSpec == Spec /\ \A h \in Handlers : WF_vars(Step(h))

-----------------------------------------------------------------------------
TypeOK ==
    /\ zones \in [Id -> Zone \cup {NoZone}]
    /\ nextId \in 1..NumIds + 1
    /\ pc \in [Handlers -> {"idle", "retrieve", "write", "index", "commit"}]
    /\ request \in [Handlers -> Request \cup {NoZone}]
    /\ geozone \in [Handlers -> Zone \cup {NoZone}]
    /\ held \in [Handlers -> 0..NumIds]
    /\ draft \in [Handlers -> Zone \cup {NoZone}]
    /\ status \in [Handlers -> {0, 200, 404, 409, 500}]
    /\ requests \in 0..MaxRequests /\ faults \in 0..MaxFaults
    /\ deleted \subseteq Id

\* README.md: geozones are strictly isolated per user.  Only a request of its
\* own user changes or deletes a geozone.
OwnersOnly ==
    [][\A i \in Id : zones[i] # NoZone /\ zones'[i] # zones[i] =>
          \E h \in Handlers : held[h] = i /\ request[h].user = zones[i].user]_vars

\* Two PATCHes of one geozone merge: whatever changed between the retrieve and
\* the update, a commit changes no field that its request did not set.
PatchesMerge ==
    [][\A i \in Id : zones[i] # NoZone /\ zones'[i] # NoZone =>
          \A k \in {"name", "center", "radius"} : zones'[i][k] # zones[i][k] =>
             \E h \in Handlers : held[h] = i /\ k \in DOMAIN request[h].fields]_vars

\* migrations/constants.py: "the envelope is always a superset of the exact
\* ST_DWithin circle".  The bounds of a geozone are of its present centre and
\* radius, however PATCHes of either cross: match_zones looks at the bounds
\* first, and with stale ones misses devices that are inside.
BoundsFollowShape ==
    \A i \in Id : zones[i] # NoZone => zones[i].bounds = <<zones[i].center, zones[i].radius>>

\* Once a DELETE of a geozone is answered 204, no request for that id
\* succeeds, not even one that had retrieved it before.
NothingAfterDelete ==
    [][\A h \in Handlers : pc[h] # "idle" /\ status'[h] = 200 =>
          request[h].id \notin deleted]_vars

\* Every request is answered: handlers that wait for each other's rows and
\* names do not wait for ever, and a conflict is not waited out.
EveryRequestAnswered == \A h \in Handlers : pc[h] # "idle" ~> pc[h] = "idle"
=============================================================================
