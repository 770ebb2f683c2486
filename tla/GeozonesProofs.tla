--------------------------- MODULE GeozonesProofs ---------------------------
(***************************************************************************)
(* Proofs about the geozone API, for any finite number of handlers and any *)
(* users, names, shapes, rows, requests and faults.                        *)
(***************************************************************************)
EXTENDS Geozones, FiniteSetTheorems, TLAPS

-----------------------------------------------------------------------------
(* The inductive invariant.                                                *)

Bounded(z) == z.bounds = <<z.center, z.radius>>

Columns == {"name", "center", "radius"}

\* What a handler in progress was asked.  A POST sets every column.
Asked(h) ==
    pc[h] # "idle" =>
        /\ request[h] \in Request /\ status[h] = 0
        /\ request[h].op = "create" =>
              /\ request[h].id = 0
              /\ request[h].fields \in [name : Names, center : Centers, radius : Radii]
        /\ request[h].op # "create" => request[h].id \in Id
        /\ pc[h] = "retrieve" => request[h].op # "create"

\* What a PATCH or DELETE has retrieved is its user's.
Retrieved(h) ==
    pc[h] \in {"write", "index", "commit"} /\ request[h].op # "create" =>
        geozone[h] \in Zone /\ geozone[h].user = request[h].user

\* The row a transaction has written: a new one, invisible to the others, or
\* one of its user's that is as it was when it was locked.
Holds(h) ==
    IF pc[h] \in {"index", "commit"}
    THEN /\ held[h] \in Id /\ held[h] < nextId
         /\ IF request[h].op = "create"
            THEN zones[held[h]] = NoZone /\ held[h] \notin deleted
            ELSE /\ held[h] = request[h].id /\ zones[held[h]] # NoZone
                 /\ zones[held[h]].user = request[h].user
    ELSE held[h] = 0

\* What it is about to commit: a row whose bounds fit, and that differs from
\* the one it replaces in the columns the request sets.
Drafted(h) ==
    pc[h] \in {"index", "commit"} =>
        IF request[h].op = "delete" THEN draft[h] = NoZone
        ELSE /\ draft[h] \in Zone /\ Bounded(draft[h])
             /\ request[h].op = "update" =>
                   \A k \in Columns : draft[h][k] # zones[held[h]][k] => k \in DOMAIN request[h].fields

Local(h) == Asked(h) /\ Retrieved(h) /\ Holds(h) /\ Drafted(h)

\* No two transactions have written one row.
Exclusive == \A g, h \in Handlers : held[g] # 0 /\ held[g] = held[h] => g = h

\* The sequence is beyond every row there is or was.
Fresh == \A i \in Id : i >= nextId => zones[i] = NoZone

\* No deleted row comes back.
StaysDeleted == \A i \in deleted : i < nextId /\ zones[i] = NoZone

\* The bound on ids leaves one for every INSERT under way.
Room == nextId + Cardinality(Inserting) <= NumIds + 1

IInv ==
    /\ TypeOK
    /\ \A h \in Handlers : Local(h)
    /\ Exclusive
    /\ Fresh
    /\ StaysDeleted
    /\ Room
    /\ BoundsFollowShape

-----------------------------------------------------------------------------
(* Lemmas about fields and rows.                                           *)

LEMMA FieldsIntro ==
  ASSUME NEW K \in SUBSET Columns, NEW f \in [K -> Names \cup Centers \cup Radii],
         "name" \in K => f["name"] \in Names,
         "center" \in K => f["center"] \in Centers,
         "radius" \in K => f["radius"] \in Radii
  PROVE  f \in Fields
<1> DEFINE values == [name |-> Names, center |-> Centers, radius |-> Radii]
           All == UNION {[L -> Names \cup Centers \cup Radii] : L \in SUBSET DOMAIN values}
<1>1. DOMAIN values = Columns BY DEF Columns
<1>2. f \in All BY <1>1
<1>3. \A k \in DOMAIN f : f[k] \in values[k]
  <2> SUFFICES ASSUME NEW k \in K PROVE f[k] \in values[k] OBVIOUS
  <2>1. k = "name" \/ k = "center" \/ k = "radius" BY DEF Columns
  <2> QED BY <2>1
<1> QED BY <1>2, <1>3 DEF Fields

LEMMA FieldsElim ==
  ASSUME NEW f \in Fields
  PROVE  /\ DOMAIN f \subseteq Columns
         /\ "name" \in DOMAIN f => f["name"] \in Names
         /\ "center" \in DOMAIN f => f["center"] \in Centers
         /\ "radius" \in DOMAIN f => f["radius"] \in Radii
<1> DEFINE values == [name |-> Names, center |-> Centers, radius |-> Radii]
<1>1. DOMAIN values = Columns BY DEF Columns
<1>2. /\ \E L \in SUBSET DOMAIN values : f \in [L -> Names \cup Centers \cup Radii]
      /\ \A k \in DOMAIN f : f[k] \in values[k]
  BY DEF Fields
<1>3. DOMAIN f \subseteq Columns BY <1>1, <1>2
<1>4. values["name"] = Names /\ values["center"] = Centers /\ values["radius"] = Radii OBVIOUS
<1> QED BY <1>2, <1>3, <1>4

LEMMA NoFields == <<>> \in Fields
<1>1. <<>> \in [{} -> Names \cup Centers \cup Radii] OBVIOUS
<1> QED BY <1>1, FieldsIntro

LEMMA AllFields ==
  ASSUME NEW n \in Names, NEW c \in Centers, NEW r \in Radii
  PROVE  /\ [name |-> n, center |-> c, radius |-> r] \in Fields
         /\ [name |-> n, center |-> c, radius |-> r]
               \in [name : Names, center : Centers, radius : Radii]
<1> DEFINE f == [name |-> n, center |-> c, radius |-> r]
<1>1. f \in [Columns -> Names \cup Centers \cup Radii] BY DEF Columns
<1>2. f["name"] \in Names /\ f["center"] \in Centers /\ f["radius"] \in Radii OBVIOUS
<1>3. f \in Fields
  <2> HIDE DEF f
  <2> QED BY <1>1, <1>2, FieldsIntro
<1> QED BY <1>3

\* An UPDATE leaves a row whose bounds fit if they did before, and changes
\* only the columns it sets.
LEMMA UpdateOfRow ==
  ASSUME NEW z \in Zone, Bounded(z), NEW f \in Fields
  PROVE  LET y == BoundsTrigger(Set(z, f), f)
         IN  /\ y \in Zone /\ Bounded(y)
             /\ \A k \in Columns : y[k] # z[k] => k \in DOMAIN f
<1> DEFINE s == Set(z, f)
           n == IF "name" \in DOMAIN f THEN f["name"] ELSE z.name
           c == IF "center" \in DOMAIN f THEN f["center"] ELSE z.center
           r == IF "radius" \in DOMAIN f THEN f["radius"] ELSE z.radius
<1>1. /\ z = [user |-> z.user, name |-> z.name, center |-> z.center, radius |-> z.radius, bounds |-> z.bounds]
      /\ z.user \in Users /\ z.name \in Names
      /\ z.center \in Centers /\ z.radius \in Radii
      /\ z.bounds \in Centers \X Radii
  BY DEF Zone
<1>2. DOMAIN z = {"user", "name", "center", "radius", "bounds"} BY <1>1
<1>3. "user" \notin DOMAIN f /\ "bounds" \notin DOMAIN f BY FieldsElim DEF Columns
<1>4. s = [user |-> z.user, name |-> n, center |-> c, radius |-> r, bounds |-> z.bounds]
  BY <1>2, <1>3 DEF Set
<1>5. n \in Names /\ c \in Centers /\ r \in Radii BY <1>1, FieldsElim
<1>6. s \in Zone BY <1>1, <1>4, <1>5 DEF Zone
<1>7. \A k \in Columns : s[k] # z[k] => k \in DOMAIN f BY <1>2 DEF Set, Columns
<1>8. s.center = c /\ s.radius = r /\ s.bounds = z.bounds BY <1>4
<1> HIDE DEF s, n, c, r
<1>9. CASE DOMAIN f \cap {"center", "radius"} # {}
  <2>1. BoundsTrigger(s, f) = [s EXCEPT !.bounds = <<s.center, s.radius>>]
    BY <1>9 DEF BoundsTrigger, Enveloped
  <2>2. [s EXCEPT !.bounds = <<s.center, s.radius>>] \in Zone BY <1>6, <1>5, <1>8 DEF Zone
  <2>3. Bounded([s EXCEPT !.bounds = <<s.center, s.radius>>]) BY <1>6 DEF Zone, Bounded
  <2>4. \A k \in Columns : [s EXCEPT !.bounds = <<s.center, s.radius>>][k] = s[k]
    BY <1>6 DEF Zone, Columns
  <2> QED BY <2>1, <2>2, <2>3, <2>4, <1>7 DEF s
<1>10. CASE DOMAIN f \cap {"center", "radius"} = {}
  <2>1. BoundsTrigger(s, f) = s BY <1>10 DEF BoundsTrigger
  <2>2. c = z.center /\ r = z.radius BY <1>10 DEF c, r
  <2>3. Bounded(s) BY <1>8, <2>2 DEF Bounded
  <2> QED BY <2>1, <2>3, <1>6, <1>7 DEF s
<1> QED BY <1>9, <1>10

-----------------------------------------------------------------------------
(* Lemmas about the parts of the invariant that a step leaves alone.       *)

LEMMA IdsAreInts == \A i \in Id : i \in Int /\ i # 0 /\ i \in 0..NumIds
  BY BoundsAssumption DEF Id

\* What is said of a handler stays true when it, and the row it holds, are
\* left alone.
LEMMA LocalKept ==
  ASSUME TypeOK, TypeOK', NEW g \in Handlers, Local(g),
         pc'[g] = pc[g], request'[g] = request[g], geozone'[g] = geozone[g],
         held'[g] = held[g], draft'[g] = draft[g], status'[g] = status[g],
         nextId <= nextId',
         held[g] \in Id => /\ zones'[held[g]] = zones[held[g]]
                           /\ held[g] \in deleted' => held[g] \in deleted
  PROVE  Local(g)'
<1>1. Asked(g)' /\ Retrieved(g)' BY DEF Local, Asked, Retrieved
<1>2. nextId \in Int /\ nextId' \in Int BY BoundsAssumption DEF TypeOK
<1>3. held[g] \in Id => held[g] \in Int BY IdsAreInts
<1>4. Holds(g)' BY <1>2, <1>3 DEF Local, Holds
<1>5. Drafted(g)'
  <2>1. pc[g] \in {"index", "commit"} => held[g] \in Id BY DEF Local, Holds
  <2> QED BY <2>1 DEF Local, Drafted
<1> QED BY <1>1, <1>4, <1>5 DEF Local

LEMMA InsertingFinite == IsFiniteSet(Inserting) /\ Cardinality(Inserting) \in Nat
  BY HandlersAssumption, FS_Subset, FS_CardinalityType DEF Inserting

LEMMA InsertingFiniteNext == IsFiniteSet(Inserting') /\ Cardinality(Inserting') \in Nat
<1>1. Inserting' \subseteq Handlers BY DEF Inserting
<1> QED BY <1>1, HandlersAssumption, FS_Subset, FS_CardinalityType

LEMMA RoomKept ==
  ASSUME TypeOK, Room, nextId' = nextId, Inserting' \subseteq Inserting
  PROVE  Room'
<1>1. Cardinality(Inserting') <= Cardinality(Inserting) BY InsertingFinite, FS_Subset
<1>2. Cardinality(Inserting)' = Cardinality(Inserting') OBVIOUS
<1>3. nextId \in Int /\ NumIds \in Int BY BoundsAssumption DEF TypeOK
<1> QED BY <1>1, <1>2, <1>3, InsertingFinite, InsertingFiniteNext DEF Room

\* The rest of the invariant, for a step that writes no row and deletes none.
LEMMA TableKept ==
  ASSUME IInv, UNCHANGED <<zones, nextId, deleted>>
  PROVE  Fresh' /\ StaysDeleted' /\ BoundsFollowShape'
<1>1. Fresh' BY DEF IInv, Fresh
<1>2. StaysDeleted' BY DEF IInv, StaysDeleted
<1>3. BoundsFollowShape' BY DEF IInv, BoundsFollowShape
<1> QED BY <1>1, <1>2, <1>3

-----------------------------------------------------------------------------
(* Every step preserves the invariant.                                     *)

LEMMA ArrivesStep ==
  ASSUME IInv, NEW h \in Handlers, NEW r \in Request, Arrives(h, r),
         r.op = "create" => /\ r.id = 0 /\ r.fields \in [name : Names, center : Centers, radius : Radii]
                            /\ nextId + Cardinality(Inserting) <= NumIds,
         r.op # "create" => r.id \in Id
  PROVE  IInv'
<1>1. TypeOK'
  <2> USE DEF IInv, TypeOK, Arrives, Goto
  <2>1. UNCHANGED <<zones, nextId, geozone, held, draft, faults, deleted>> OBVIOUS
  <2>2. pc' \in [Handlers -> {"idle", "retrieve", "write", "index", "commit"}] OBVIOUS
  <2>3. request' \in [Handlers -> Request \cup {NoZone}] OBVIOUS
  <2>4. status' \in [Handlers -> {0, 200, 404, 409, 500}] OBVIOUS
  <2>5. requests' \in 0..MaxRequests BY BoundsAssumption
  <2> QED BY <2>1, <2>2, <2>3, <2>4, <2>5
<1>2. ASSUME NEW g \in Handlers PROVE Local(g)'
  <2>1. CASE g = h
    <3>1. pc[h] = "idle" /\ held'[h] = held[h] /\ request'[h] = r /\ status'[h] = 0
      BY DEF Arrives, IInv, TypeOK
    <3>2. pc'[h] = IF r.op = "create" THEN "write" ELSE "retrieve" BY DEF Arrives, Goto, IInv, TypeOK
    <3>3. held[h] = 0 BY <3>1 DEF IInv, Local, Holds
    <3>4. Asked(h)' BY <3>1, <3>2 DEF Asked
    <3>5. Retrieved(h)' BY <3>1, <3>2 DEF Retrieved
    <3>6. Holds(h)' /\ Drafted(h)' BY <3>1, <3>2, <3>3 DEF Holds, Drafted
    <3> QED BY <2>1, <3>4, <3>5, <3>6 DEF Local
  <2>2. CASE g # h
    <3>1. /\ pc'[g] = pc[g] /\ request'[g] = request[g] /\ geozone'[g] = geozone[g]
          /\ held'[g] = held[g] /\ draft'[g] = draft[g] /\ status'[g] = status[g]
      BY <2>2 DEF Arrives, Goto, IInv, TypeOK
    <3>2. zones' = zones /\ nextId' = nextId /\ deleted' = deleted BY DEF Arrives
    <3>3. nextId \in Int BY BoundsAssumption DEF IInv, TypeOK
    <3> QED BY <1>1, <3>1, <3>2, <3>3, LocalKept DEF IInv
  <2> QED BY <2>1, <2>2
<1>3. Exclusive' BY DEF IInv, Exclusive, Arrives
<1>4. Room'
  <2>1. nextId' = nextId BY DEF Arrives
  <2>2. CASE r.op = "create"
    <3>1. Inserting' = Inserting \cup {h}
      BY <2>2 DEF Inserting, Arrives, Goto, IInv, TypeOK
    <3>2. h \notin Inserting BY DEF Inserting, Arrives
    <3>3. Cardinality(Inserting') = Cardinality(Inserting) + 1
      BY <3>1, <3>2, InsertingFinite, FS_AddElement
    <3>4. nextId \in Int /\ NumIds \in Int BY BoundsAssumption DEF IInv, TypeOK
    <3>5. Cardinality(Inserting)' = Cardinality(Inserting') OBVIOUS
    <3>6. nextId + (Cardinality(Inserting) + 1) <= NumIds + 1 BY <2>2, <3>4, InsertingFinite
    <3> QED BY <2>1, <3>3, <3>5, <3>6 DEF Room
  <2>3. CASE r.op # "create"
    <3>1. Inserting' \subseteq Inserting BY <2>3 DEF Inserting, Arrives, Goto, IInv, TypeOK
    <3> QED BY <2>1, <3>1, RoomKept DEF IInv
  <2> QED BY <2>2, <2>3
<1>5. Fresh' /\ StaysDeleted' /\ BoundsFollowShape' BY TableKept DEF Arrives
<1> QED BY <1>1, <1>2, <1>3, <1>4, <1>5 DEF IInv

LEMMA RetrieveStep ==
  ASSUME IInv, NEW h \in Handlers, Retrieve(h)
  PROVE  IInv'
<1>1. pc[h] = "retrieve" /\ pc'[h] = "write" /\ request[h].op # "create" /\ request[h].id \in Id
  BY DEF Retrieve, Goto, IInv, TypeOK, Local, Asked
<1>2. /\ zones[request[h].id] \in Zone /\ geozone'[h] = zones[request[h].id]
      /\ zones[request[h].id].user = request[h].user
  BY <1>1 DEF Retrieve, Visible, IInv, TypeOK
<1>3. TypeOK'
  <2> USE DEF IInv, TypeOK, Retrieve, Goto
  <2>1. UNCHANGED <<zones, nextId, request, held, draft, status, requests, faults, deleted>> OBVIOUS
  <2>2. pc' \in [Handlers -> {"idle", "retrieve", "write", "index", "commit"}] OBVIOUS
  <2>3. geozone' \in [Handlers -> Zone \cup {NoZone}] BY <1>2
  <2> QED BY <2>1, <2>2, <2>3
<1>4. ASSUME NEW g \in Handlers PROVE Local(g)'
  <2>1. CASE g = h
    <3>1. UNCHANGED <<request, held, status>> BY DEF Retrieve
    <3>2. held[h] = 0 BY <1>1 DEF IInv, Local, Holds
    <3>3. Asked(h)' BY <1>1, <3>1 DEF Asked, IInv, Local
    <3>4. Retrieved(h)' BY <1>2, <3>1 DEF Retrieved
    <3>5. Holds(h)' /\ Drafted(h)' BY <1>1, <3>1, <3>2 DEF Holds, Drafted
    <3> QED BY <2>1, <3>3, <3>4, <3>5 DEF Local
  <2>2. CASE g # h
    <3>1. /\ pc'[g] = pc[g] /\ request'[g] = request[g] /\ geozone'[g] = geozone[g]
          /\ held'[g] = held[g] /\ draft'[g] = draft[g] /\ status'[g] = status[g]
      BY <2>2 DEF Retrieve, Goto, IInv, TypeOK
    <3>2. zones' = zones /\ nextId' = nextId /\ deleted' = deleted BY DEF Retrieve
    <3>3. nextId \in Int BY BoundsAssumption DEF IInv, TypeOK
    <3> QED BY <1>3, <3>1, <3>2, <3>3, LocalKept DEF IInv
  <2> QED BY <2>1, <2>2
<1>5. Exclusive' BY DEF IInv, Exclusive, Retrieve
<1>6. Room'
  <2>1. Inserting' \subseteq Inserting
    BY <1>1 DEF Inserting, Retrieve, Goto, IInv, TypeOK
  <2>2. nextId' = nextId BY DEF Retrieve
  <2> QED BY <2>1, <2>2, RoomKept DEF IInv
<1>7. Fresh' /\ StaysDeleted' /\ BoundsFollowShape' BY TableKept DEF Retrieve
<1> QED BY <1>3, <1>4, <1>5, <1>6, <1>7 DEF IInv

\* What an answer does to its handler and to the others.
LEMMA AnswerEffect ==
  ASSUME TypeOK, NEW h \in Handlers, NEW code \in {200, 404, 409, 500}, Answer(h, code)
  PROVE  /\ pc' \in [Handlers -> {"idle", "retrieve", "write", "index", "commit"}]
         /\ request' \in [Handlers -> Request \cup {NoZone}]
         /\ geozone' \in [Handlers -> Zone \cup {NoZone}]
         /\ held' \in [Handlers -> 0..NumIds]
         /\ draft' \in [Handlers -> Zone \cup {NoZone}]
         /\ status' \in [Handlers -> {0, 200, 404, 409, 500}]
         /\ Local(h)' /\ held'[h] = 0
         /\ \A g \in Handlers \ {h} :
               /\ pc'[g] = pc[g] /\ request'[g] = request[g] /\ geozone'[g] = geozone[g]
               /\ held'[g] = held[g] /\ draft'[g] = draft[g] /\ status'[g] = status[g]
         /\ Inserting' \subseteq Inserting
         /\ Exclusive => Exclusive'
<1> USE DEF TypeOK, Answer, Goto
<1>1. pc' \in [Handlers -> {"idle", "retrieve", "write", "index", "commit"}] OBVIOUS
<1>2. request' \in [Handlers -> Request \cup {NoZone}] OBVIOUS
<1>3. geozone' \in [Handlers -> Zone \cup {NoZone}] OBVIOUS
<1>4. held' \in [Handlers -> 0..NumIds] BY BoundsAssumption
<1>5. draft' \in [Handlers -> Zone \cup {NoZone}] OBVIOUS
<1>6. status' \in [Handlers -> {0, 200, 404, 409, 500}] OBVIOUS
<1>7. pc'[h] = "idle" /\ held'[h] = 0 OBVIOUS
<1>8. Local(h)' BY <1>7 DEF Local, Asked, Retrieved, Holds, Drafted
<1>9. \A g \in Handlers \ {h} :
         /\ pc'[g] = pc[g] /\ request'[g] = request[g] /\ geozone'[g] = geozone[g]
         /\ held'[g] = held[g] /\ draft'[g] = draft[g] /\ status'[g] = status[g]
  OBVIOUS
<1>10. Inserting' \subseteq Inserting BY <1>7, <1>9 DEF Inserting
<1>11. Exclusive => Exclusive' BY <1>7, <1>9 DEF Exclusive
<1> QED BY <1>1, <1>2, <1>3, <1>4, <1>5, <1>6, <1>7, <1>8, <1>9, <1>10, <1>11

LEMMA RefuseStep ==
  ASSUME IInv, NEW h \in Handlers, NEW code \in {404, 409, 500}, Refuse(h, code),
         faults' \in 0..MaxFaults
  PROVE  IInv'
<1>1. TypeOK /\ Exclusive /\ Answer(h, code) /\ code \in {200, 404, 409, 500}
      /\ UNCHANGED <<zones, nextId, requests, deleted>>
  BY DEF IInv, Refuse
<1>2. TypeOK' BY <1>1, AnswerEffect DEF TypeOK
<1>3. ASSUME NEW g \in Handlers, g # h PROVE Local(g)'
  <2>1. /\ pc'[g] = pc[g] /\ request'[g] = request[g] /\ geozone'[g] = geozone[g]
        /\ held'[g] = held[g] /\ draft'[g] = draft[g] /\ status'[g] = status[g]
    BY <1>1, <1>3, AnswerEffect
  <2>2. nextId <= nextId' BY <1>1, BoundsAssumption DEF TypeOK
  <2> QED BY <1>1, <1>2, <2>1, <2>2, LocalKept DEF IInv
<1>4. \A g \in Handlers : Local(g)' BY <1>1, <1>3, AnswerEffect
<1>5. Exclusive' BY <1>1, AnswerEffect
<1>6. Room' BY <1>1, AnswerEffect, RoomKept DEF IInv
<1>7. Fresh' /\ StaysDeleted' /\ BoundsFollowShape' BY <1>1, TableKept
<1> QED BY <1>2, <1>4, <1>5, <1>6, <1>7 DEF IInv

\* What a write does, whatever it writes: the row i is new or was not locked.
LEMMA WriteEffect ==
  ASSUME IInv, NEW h \in Handlers, NEW i \in Id, NEW z \in Zone \cup {NoZone}, Write(h, i, z),
         NEW s \in {"index", "commit"}, Goto(h, s), UNCHANGED <<request, geozone, status>>,
         ~Locked(i)
  PROVE  /\ pc' \in [Handlers -> {"idle", "retrieve", "write", "index", "commit"}]
         /\ held' \in [Handlers -> 0..NumIds]
         /\ draft' \in [Handlers -> Zone \cup {NoZone}]
         /\ pc'[h] = s /\ held'[h] = i /\ draft'[h] = z
         /\ \A g \in Handlers \ {h} : pc'[g] = pc[g] /\ held'[g] = held[g] /\ draft'[g] = draft[g]
         /\ Exclusive'
         /\ Inserting' = Inserting \ {h}
<1> USE DEF IInv, TypeOK, Write, Goto
<1>1. pc' \in [Handlers -> {"idle", "retrieve", "write", "index", "commit"}] OBVIOUS
<1>2. held' \in [Handlers -> 0..NumIds] BY IdsAreInts
<1>3. draft' \in [Handlers -> Zone \cup {NoZone}] OBVIOUS
<1>4. pc'[h] = s /\ held'[h] = i /\ draft'[h] = z OBVIOUS
<1>5. \A g \in Handlers \ {h} : pc'[g] = pc[g] /\ held'[g] = held[g] /\ draft'[g] = draft[g]
  OBVIOUS
<1>6. Exclusive' BY <1>4, <1>5 DEF Exclusive, Locked
<1>7. Inserting' = Inserting \ {h} BY <1>4, <1>5 DEF Inserting
<1> QED BY <1>1, <1>2, <1>3, <1>4, <1>5, <1>6, <1>7

LEMMA InsertStep ==
  ASSUME IInv, NEW h \in Handlers, Insert(h)
  PROVE  IInv'
<1> DEFINE f == request[h].fields
           z == [user |-> request[h].user, name |-> f.name, center |-> f.center,
                 radius |-> f.radius, bounds |-> <<f.center, f.radius>>]
<1>1. /\ pc[h] = "write" /\ request[h].op = "create" /\ request[h] \in Request /\ status[h] = 0
      /\ request[h].id = 0 /\ f \in [name : Names, center : Centers, radius : Radii]
  BY DEF Insert, IInv, Local, Asked
<1>2. nextId \in Id /\ nextId \in Int
  <2>1. h \in Inserting BY <1>1 DEF Inserting
  <2>2. Cardinality(Inserting) # 0 BY <2>1, InsertingFinite, FS_EmptySet
  <2>3. nextId \in Int /\ nextId >= 1 /\ NumIds \in Int BY BoundsAssumption DEF IInv, TypeOK
  <2>4. nextId + Cardinality(Inserting) <= NumIds + 1 BY DEF IInv, Room
  <2> QED BY <2>2, <2>3, <2>4, InsertingFinite DEF Id
<1>3. z \in Zone /\ Bounded(z) BY <1>1 DEF Zone, Request, Bounded
<1>4. ~Locked(nextId)
  <2> SUFFICES ASSUME NEW t \in Handlers, held[t] = nextId PROVE FALSE BY DEF Locked
  <2>1. held[t] < nextId BY <1>2, IdsAreInts DEF IInv, Local, Holds
  <2> QED BY <2>1, <1>2
<1>5. Write(h, nextId, z) /\ Goto(h, "index") /\ UNCHANGED <<request, geozone, status>>
      /\ nextId' = nextId + 1 /\ UNCHANGED <<zones, requests, faults, deleted>>
  BY DEF Insert
<1> HIDE DEF z, f
<1>6. /\ pc' \in [Handlers -> {"idle", "retrieve", "write", "index", "commit"}]
      /\ held' \in [Handlers -> 0..NumIds]
      /\ draft' \in [Handlers -> Zone \cup {NoZone}]
      /\ pc'[h] = "index" /\ held'[h] = nextId /\ draft'[h] = z
      /\ \A g \in Handlers \ {h} : pc'[g] = pc[g] /\ held'[g] = held[g] /\ draft'[g] = draft[g]
      /\ Exclusive'
      /\ Inserting' = Inserting \ {h}
  BY <1>2, <1>3, <1>4, <1>5, WriteEffect
<1>7. TypeOK'
  <2>1. nextId' \in 1..NumIds + 1 BY <1>2, <1>5, BoundsAssumption DEF Id
  <2> QED BY <2>1, <1>5, <1>6 DEF IInv, TypeOK
<1>8. ASSUME NEW g \in Handlers PROVE Local(g)'
  <2>1. CASE g = h
    <3>1. Asked(h)' BY <1>1, <1>5, <1>6 DEF Asked, IInv, Local
    <3>2. Retrieved(h)' BY <1>1, <1>5 DEF Retrieved
    <3>3. nextId \notin deleted BY <1>2 DEF IInv, StaysDeleted
    <3>4. zones[nextId] = NoZone BY <1>2 DEF IInv, Fresh
    <3>5. Holds(h)' BY <1>1, <1>2, <1>5, <1>6, <3>3, <3>4 DEF Holds
    <3>6. Drafted(h)' BY <1>1, <1>3, <1>5, <1>6 DEF Drafted
    <3> QED BY <2>1, <3>1, <3>2, <3>5, <3>6 DEF Local
  <2>2. CASE g # h
    <3>1. /\ pc'[g] = pc[g] /\ request'[g] = request[g] /\ geozone'[g] = geozone[g]
          /\ held'[g] = held[g] /\ draft'[g] = draft[g] /\ status'[g] = status[g]
      BY <2>2, <1>5, <1>6
    <3>2. nextId <= nextId' BY <1>2, <1>5
    <3> QED BY <1>5, <1>7, <3>1, <3>2, LocalKept DEF IInv
  <2> QED BY <2>1, <2>2
<1>9. Room'
  <2>1. Cardinality(Inserting') = Cardinality(Inserting) - 1
    <3>1. h \in Inserting BY <1>1 DEF Inserting
    <3>2. Inserting' = Inserting \ {h} BY <1>6
    <3> QED BY <3>1, <3>2, InsertingFinite, FS_RemoveElement
  <2>2. Cardinality(Inserting)' = Cardinality(Inserting') OBVIOUS
  <2>3. NumIds \in Int BY BoundsAssumption
  <2> QED BY <1>2, <1>5, <2>1, <2>2, <2>3, InsertingFinite DEF IInv, Room
<1>10. Fresh' BY <1>2, <1>5, IdsAreInts DEF IInv, Fresh
<1>11. StaysDeleted' BY <1>2, <1>5, IdsAreInts DEF IInv, TypeOK, StaysDeleted
<1>12. BoundsFollowShape' BY <1>5 DEF IInv, BoundsFollowShape
<1> QED BY <1>6, <1>7, <1>8, <1>9, <1>10, <1>11, <1>12 DEF IInv

\* UPDATE and DELETE write a row of their user's.
LEMMA StandingRow ==
  ASSUME IInv, NEW h \in Handlers, pc[h] = "write", request[h].op # "create", Stands(h)
  PROVE  /\ request[h] \in Request /\ request[h].id \in Id /\ status[h] = 0
         /\ zones[request[h].id] \in Zone /\ request[h].id < nextId
         /\ zones[request[h].id].user = request[h].user
<1>1. request[h] \in Request /\ request[h].id \in Id /\ status[h] = 0
  BY DEF IInv, Local, Asked
<1>2. zones[request[h].id] # NoZone /\ zones[request[h].id] \in Zone
  BY <1>1 DEF Stands, IInv, TypeOK
<1>3. request[h].id \in Int /\ nextId \in Int BY <1>1, IdsAreInts, BoundsAssumption DEF IInv, TypeOK
<1>4. request[h].id < nextId BY <1>1, <1>2, <1>3 DEF IInv, Fresh
<1>5. zones[request[h].id].user = request[h].user BY DEF Stands, IInv, Local, Retrieved
<1> QED BY <1>1, <1>2, <1>4, <1>5

LEMMA WriteStep ==
  ASSUME IInv, NEW h \in Handlers, Update(h) \/ Remove(h)
  PROVE  IInv'
<1> DEFINE i == request[h].id
           z == IF request[h].op = "update" THEN Updated(h) ELSE NoZone
           s == IF request[h].op = "update" THEN "index" ELSE "commit"
<1>1. pc[h] = "write" /\ request[h].op \in {"update", "delete"} /\ ~Locked(i) /\ Stands(h)
  BY DEF Update, Remove
<1>2. /\ request[h] \in Request /\ i \in Id /\ status[h] = 0 /\ zones[i] \in Zone
      /\ i < nextId /\ zones[i].user = request[h].user
  BY <1>1, StandingRow
<1>3. Bounded(zones[i]) /\ zones[i] # NoZone
  BY <1>1, <1>2 DEF IInv, BoundsFollowShape, Bounded, Stands
<1>4. request[h].fields \in Fields BY <1>2 DEF Request
<1>5. request[h].op = "update" =>
         /\ z \in Zone /\ Bounded(z)
         /\ \A k \in Columns : z[k] # zones[i][k] => k \in DOMAIN request[h].fields
  BY <1>2, <1>3, <1>4, UpdateOfRow DEF Updated
<1>6. /\ Write(h, i, z) /\ Goto(h, s) /\ UNCHANGED <<request, geozone, status>>
      /\ UNCHANGED <<zones, nextId, requests, faults, deleted>>
  BY DEF Update, Remove
<1>7. z \in Zone \cup {NoZone} /\ s \in {"index", "commit"} BY <1>5
<1>8. (request[h].op = "delete" => z = NoZone) /\ i = request[h].id OBVIOUS
<1> HIDE DEF i, z, s
<1>9. /\ pc' \in [Handlers -> {"idle", "retrieve", "write", "index", "commit"}]
      /\ held' \in [Handlers -> 0..NumIds]
      /\ draft' \in [Handlers -> Zone \cup {NoZone}]
      /\ pc'[h] = s /\ held'[h] = i /\ draft'[h] = z
      /\ \A g \in Handlers \ {h} : pc'[g] = pc[g] /\ held'[g] = held[g] /\ draft'[g] = draft[g]
      /\ Exclusive'
      /\ Inserting' = Inserting \ {h}
  BY <1>1, <1>2, <1>6, <1>7, WriteEffect
<1>10. TypeOK' BY <1>6, <1>9 DEF IInv, TypeOK
<1>11. ASSUME NEW g \in Handlers PROVE Local(g)'
  <2>1. CASE g = h
    <3>1. Asked(h)' BY <1>1, <1>2, <1>6, <1>7, <1>9 DEF Asked, IInv, Local
    <3>2. Retrieved(h)' BY <1>1, <1>6 DEF Retrieved, IInv, Local
    <3>3. Holds(h)' BY <1>1, <1>2, <1>3, <1>6, <1>7, <1>8, <1>9 DEF Holds
    <3>4. Drafted(h)' BY <1>1, <1>5, <1>6, <1>8, <1>9 DEF Drafted
    <3> QED BY <2>1, <3>1, <3>2, <3>3, <3>4 DEF Local
  <2>2. CASE g # h
    <3>1. /\ pc'[g] = pc[g] /\ request'[g] = request[g] /\ geozone'[g] = geozone[g]
          /\ held'[g] = held[g] /\ draft'[g] = draft[g] /\ status'[g] = status[g]
      BY <2>2, <1>6, <1>9
    <3>2. nextId <= nextId' BY <1>6, BoundsAssumption DEF IInv, TypeOK
    <3> QED BY <1>6, <1>10, <3>1, <3>2, LocalKept DEF IInv
  <2> QED BY <2>1, <2>2
<1>12. Room' BY <1>6, <1>9, RoomKept DEF IInv
<1>13. Fresh' /\ StaysDeleted' /\ BoundsFollowShape' BY <1>6, TableKept
<1> QED BY <1>9, <1>10, <1>11, <1>12, <1>13 DEF IInv

LEMMA EntersIndexStep ==
  ASSUME IInv, NEW h \in Handlers, EntersIndex(h)
  PROVE  IInv'
<1>1. /\ pc[h] = "index" /\ pc' = [pc EXCEPT ![h] = "commit"]
      /\ UNCHANGED <<zones, nextId, request, geozone, held, draft, status, requests, faults, deleted>>
  BY DEF EntersIndex, Goto
<1>2. TypeOK'
  <2>1. pc' \in [Handlers -> {"idle", "retrieve", "write", "index", "commit"}]
    BY <1>1 DEF IInv, TypeOK
  <2> QED BY <1>1, <2>1 DEF IInv, TypeOK
<1>3. ASSUME NEW g \in Handlers PROVE Local(g)'
  <2>1. pc'[g] = IF g = h THEN "commit" ELSE pc[g] BY <1>1 DEF IInv, TypeOK
  <2>2. Asked(g)' BY <1>1, <2>1 DEF IInv, Local, Asked
  <2>3. Retrieved(g)' BY <1>1, <2>1 DEF IInv, Local, Retrieved
  <2>4. Holds(g)' BY <1>1, <2>1 DEF IInv, Local, Holds
  <2>5. Drafted(g)' BY <1>1, <2>1 DEF IInv, Local, Drafted
  <2> QED BY <2>2, <2>3, <2>4, <2>5 DEF Local
<1>4. Exclusive' BY <1>1 DEF IInv, Exclusive
<1>5. Room'
  <2>1. Inserting' \subseteq Inserting BY <1>1 DEF Inserting, IInv, TypeOK
  <2> QED BY <1>1, <2>1, RoomKept DEF IInv
<1>6. Fresh' /\ StaysDeleted' /\ BoundsFollowShape' BY <1>1, TableKept
<1> QED BY <1>2, <1>3, <1>4, <1>5, <1>6 DEF IInv

\* A commit, whether its reply arrives or not.
LEMMA CommitStep ==
  ASSUME IInv, NEW h \in Handlers, pc[h] = "commit", Applied(h),
         NEW code \in {200, 500}, Answer(h, code), UNCHANGED <<nextId, requests>>,
         faults' \in 0..MaxFaults,
         deleted' = deleted \/ (request[h].op = "delete" /\ deleted' = deleted \cup {held[h]})
  PROVE  IInv'
<1> DEFINE i == held[h]
<1>1. /\ i \in Id /\ i < nextId /\ request[h] \in Request
      /\ request[h].op = "delete" => draft[h] = NoZone
      /\ request[h].op # "delete" => draft[h] \in Zone /\ Bounded(draft[h])
  BY DEF IInv, Local, Asked, Holds, Drafted
<1>2. TypeOK /\ Exclusive /\ code \in {200, 404, 409, 500} BY DEF IInv
<1>3. draft[h] \in Zone \cup {NoZone} BY <1>2 DEF TypeOK
<1>4. /\ zones' \in [Id -> Zone \cup {NoZone}] /\ zones'[i] = draft[h]
      /\ \A j \in Id \ {i} : zones'[j] = zones[j]
  BY <1>1, <1>2, <1>3 DEF Applied, TypeOK
<1> HIDE DEF i
<1>5. i = held[h] BY DEF i
<1>6. TypeOK'
  <2>1. deleted' \subseteq Id
    <3>1. deleted \subseteq Id BY <1>2 DEF TypeOK
    <3>2. held[h] \in Id BY <1>1, <1>5
    <3> QED BY <3>1, <3>2
  <2>2. nextId' \in 1..NumIds + 1 /\ requests' \in 0..MaxRequests BY <1>2 DEF TypeOK
  <2> QED BY <2>1, <2>2, <1>2, <1>4, AnswerEffect DEF TypeOK
<1>7. ASSUME NEW g \in Handlers, g # h PROVE Local(g)'
  <2>1. /\ pc'[g] = pc[g] /\ request'[g] = request[g] /\ geozone'[g] = geozone[g]
        /\ held'[g] = held[g] /\ draft'[g] = draft[g] /\ status'[g] = status[g]
    BY <1>2, <1>7, AnswerEffect
  <2>2. nextId <= nextId' BY <1>2, BoundsAssumption DEF TypeOK
  <2>3. held[g] \in Id => held[g] # i
    BY <1>2, <1>5, <1>7, IdsAreInts DEF Exclusive
  <2>4. held[g] \in Id => /\ zones'[held[g]] = zones[held[g]]
                          /\ held[g] \in deleted' => held[g] \in deleted
    BY <1>4, <1>5, <2>3
  <2> QED BY <1>2, <1>6, <1>7, <2>1, <2>2, <2>4, LocalKept DEF IInv
<1>8. \A g \in Handlers : Local(g)' BY <1>2, <1>7, AnswerEffect
<1>9. Exclusive' BY <1>2, AnswerEffect
<1>10. Room' BY <1>2, AnswerEffect, RoomKept DEF IInv
<1>11. Fresh'
  <2> SUFFICES ASSUME NEW j \in Id, j >= nextId' PROVE zones'[j] = NoZone BY DEF Fresh
  <2>1. j \in Int /\ nextId \in Int /\ i \in Int BY <1>1, <1>2, IdsAreInts, BoundsAssumption DEF TypeOK
  <2>2. j >= nextId /\ j # i BY <1>1, <2>1
  <2> QED BY <1>4, <2>2 DEF IInv, Fresh
<1>12. StaysDeleted'
  <2> SUFFICES ASSUME NEW j \in deleted' PROVE j < nextId' /\ zones'[j] = NoZone BY DEF StaysDeleted
  <2>1. CASE j = i /\ request[h].op = "delete" BY <1>1, <1>4, <2>1
  <2>2. CASE j \in deleted
    <3>1. j \in Id /\ j < nextId /\ zones[j] = NoZone BY <2>2, <1>2 DEF IInv, TypeOK, StaysDeleted
    <3>2. j = i => draft[h] = NoZone
      BY <2>2, <3>1, <1>5 DEF IInv, Local, Holds, Drafted
    <3> QED BY <3>1, <3>2, <1>4
  <2>3. (j = i /\ request[h].op = "delete") \/ j \in deleted BY <1>5
  <2> QED BY <2>1, <2>2, <2>3
<1>13. BoundsFollowShape'
  <2> SUFFICES ASSUME NEW j \in Id, zones'[j] # NoZone PROVE Bounded(zones'[j])
    BY DEF BoundsFollowShape, Bounded
  <2>1. CASE j = i BY <1>1, <1>4, <2>1
  <2>2. CASE j # i BY <1>4, <2>2 DEF IInv, BoundsFollowShape, Bounded
  <2> QED BY <2>1, <2>2
<1> QED BY <1>6, <1>8, <1>9, <1>10, <1>11, <1>12, <1>13 DEF IInv

LEMMA FaultCounts == ASSUME TypeOK, Fault PROVE faults' \in 0..MaxFaults
  BY BoundsAssumption DEF TypeOK, Fault

LEMMA InitIInv == Init => IInv
<1> SUFFICES ASSUME Init PROVE IInv OBVIOUS
<1> USE DEF Init
<1>1. TypeOK
  <2>1. zones \in [Id -> Zone \cup {NoZone}] BY InitialAssumption
  <2>2. nextId \in 1..NumIds + 1 OBVIOUS
  <2>3. held \in [Handlers -> 0..NumIds] BY BoundsAssumption
  <2>4. requests \in 0..MaxRequests /\ faults \in 0..MaxFaults BY BoundsAssumption
  <2> QED BY <2>1, <2>2, <2>3, <2>4 DEF TypeOK
<1>2. \A h \in Handlers : Local(h) BY DEF Local, Asked, Retrieved, Holds, Drafted
<1>3. Exclusive BY DEF Exclusive
<1>4. Fresh BY DEF Fresh
<1>5. StaysDeleted BY DEF StaysDeleted
<1>6. Room
  <2>1. Inserting = {} BY DEF Inserting
  <2>2. Cardinality(Inserting) = 0 BY <2>1, FS_EmptySet
  <2>3. nextId \in 1..NumIds + 1 OBVIOUS
  <2> QED BY <2>2, <2>3, BoundsAssumption DEF Room
<1>7. BoundsFollowShape BY InitialAssumption DEF BoundsFollowShape
<1> QED BY <1>1, <1>2, <1>3, <1>4, <1>5, <1>6, <1>7 DEF IInv

LEMMA InvStep == IInv /\ [Next]_vars => IInv'
<1> SUFFICES ASSUME IInv, [Next]_vars PROVE IInv' OBVIOUS
<1>1. ASSUME NEW h \in Handlers, Create(h) PROVE IInv'
  <2>1. PICK u \in Users, n \in Names, c \in Centers, r \in Radii :
           Arrives(h, [op |-> "create", user |-> u, id |-> 0,
                       fields |-> [name |-> n, center |-> c, radius |-> r]])
    BY <1>1 DEF Create
  <2> DEFINE q == [op |-> "create", user |-> u, id |-> 0,
                   fields |-> [name |-> n, center |-> c, radius |-> r]]
  <2>2. q \in Request BY AllFields, BoundsAssumption DEF Request
  <2>3. /\ q.op = "create" /\ q.id = 0 /\ q.fields \in [name : Names, center : Centers, radius : Radii]
        /\ nextId + Cardinality(Inserting) <= NumIds
    BY <1>1 DEF Create
  <2> HIDE DEF q
  <2>4. Arrives(h, q) BY <2>1 DEF q
  <2> QED BY <2>2, <2>3, <2>4, ArrivesStep
<1>2. ASSUME NEW h \in Handlers, Patch(h) PROVE IInv'
  <2>1. PICK u \in Users, i \in Id, f \in Patches :
           Arrives(h, [op |-> "update", user |-> u, id |-> i, fields |-> f])
    BY <1>2 DEF Patch
  <2> DEFINE q == [op |-> "update", user |-> u, id |-> i, fields |-> f]
  <2>2. q \in Request BY PatchesAssumption, IdsAreInts DEF Request
  <2>3. q.op = "update" /\ q.id \in Id OBVIOUS
  <2> HIDE DEF q
  <2>4. Arrives(h, q) BY <2>1 DEF q
  <2> QED BY <2>2, <2>3, <2>4, ArrivesStep
<1>3. ASSUME NEW h \in Handlers, Delete(h) PROVE IInv'
  <2>1. PICK u \in Users, i \in Id :
           Arrives(h, [op |-> "delete", user |-> u, id |-> i, fields |-> <<>>])
    BY <1>3 DEF Delete
  <2> DEFINE q == [op |-> "delete", user |-> u, id |-> i, fields |-> <<>>]
  <2>2. q \in Request BY NoFields, IdsAreInts DEF Request
  <2>3. q.op = "delete" /\ q.id \in Id OBVIOUS
  <2> HIDE DEF q
  <2>4. Arrives(h, q) BY <2>1 DEF q
  <2> QED BY <2>2, <2>3, <2>4, ArrivesStep
<1>4. ASSUME NEW h \in Handlers, NotFound(h) \/ Gone(h) \/ Conflict(h) \/ DeadlockFails(h) PROVE IInv'
  <2>1. (Refuse(h, 404) \/ Refuse(h, 409) \/ Refuse(h, 500)) /\ UNCHANGED faults
    BY <1>4 DEF NotFound, Gone, Conflict, DeadlockFails
  <2>2. faults' \in 0..MaxFaults BY <2>1 DEF IInv, TypeOK
  <2> QED BY <2>1, <2>2, RefuseStep
<1>5. ASSUME NEW h \in Handlers, Commit(h) PROVE IInv'
  <2>1. faults' \in 0..MaxFaults BY <1>5 DEF Commit, IInv, TypeOK
  <2>2. deleted' = deleted \/ (request[h].op = "delete" /\ deleted' = deleted \cup {held[h]})
    BY <1>5 DEF Commit
  <2>3. pc[h] = "commit" /\ Applied(h) /\ Answer(h, 200) /\ UNCHANGED <<nextId, requests>>
    BY <1>5 DEF Commit
  <2> QED BY <2>1, <2>2, <2>3, CommitStep
<1>6. ASSUME NEW h \in Handlers, Fails(h) PROVE IInv'
  BY <1>6, RefuseStep, FaultCounts DEF Fails, IInv
<1>7. ASSUME NEW h \in Handlers, CommitLost(h) PROVE IInv'
  <2>1. faults' \in 0..MaxFaults BY <1>7, FaultCounts DEF CommitLost, IInv
  <2>2. /\ pc[h] = "commit" /\ Applied(h) /\ Answer(h, 500)
        /\ UNCHANGED <<nextId, requests>> /\ deleted' = deleted
    BY <1>7 DEF CommitLost
  <2> QED BY <2>1, <2>2, CommitStep
<1>8. CASE UNCHANGED vars
  <2> USE <1>8 DEF vars, handlerVars, IInv
  <2>1. TypeOK' BY DEF TypeOK
  <2>2. \A h \in Handlers : Local(h)' BY DEF Local, Asked, Retrieved, Holds, Drafted
  <2>3. Exclusive' BY DEF Exclusive
  <2>4. Room'
    <3>1. Inserting' = Inserting BY DEF Inserting
    <3> QED BY <3>1, RoomKept
  <2>5. Fresh' /\ StaysDeleted' /\ BoundsFollowShape' BY TableKept
  <2> QED BY <2>1, <2>2, <2>3, <2>4, <2>5
<1> QED
  BY <1>1, <1>2, <1>3, <1>4, <1>5, <1>6, <1>7, <1>8,
     RetrieveStep, InsertStep, WriteStep, EntersIndexStep DEF Next, Step

-----------------------------------------------------------------------------
(* The theorems.                                                           *)

LEMMA Invariance == Spec => []IInv
  BY InitIInv, InvStep, PTL DEF Spec

\* The variables have their types: in particular every row is a whole geozone.
THEOREM TypeCorrect == Spec => []TypeOK
<1>1. IInv => TypeOK BY DEF IInv
<1> QED BY <1>1, Invariance, PTL

\* migrations' trigger: the bounds of a geozone are always those of its centre
\* and radius, whatever PATCHes cross.
THEOREM BoundsFit == Spec => []BoundsFollowShape
<1>1. IInv => BoundsFollowShape BY DEF IInv
<1> QED BY <1>1, Invariance, PTL

\* Only a commit changes the table, and it changes one row.
LEMMA OnlyCommits ==
  ASSUME IInv, [Next]_vars, NEW i \in Id, zones'[i] # zones[i]
  PROVE  \E h \in Handlers :
            /\ pc[h] = "commit" /\ held[h] = i /\ zones'[i] = draft[h]
            /\ Commit(h) \/ CommitLost(h)
<1>1. zones' # zones OBVIOUS
<1>2. PICK h \in Handlers : Commit(h) \/ CommitLost(h)
  <2>1. ASSUME NEW h \in Handlers, Create(h) \/ Patch(h) \/ Delete(h) PROVE FALSE
    BY <1>1, <2>1 DEF Create, Patch, Delete, Arrives
  <2>2. ASSUME NEW h \in Handlers, Retrieve(h) \/ Insert(h) \/ Update(h) \/ Remove(h) \/ EntersIndex(h)
        PROVE  FALSE
    BY <1>1, <2>2 DEF Retrieve, Insert, Update, Remove, EntersIndex
  <2>3. ASSUME NEW h \in Handlers, NotFound(h) \/ Gone(h) \/ Conflict(h) \/ DeadlockFails(h) \/ Fails(h)
        PROVE  FALSE
    BY <1>1, <2>3 DEF NotFound, Gone, Conflict, DeadlockFails, Fails, Refuse
  <2>4. ~UNCHANGED vars BY <1>1 DEF vars
  <2> QED BY <2>1, <2>2, <2>3, <2>4 DEF Next, Step
<1>3. pc[h] = "commit" /\ zones' = [zones EXCEPT ![held[h]] = draft[h]]
  BY <1>2 DEF Commit, CommitLost, Applied
<1>4. held[h] = i /\ zones'[i] = draft[h] BY <1>3 DEF IInv, TypeOK
<1> QED BY <1>2, <1>3, <1>4

\* README.md: "geozones are strictly isolated per user".  A row is changed or
\* deleted only by a transaction of its own user.
THEOREM OnlyOwnersWrite == Spec => OwnersOnly
<1>1. ASSUME IInv, [Next]_vars, NEW i \in Id, zones[i] # NoZone, zones'[i] # zones[i]
      PROVE  \E h \in Handlers : held[h] = i /\ request[h].user = zones[i].user
  <2>1. PICK h \in Handlers : pc[h] = "commit" /\ held[h] = i BY <1>1, OnlyCommits
  <2>2. request[h].user = zones[i].user BY <1>1, <2>1 DEF IInv, Local, Holds
  <2> QED BY <2>1, <2>2
<1>2. IInv /\ [Next]_vars =>
         [\A i \in Id : zones[i] # NoZone /\ zones'[i] # zones[i] =>
             \E h \in Handlers : held[h] = i /\ request[h].user = zones[i].user]_vars
  BY <1>1
<1> QED BY <1>2, Invariance, PTL DEF Spec, OwnersOnly

\* Two PATCHes of one geozone merge, in whatever order they retrieve, wait and
\* commit: a commit changes no column that its request did not set.
THEOREM ConcurrentPatchesMerge == Spec => PatchesMerge
<1>1. ASSUME IInv, [Next]_vars, NEW i \in Id, zones[i] # NoZone, zones'[i] # NoZone,
             NEW k \in Columns, zones'[i][k] # zones[i][k]
      PROVE  \E h \in Handlers : held[h] = i /\ k \in DOMAIN request[h].fields
  <2>1. PICK h \in Handlers : pc[h] = "commit" /\ held[h] = i /\ zones'[i] = draft[h]
    BY <1>1, OnlyCommits
  <2>2. request[h] \in Request /\ request[h].op # "create" /\ request[h].op # "delete"
    BY <1>1, <2>1 DEF IInv, Local, Asked, Holds, Drafted
  <2>3. request[h].op = "update" BY <2>2 DEF Request
  <2>4. k \in DOMAIN request[h].fields BY <1>1, <2>1, <2>3 DEF IInv, Local, Drafted
  <2> QED BY <2>1, <2>4
<1>2. IInv /\ [Next]_vars =>
         [\A i \in Id : zones[i] # NoZone /\ zones'[i] # NoZone =>
             \A k \in {"name", "center", "radius"} : zones'[i][k] # zones[i][k] =>
                \E h \in Handlers : held[h] = i /\ k \in DOMAIN request[h].fields]_vars
  BY <1>1 DEF Columns
<1> QED BY <1>2, Invariance, PTL DEF Spec, PatchesMerge

\* Only the commit of its own transaction answers a request with success.
LEMMA OnlyCommitsSucceed ==
  ASSUME IInv, [Next]_vars, NEW h \in Handlers, pc[h] # "idle", status'[h] = 200
  PROVE  Commit(h)
<1>1. status[h] = 0 /\ status \in [Handlers -> {0, 200, 404, 409, 500}]
  BY DEF IInv, TypeOK, Local, Asked
<1>2. status' # status BY <1>1
<1>3. ASSUME NEW g \in Handlers, NEW code, Answer(g, code) PROVE g = h /\ code = 200
  BY <1>1, <1>3 DEF Answer
<1>4. ASSUME NEW g \in Handlers, Create(g) \/ Patch(g) \/ Delete(g) PROVE FALSE
  <2>1. status' = [status EXCEPT ![g] = 0] BY <1>4 DEF Create, Patch, Delete, Arrives
  <2> QED BY <1>1, <2>1
<1>5. ASSUME NEW g \in Handlers, Retrieve(g) \/ Insert(g) \/ Update(g) \/ Remove(g) \/ EntersIndex(g)
      PROVE  FALSE
  BY <1>2, <1>5 DEF Retrieve, Insert, Update, Remove, EntersIndex
<1>6. ASSUME NEW g \in Handlers, NotFound(g) \/ Gone(g) \/ Conflict(g) \/ DeadlockFails(g) \/ Fails(g)
      PROVE  FALSE
  <2>1. Answer(g, 404) \/ Answer(g, 409) \/ Answer(g, 500)
    BY <1>6 DEF NotFound, Gone, Conflict, DeadlockFails, Fails, Refuse
  <2> QED BY <2>1, <1>3
<1>7. ASSUME NEW g \in Handlers, CommitLost(g) PROVE FALSE
  BY <1>3, <1>7 DEF CommitLost
<1>8. ASSUME NEW g \in Handlers, Commit(g) PROVE g = h
  BY <1>3, <1>8 DEF Commit
<1>9. ~UNCHANGED vars BY <1>2 DEF vars, handlerVars
<1> QED BY <1>4, <1>5, <1>6, <1>7, <1>8, <1>9 DEF Next, Step

\* Once a DELETE was answered 204, no request for that id succeeds, not even
\* one that had retrieved the row before.
THEOREM DeletedIsGone == Spec => NothingAfterDelete
<1>1. ASSUME IInv, [Next]_vars, NEW h \in Handlers, pc[h] # "idle", status'[h] = 200
      PROVE  request[h].id \notin deleted
  <2>1. pc[h] = "commit" BY <1>1, OnlyCommitsSucceed DEF Commit
  <2>2. CASE request[h].op = "create"
    <3>1. request[h].id = 0 /\ deleted \subseteq Id
      BY <1>1, <2>2 DEF IInv, TypeOK, Local, Asked
    <3> QED BY <3>1, IdsAreInts
  <2>3. CASE request[h].op # "create"
    <3>1. zones[request[h].id] # NoZone BY <1>1, <2>1, <2>3 DEF IInv, Local, Holds
    <3> QED BY <1>1, <3>1 DEF IInv, StaysDeleted
  <2> QED BY <2>2, <2>3
<1>2. IInv /\ [Next]_vars =>
         [\A h \in Handlers : pc[h] # "idle" /\ status'[h] = 200 => request[h].id \notin deleted]_vars
  BY <1>1
<1> QED BY <1>2, Invariance, PTL DEF Spec, NothingAfterDelete
=============================================================================
