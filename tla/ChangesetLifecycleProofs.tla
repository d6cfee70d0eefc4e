---------------------- MODULE ChangesetLifecycleProofs ----------------------
(***************************************************************************)
(* Theorems about ChangesetLifecycle, for any number of workers, users and *)
(* changesets, any uploads and any timeouts.                               *)
(***************************************************************************)
EXTENDS ChangesetLifecycle, FiniteSetTheorems, TLAPS

(***************************************************************************)
(* The changesets row                                                      *)
(***************************************************************************)
LEMMA ExpandType ==
    ASSUME NEW a \in bbox_t, NEW b \in bbox_t
    PROVE  expand(a, b) \in bbox_t
BY DEF expand, bbox_t

LEMMA UndefinedType == undefined_bbox \in bbox_t
BY DEF undefined_bbox, bbox_t

LEMMA InsertType ==
    ASSUME NEW t \in Nat
    PROVE  changeset_insert_cs(t) \in Changeset
BY UndefinedType, TimeoutAssumption DEF changeset_insert_cs, Changeset

LEMMA UpdateType ==
    ASSUME NEW cs \in Changeset, NEW num \in Nat, NEW b \in bbox_t, NEW t \in Nat
    PROVE  update_changeset(cs, num, b, t) \in Changeset
<1>1. update_closed_at(cs, t) \in Int
  BY TimeoutAssumption DEF update_closed_at, Changeset
<1>2. expand(cs.bbox, b) \in bbox_t
  BY ExpandType DEF Changeset
<1>3. /\ cs.num_changes + num \in Nat
      /\ cs \in [created_at: Int, closed_at: Int, num_changes: Nat, bbox: bbox_t]
  BY DEF Changeset
<1> DEFINE n == cs.num_changes + num
           x == expand(cs.bbox, b)
           c == update_closed_at(cs, t)
<1>4. update_changeset(cs, num, b, t) =
          [cs EXCEPT !.num_changes = n, !.bbox = x, !.closed_at = c]
  BY DEF update_changeset
<1> HIDE DEF n, x, c
<1>5. n \in Nat /\ x \in bbox_t /\ c \in Int
  BY <1>1, <1>2, <1>3 DEF n, x, c
<1>6. QED
  BY <1>3, <1>4, <1>5 DEF Changeset

LEMMA CloseType ==
    ASSUME NEW cs \in Changeset, NEW t \in Nat
    PROVE  close_changeset(cs, t) \in Changeset
BY DEF close_changeset, Changeset

\* Writing back what was read is no change.
LEMMA ViewType ==
    ASSUME NEW cs \in Changeset, NEW n \in Nat, NEW b \in bbox_t
    PROVE  /\ [cs EXCEPT !.num_changes = n, !.bbox = b] \in Changeset
           /\ n = cs.num_changes /\ b = cs.bbox =>
                  [cs EXCEPT !.num_changes = n, !.bbox = b] = cs
BY DEF Changeset

LEMMA RowType == Row = [user_id: Users, tags: TagSets, cs: Changeset]
BY DEF Row, Atomic!Row, Atomic!Changeset, Changeset, Atomic!bbox_t, bbox_t

(***************************************************************************)
(* Type correctness                                                        *)
(***************************************************************************)
\* The stage and the kind of a request tell which record it is.
LEMMA RequestKinds ==
    ASSUME NEW r \in Requests
    PROVE  /\ r = Idle <=> r.stage = "idle"
           /\ r.stage = "begun" => r \in Begun
           /\ r.stage = "inserted" => r \in Inserted
           /\ r.stage = "locked" => r \in Locked
           /\ r.stage = "ready" /\ r.kind = "create" => r \in Created
           /\ r.stage = "ready" /\ r.kind # "create" => r \in Changed
BY DEF Requests, Idle, Begun, Inserted, Locked, Created, Changed

LEMMA GotoType ==
    ASSUME NEW w \in Workers, NEW r \in Requests, request \in [Workers -> Requests],
           Goto(w, r)
    PROVE  request' \in [Workers -> Requests]
BY DEF Goto

LEMMA PutType ==
    ASSUME NEW table, NEW id \in ChangesetIds, NEW row \in Row,
           DOMAIN table \subseteq ChangesetIds,
           \A i \in DOMAIN table : table[i] \in Row
    PROVE  /\ DOMAIN Put(table, id, row) = DOMAIN table \cup {id}
           /\ Put(table, id, row)[id] = row
           /\ \A i \in DOMAIN table : i # id => Put(table, id, row)[i] = table[i]
           /\ DOMAIN Put(table, id, row) \subseteq ChangesetIds
           /\ \A i \in DOMAIN Put(table, id, row) : Put(table, id, row)[i] \in Row
BY DEF Put, Atomic!Put

\* What an UPDATE of changesets writes is a row.
LEMMA WrittenType ==
    ASSUME NEW row \in Row, NEW cs \in Changeset, NEW tags \in TagSets
    PROVE  /\ [row EXCEPT !.cs = cs] \in Row
           /\ [row EXCEPT !.tags = tags, !.cs = cs] \in Row
           /\ [row EXCEPT !.tags = tags] \in Row
           /\ row.cs \in Changeset
<1> DEFINE S == [user_id: Users, tags: TagSets, cs: Changeset]
<1>1. row \in S
  BY RowType
<1>2. /\ [row EXCEPT !.cs = cs] \in S
      /\ [row EXCEPT !.tags = tags, !.cs = cs] \in S
      /\ [row EXCEPT !.tags = tags] \in S
      /\ row.cs \in Changeset
  BY <1>1
<1>3. QED
  BY <1>2, RowType

LEMMA TypeStep == ASSUME TypeOK, ReadsCurrent, [Next]_vars PROVE TypeOK'
<1> USE DEF TypeOK
<1>1. CASE UNCHANGED vars
  BY <1>1 DEF vars
<1>2. CASE tick
  BY <1>2 DEF tick, tables
<1>3. ASSUME NEW w \in Workers, begin(w) PROVE TypeOK'
  <2>1. PICK kind \in Kinds, u \in Users, id \in ChangesetIds :
            Goto(w, [stage |-> "begun", kind |-> kind, user |-> u, id |-> id, began |-> now])
    BY <1>3 DEF begin
  <2>2. [stage |-> "begun", kind |-> kind, user |-> u, id |-> id, began |-> now] \in Requests
    BY DEF Requests, Begun
  <2>3. QED
    BY <1>3, <2>1, <2>2, GotoType DEF begin, tables
<1>4. ASSUME NEW w \in Workers, rollback(w) PROVE TypeOK'
  <2>1. Idle \in Requests
    BY DEF Requests
  <2>2. QED
    BY <1>4, <2>1, GotoType DEF rollback, tables
<1>5. ASSUME NEW w \in Workers, changeset_insert(w) PROVE TypeOK'
  <2>1. request[w] \in Begun
    BY <1>5, RequestKinds DEF changeset_insert
  <2> DEFINE row == [user_id |-> request[w].user, tags |-> {},
                     cs |-> changeset_insert_cs(request[w].began)]
             r == [stage |-> "inserted", kind |-> "create", user |-> request[w].user,
                   id |-> id_seq + 1, began |-> request[w].began, row |-> row]
  <2>2. row \in Row
    BY <2>1, InsertType, RowType, EmptyTagsAssumption DEF Begun
  <2> HIDE DEF row
  <2>3. id_seq + 1 \in ChangesetIds => r \in Requests
    BY <2>1, <2>2 DEF Requests, Begun, Inserted
  <2>4. Idle \in Requests
    BY DEF Requests
  <2>5. CASE id_seq + 1 \in ChangesetIds
    <3>1. Goto(w, r) /\ id_seq' = id_seq + 1 /\ UNCHANGED <<now, tables>>
      BY <1>5, <2>5 DEF changeset_insert, row
    <3>2. QED
      BY <2>3, <2>5, <3>1, GotoType DEF tables
  <2>6. CASE id_seq + 1 \notin ChangesetIds
    BY <1>5, <2>4, <2>6, GotoType DEF changeset_insert, tables
  <2>7. QED
    BY <2>5, <2>6
<1>6. ASSUME NEW w \in Workers, api_create_changeset(w) PROVE TypeOK'
  <2>1. request[w] \in Inserted
    BY <1>6, RequestKinds DEF api_create_changeset
  <2>2. PICK tags \in TagSets :
            Goto(w, [stage |-> "ready", kind |-> "create", user |-> request[w].user,
                     id |-> request[w].id, began |-> request[w].began,
                     row |-> [request[w].row EXCEPT !.tags = tags],
                     count |-> changesets_count[request[w].user] + 1])
    BY <1>6 DEF api_create_changeset
  <2> DEFINE row == [request[w].row EXCEPT !.tags = tags]
             r == [stage |-> "ready", kind |-> "create", user |-> request[w].user,
                   id |-> request[w].id, began |-> request[w].began, row |-> row,
                   count |-> changesets_count[request[w].user] + 1]
  <2>3. row \in Row
    BY <2>1, RowType DEF Inserted
  <2> HIDE DEF row
  <2>4. r \in Requests
    BY <2>1, <2>3 DEF Requests, Inserted, Created
  <2>5. Goto(w, r)
    BY <2>2 DEF row
  <2>6. QED
    BY <1>6, <2>4, <2>5, GotoType DEF api_create_changeset, tables
<1>7. ASSUME NEW w \in Workers, lock_current_changeset(w) PROVE TypeOK'
  <2>1. request[w] \in Begun
    BY <1>7, RequestKinds DEF lock_current_changeset
  <2>2. Idle \in Requests
    BY DEF Requests
  <2>3. CASE ~Admitted(w)
    BY <1>7, <2>2, <2>3, GotoType DEF lock_current_changeset, tables
  <2>4. CASE Admitted(w)
    <3> DEFINE cs == changesets[request[w].id].cs
               r == [stage |-> "locked", kind |-> request[w].kind, user |-> request[w].user,
                     id |-> request[w].id, began |-> request[w].began,
                     cs_num_changes |-> cs.num_changes, cs_bbox |-> cs.bbox]
    <3>1. cs \in Changeset
      BY <2>4, RowType DEF Admitted
    <3>2. request[w].kind # "create"
      BY <1>7 DEF lock_current_changeset
    <3> HIDE DEF cs
    <3>3. cs.num_changes \in Nat /\ cs.bbox \in bbox_t
      BY <3>1 DEF Changeset
    <3>4. r \in Requests
      BY <2>1, <3>2, <3>3 DEF Requests, Begun, Locked
    <3>5. Goto(w, r)
      BY <1>7, <2>4 DEF lock_current_changeset, cs
    <3>6. QED
      BY <1>7, <3>4, <3>5, GotoType DEF lock_current_changeset, tables
  <2>5. QED
    BY <2>3, <2>4
<1>8. ASSUME NEW w \in Workers, NEW row \in Row, request[w] \in Locked, Write(w, row)
      PROVE  TypeOK'
  <2> DEFINE r == [stage |-> "ready", kind |-> request[w].kind, user |-> request[w].user,
                   id |-> request[w].id, began |-> request[w].began, row |-> row]
  <2>1. r \in Requests
    BY <1>8 DEF Requests, Locked, Changed
  <2>2. QED
    BY <1>8, <2>1, GotoType DEF Write, tables
<1>9. ASSUME NEW w \in Workers, request[w].stage = "locked", request[w].kind # "create"
      PROVE  /\ request[w] \in Locked
             /\ changesets[request[w].id] \in Row
             /\ UpdatersView(w) \in Changeset
  <2>1. request[w] \in Locked /\ changesets[request[w].id] \in Row
    BY <1>9, RequestKinds DEF ReadsCurrent, ReadCurrent, Holds
  <2>2. changesets[request[w].id].cs \in Changeset
    BY <2>1, RowType
  <2>3. QED
    BY <2>1, <2>2, ViewType DEF UpdatersView, Locked
<1>10. ASSUME NEW w \in Workers, api_update_changeset(w) PROVE TypeOK'
  <2>1. request[w].stage = "locked" /\ request[w].kind # "create"
    BY <1>10 DEF api_update_changeset
  <2> DEFINE cs == update_changeset(UpdatersView(w), 0, undefined_bbox, request[w].began)
  <2>2. cs \in Changeset
    BY <1>9, <2>1, UpdateType, UndefinedType DEF Locked
  <2>3. PICK tags \in TagSets :
            Write(w, [changesets[request[w].id] EXCEPT !.tags = tags, !.cs = cs])
    BY <1>10 DEF api_update_changeset
  <2> HIDE DEF cs
  <2>4. [changesets[request[w].id] EXCEPT !.tags = tags, !.cs = cs] \in Row
    BY <1>9, <2>1, <2>2, WrittenType
  <2>5. QED
    BY <1>8, <1>9, <2>1, <2>3, <2>4
<1>11. ASSUME NEW w \in Workers, api_close_changeset(w) PROVE TypeOK'
  <2>1. request[w].stage = "locked" /\ request[w].kind # "create"
    BY <1>11 DEF api_close_changeset
  <2> DEFINE cs == close_changeset(changesets[request[w].id].cs, request[w].began)
  <2>2. cs \in Changeset
    BY <1>9, <2>1, CloseType, RowType DEF Locked
  <2>3. Write(w, [changesets[request[w].id] EXCEPT !.cs = cs])
    BY <1>11 DEF api_close_changeset
  <2> HIDE DEF cs
  <2>4. [changesets[request[w].id] EXCEPT !.cs = cs] \in Row
    BY <1>9, <2>1, <2>2, WrittenType, EmptyTagsAssumption
  <2>5. QED
    BY <1>8, <1>9, <2>1, <2>3, <2>4
<1>12. ASSUME NEW w \in Workers, upload_update_changeset(w) PROVE TypeOK'
  <2>1. request[w].stage = "locked" /\ request[w].kind # "create"
    BY <1>12 DEF upload_update_changeset
  <2>2. Idle \in Requests
    BY DEF Requests
  <2>3. CASE Goto(w, Idle) /\ UNCHANGED <<now, id_seq, tables>>
    BY <2>2, <2>3, GotoType DEF tables
  <2>4. ASSUME NEW up \in Uploads,
               Write(w, [changesets[request[w].id] EXCEPT
                     !.cs = update_changeset(UpdatersView(w), up.num, up.bbox,
                                             request[w].began)])
        PROVE  TypeOK'
    <3> DEFINE cs == update_changeset(UpdatersView(w), up.num, up.bbox, request[w].began)
    <3>1. up.num \in Nat /\ up.bbox \in bbox_t
      BY UploadsAssumption
    <3>2. cs \in Changeset
      BY <1>9, <2>1, <3>1, UpdateType DEF Locked
    <3>3. Write(w, [changesets[request[w].id] EXCEPT !.cs = cs])
      BY <2>4
    <3> HIDE DEF cs
    <3>4. [changesets[request[w].id] EXCEPT !.cs = cs] \in Row
      BY <1>9, <2>1, <3>2, WrittenType, EmptyTagsAssumption
    <3>5. QED
      BY <1>8, <1>9, <2>1, <3>3, <3>4
  <2>5. QED
    BY <1>12, <2>3, <2>4 DEF upload_update_changeset
<1>13. ASSUME NEW w \in Workers, commit(w) PROVE TypeOK'
  <2>1. request[w] \in Created \cup Changed
    BY <1>13, RequestKinds DEF commit
  <2>2. /\ request[w].id \in ChangesetIds /\ request[w].row \in Row
        /\ request[w].user \in Users
        /\ request[w].kind = "create" => request[w].count \in Nat
    BY <2>1 DEF Created, Changed
  <2>3. Idle \in Requests
    BY DEF Requests
  <2>4. request' \in [Workers -> Requests]
    BY <1>13, <2>3, GotoType DEF commit
  <2>5. /\ DOMAIN changesets' \subseteq ChangesetIds
        /\ \A id \in DOMAIN changesets' : changesets'[id] \in Row
    BY <1>13, <2>2, PutType DEF commit
  <2>6. /\ changesets_count' \in [Users -> Nat]
        /\ subscribers' \subseteq Users \X ChangesetIds
    BY <1>13, <2>2 DEF commit, changeset_insert_subscriber
  <2>7. QED
    BY <1>13, <2>2, <2>4, <2>5, <2>6 DEF commit
<1>14. QED
  BY <1>1, <1>2, <1>3, <1>4, <1>5, <1>6, <1>7, <1>10, <1>11, <1>12, <1>13 DEF Next, Serve

(***************************************************************************)
(* Locks protect what they lock                                            *)
(***************************************************************************)
\* A step in which a worker goes on with its request and nothing is committed.
LEMMA LocalStep ==
    ASSUME TypeOK, LocksProtect,
           NEW w \in Workers, NEW r, Goto(w, r), UNCHANGED <<now, tables>>,
           id_seq' \in Nat, id_seq <= id_seq',
           r = Idle \/ r.began <= now,
           Holds(r) => /\ ReadCurrent(r)
                       /\ \A v \in Workers \ {w} : Holds(request[v]) => request[v].id # r.id,
           Holds(r) /\ r.stage = "ready" => WriteCurrent(r),
           Inserts(r) => /\ InsertFresh(r)'
                         /\ \A v \in Workers \ {w} :
                                Inserts(request[v]) => request[v].id # r.id,
           Counts(r) => /\ r.count = changesets_count[r.user] + 1
                        /\ \A v \in Workers \ {w} :
                               Counts(request[v]) => request[v].user # r.user
    PROVE  LocksProtect'
<1>1. /\ request'[w] = r
      /\ \A v \in Workers \ {w} : request'[v] = request[v]
  BY DEF Goto, TypeOK
<1>2. LocksExclusive'
  BY <1>1 DEF LocksProtect, LocksExclusive
<1>3. ReadsCurrent'
  BY <1>1 DEF LocksProtect, ReadsCurrent, ReadCurrent, tables
<1>4. WritesCurrent'
  <2> SUFFICES ASSUME NEW v \in Workers, Holds(request'[v]), request'[v].stage = "ready"
               PROVE  WriteCurrent(request[v])'
    BY DEF WritesCurrent
  <2>1. WriteCurrent(request'[v])
    BY <1>1 DEF LocksProtect, WritesCurrent
  <2>2. changesets' = changesets
    BY DEF tables
  <2>3. QED
    BY <2>1, <2>2 DEF WriteCurrent
<1>5. InsertsFresh'
  <2>1. \A id \in DOMAIN changesets' : id <= id_seq'
    <3> SUFFICES ASSUME NEW id \in DOMAIN changesets PROVE id <= id_seq'
      BY DEF tables
    <3>1. id \in Nat /\ id <= id_seq /\ id_seq \in Nat
      BY IdsAssumption DEF LocksProtect, InsertsFresh, TypeOK
    <3>2. QED
      BY <3>1
  <2>2. \A v \in Workers : Inserts(request'[v]) => InsertFresh(request[v])' \/ v = w
    <3> SUFFICES ASSUME NEW v \in Workers \ {w}, Inserts(request[v])
                 PROVE  InsertFresh(request[v])'
      BY <1>1
    <3>1. InsertFresh(request[v]) /\ request[v] \in Inserted \cup Created
      BY RequestKinds DEF LocksProtect, InsertsFresh, TypeOK, Inserts
    <3>2. request[v].id \in Nat
      BY <3>1, IdsAssumption DEF Inserted, Created
    <3>3. QED
      BY <1>1, <3>1, <3>2 DEF InsertFresh, tables, TypeOK
  <2>3. QED
    BY <1>1, <2>1, <2>2 DEF LocksProtect, InsertsFresh
<1>6. CountsCurrent'
  BY <1>1 DEF LocksProtect, CountsCurrent, tables
<1>7. BeganBefore'
  BY <1>1 DEF LocksProtect, BeganBefore
<1>8. QED
  BY <1>2, <1>3, <1>4, <1>5, <1>6, <1>7 DEF LocksProtect

\* A request that has been locked, or whose row has been inserted, keeps its
\* place when it goes on.
LEMMA LockedStep ==
    ASSUME TypeOK, LocksProtect, NEW w \in Workers,
           request[w].stage = "locked", request[w].kind # "create",
           NEW row, Write(w, row),
           WriteCurrent([stage |-> "ready", kind |-> request[w].kind, user |-> request[w].user,
                         id |-> request[w].id, began |-> request[w].began, row |-> row])
    PROVE  LocksProtect'
<1> DEFINE r == [stage |-> "ready", kind |-> request[w].kind, user |-> request[w].user,
                 id |-> request[w].id, began |-> request[w].began, row |-> row]
<1>1. Holds(request[w]) /\ request[w] # Idle /\ request[w].id \in ChangesetIds
  BY RequestKinds DEF Holds, TypeOK, Locked, Idle
<1>2. ReadCurrent(r)
  BY <1>1 DEF LocksProtect, ReadsCurrent, ReadCurrent
<1>3. \A v \in Workers \ {w} : Holds(request[v]) => request[v].id # r.id
  BY <1>1 DEF LocksProtect, LocksExclusive
<1>4. r.began <= now
  BY <1>1 DEF LocksProtect, BeganBefore
<1>5. ~Inserts(r) /\ ~Counts(r)
  BY DEF Inserts, Counts
<1>6. Goto(w, r) /\ UNCHANGED <<now, tables>> /\ id_seq' = id_seq /\ id_seq \in Nat
  BY DEF Write, TypeOK
<1>7. WriteCurrent(r)
  OBVIOUS
<1> HIDE DEF r
<1>8. QED
  BY <1>2, <1>3, <1>4, <1>5, <1>6, <1>7, LocalStep

\* With what lock_cs has read still current, the changeset updater's view of
\* the row is the row.
LEMMA ViewCurrent ==
    ASSUME TypeOK, LocksProtect, NEW w \in Workers,
           request[w].stage = "locked", request[w].kind # "create"
    PROVE  UpdatersView(w) = changesets[request[w].id].cs
<1>1. ReadCurrent(request[w]) /\ request[w] \in Locked
  BY RequestKinds DEF LocksProtect, ReadsCurrent, Holds, TypeOK
<1>2. changesets[request[w].id].cs \in Changeset
  BY <1>1, RowType DEF ReadCurrent, TypeOK
<1>3. QED
  BY <1>1, <1>2, ViewType DEF UpdatersView, ReadCurrent, Locked

LEMMA LocksStepServe ==
    ASSUME TypeOK, LocksProtect, NEW w \in Workers,
           begin(w) \/ rollback(w) \/ (Serve(w) /\ ~commit(w))
    PROVE  LocksProtect'
<1>1. id_seq \in Nat /\ id_seq <= id_seq
  BY DEF TypeOK
<1>2. CASE begin(w)
  <2>1. PICK kind \in Kinds, u \in Users, id \in ChangesetIds :
            Goto(w, [stage |-> "begun", kind |-> kind, user |-> u, id |-> id, began |-> now])
    BY <1>2 DEF begin
  <2> DEFINE r == [stage |-> "begun", kind |-> kind, user |-> u, id |-> id, began |-> now]
  <2>2. ~Holds(r) /\ ~Inserts(r) /\ ~Counts(r) /\ r.began <= now
    BY DEF Holds, Inserts, Counts, TypeOK
  <2>3. Goto(w, r) /\ UNCHANGED <<now, tables>> /\ id_seq' \in Nat /\ id_seq <= id_seq'
    BY <1>1, <1>2, <2>1 DEF begin
  <2> HIDE DEF r
  <2>4. QED
    BY <2>2, <2>3, LocalStep
<1>3. ASSUME Goto(w, Idle), UNCHANGED <<now, id_seq, tables>> PROVE LocksProtect'
  <2>1. PICK r : r = Idle
    OBVIOUS
  <2>2. Goto(w, r)
    BY <1>3, <2>1
  <2>3. ~Holds(r) /\ ~Inserts(r) /\ ~Counts(r)
    BY <2>1 DEF Holds, Inserts, Counts, Idle
  <2>4. id_seq' \in Nat /\ id_seq <= id_seq'
    BY <1>1, <1>3
  <2>5. QED
    BY <1>3, <2>1, <2>2, <2>3, <2>4, LocalStep
<1>4. CASE changeset_insert(w)
  <2>1. CASE id_seq + 1 \notin ChangesetIds
    BY <1>3, <1>4, <2>1 DEF changeset_insert
  <2>2. CASE id_seq + 1 \in ChangesetIds
    <3> DEFINE r == [stage |-> "inserted", kind |-> "create", user |-> request[w].user,
                     id |-> id_seq + 1, began |-> request[w].began,
                     row |-> [user_id |-> request[w].user, tags |-> {},
                              cs |-> changeset_insert_cs(request[w].began)]]
    <3>1. Goto(w, r) /\ id_seq' = id_seq + 1 /\ UNCHANGED <<now, tables>>
      BY <1>4, <2>2 DEF changeset_insert
    <3>2. id_seq' \in Nat /\ id_seq <= id_seq'
      BY <1>1, <3>1
    <3>3. r.began <= now
      BY <1>4 DEF changeset_insert, LocksProtect, BeganBefore, Idle
    <3>4. ~Holds(r) /\ ~Counts(r) /\ Inserts(r)
      BY DEF Holds, Counts, Inserts
    <3>5. id_seq + 1 \notin DOMAIN changesets
      BY <1>1 DEF LocksProtect, InsertsFresh
    <3>6. /\ r.id <= id_seq'
          /\ r.id \notin DOMAIN changesets'
          /\ r.row.user_id = r.user
          /\ r.row.cs = changeset_insert_cs(r.began)
      BY <1>1, <3>1, <3>5 DEF tables
    <3>7. \A v \in Workers \ {w} : Inserts(request[v]) => request[v].id # r.id
      BY <1>1 DEF LocksProtect, InsertsFresh, InsertFresh
    <3> HIDE DEF r
    <3>8. PICK q : q = r
      OBVIOUS
    <3>9. InsertFresh(q)'
      BY <3>6, <3>8 DEF InsertFresh
    <3>10. QED
      BY <3>1, <3>2, <3>3, <3>4, <3>7, <3>8, <3>9, LocalStep
  <2>3. QED
    BY <2>1, <2>2
<1>5. CASE api_create_changeset(w)
  <2>1. request[w] \in Inserted
    BY <1>5, RequestKinds DEF api_create_changeset, TypeOK
  <2>2. PICK tags \in TagSets :
            Goto(w, [stage |-> "ready", kind |-> "create", user |-> request[w].user,
                     id |-> request[w].id, began |-> request[w].began,
                     row |-> [request[w].row EXCEPT !.tags = tags],
                     count |-> changesets_count[request[w].user] + 1])
    BY <1>5 DEF api_create_changeset
  <2> DEFINE row == [request[w].row EXCEPT !.tags = tags]
             r == [stage |-> "ready", kind |-> "create", user |-> request[w].user,
                   id |-> request[w].id, began |-> request[w].began, row |-> row,
                   count |-> changesets_count[request[w].user] + 1]
  <2>3. Inserts(request[w]) /\ request[w] # Idle
    BY <2>1 DEF Inserts, Inserted, Idle
  <2>4. row.user_id = request[w].row.user_id /\ row.cs = request[w].row.cs
    BY <2>1, RowType DEF Inserted
  <2> HIDE DEF row
  <2>5. r.began <= now
    BY <2>3 DEF LocksProtect, BeganBefore
  <2>6. InsertFresh(request[w])
    BY <2>3 DEF LocksProtect, InsertsFresh
  <2>7. \A v \in Workers \ {w} : Inserts(request[v]) => request[v].id # r.id
    BY <2>3 DEF LocksProtect, InsertsFresh
  <2>8. \A v \in Workers \ {w} : Counts(request[v]) => request[v].user # r.user
    BY <1>5 DEF api_create_changeset, UserRowLocked
  <2>9. ~Holds(r)
    BY DEF Holds
  <2>10. Goto(w, r) /\ UNCHANGED <<now, id_seq, tables>>
    BY <1>5, <2>2 DEF api_create_changeset, row
  <2>11. r.count = changesets_count[r.user] + 1
    OBVIOUS
  <2>12. PICK q : q = r
    OBVIOUS
  <2>13. InsertFresh(q)'
    <3>1. /\ q.id = request[w].id /\ q.row = row /\ q.user = request[w].user
          /\ q.began = request[w].began
      BY <2>12
    <3>2. QED
      BY <2>4, <2>6, <2>10, <3>1 DEF InsertFresh, tables
  <2> HIDE DEF r
  <2>14. id_seq' \in Nat /\ id_seq <= id_seq'
    BY <1>1, <2>10
  <2>15. QED
    BY <2>5, <2>7, <2>8, <2>9, <2>10, <2>11, <2>12, <2>13, <2>14, LocalStep
<1>6. CASE lock_current_changeset(w)
  <2>1. request[w] \in Begun
    BY <1>6, RequestKinds DEF lock_current_changeset, TypeOK
  <2>2. CASE ~Admitted(w)
    BY <1>3, <1>6, <2>2 DEF lock_current_changeset
  <2>3. CASE Admitted(w)
    <3> DEFINE r == [stage |-> "locked", kind |-> request[w].kind, user |-> request[w].user,
                     id |-> request[w].id, began |-> request[w].began,
                     cs_num_changes |-> changesets[request[w].id].cs.num_changes,
                     cs_bbox |-> changesets[request[w].id].cs.bbox]
    <3>1. Goto(w, r) /\ UNCHANGED <<now, id_seq, tables>>
      BY <1>6, <2>3 DEF lock_current_changeset
    <3>2. r.began <= now
      BY <2>1 DEF LocksProtect, BeganBefore, Begun, Idle
    <3>3. ReadCurrent(r)
      BY <2>3 DEF Admitted, ReadCurrent
    <3>4. \A v \in Workers \ {w} : Holds(request[v]) => request[v].id # r.id
      BY <2>3 DEF Admitted, RowLocked
    <3>5. ~Inserts(r) /\ ~Counts(r) /\ r.stage # "ready"
      BY DEF Inserts, Counts
    <3> HIDE DEF r
    <3>6. id_seq' \in Nat /\ id_seq <= id_seq'
      BY <1>1, <3>1
    <3>7. QED
      BY <3>1, <3>2, <3>3, <3>4, <3>5, <3>6, LocalStep
  <2>4. QED
    BY <2>2, <2>3
<1>7. CASE api_update_changeset(w)
  <2>1. request[w].stage = "locked" /\ request[w].kind = "update"
    BY <1>7 DEF api_update_changeset
  <2>2. PICK tags \in TagSets :
            Write(w, [changesets[request[w].id] EXCEPT !.tags = tags,
                !.cs = update_changeset(UpdatersView(w), 0, undefined_bbox, request[w].began)])
    BY <1>7 DEF api_update_changeset
  <2> DEFINE row == [changesets[request[w].id] EXCEPT !.tags = tags,
                 !.cs = update_changeset(@, 0, undefined_bbox, request[w].began)]
             r == [stage |-> "ready", kind |-> request[w].kind, user |-> request[w].user,
                   id |-> request[w].id, began |-> request[w].began, row |-> row]
  <2>3. Write(w, row)
    BY <2>1, <2>2, ViewCurrent
  <2>4. WriteCurrent(r)
    BY <2>1 DEF WriteCurrent
  <2> HIDE DEF row
  <2>5. QED
    BY <2>1, <2>3, <2>4, LockedStep
<1>8. CASE api_close_changeset(w)
  <2>1. request[w].stage = "locked" /\ request[w].kind = "close"
    BY <1>8 DEF api_close_changeset
  <2> DEFINE row == [changesets[request[w].id] EXCEPT
                         !.cs = close_changeset(@, request[w].began)]
             r == [stage |-> "ready", kind |-> request[w].kind, user |-> request[w].user,
                   id |-> request[w].id, began |-> request[w].began, row |-> row]
  <2>2. Write(w, row)
    BY <1>8 DEF api_close_changeset
  <2>3. WriteCurrent(r)
    BY <2>1 DEF WriteCurrent
  <2> HIDE DEF row
  <2>4. QED
    BY <2>1, <2>2, <2>3, LockedStep
<1>9. CASE upload_update_changeset(w)
  <2>1. request[w].stage = "locked" /\ request[w].kind = "upload"
    BY <1>9 DEF upload_update_changeset
  <2>2. CASE Goto(w, Idle) /\ UNCHANGED <<now, id_seq, tables>>
    BY <1>3, <2>2
  <2>3. ASSUME NEW up \in Uploads, within_max_elements(UpdatersView(w), up.num),
               Write(w, [changesets[request[w].id] EXCEPT
                     !.cs = update_changeset(UpdatersView(w), up.num, up.bbox,
                                             request[w].began)])
        PROVE  LocksProtect'
    <3> DEFINE row == [changesets[request[w].id] EXCEPT
                           !.cs = update_changeset(@, up.num, up.bbox, request[w].began)]
               r == [stage |-> "ready", kind |-> request[w].kind, user |-> request[w].user,
                     id |-> request[w].id, began |-> request[w].began, row |-> row]
    <3>1. Write(w, row) /\ within_max_elements(changesets[request[w].id].cs, up.num)
      BY <2>1, <2>3, ViewCurrent
    <3>2. WriteCurrent(r)
      BY <2>1, <3>1 DEF WriteCurrent
    <3> HIDE DEF row
    <3>3. QED
      BY <2>1, <3>1, <3>2, LockedStep
  <2>4. QED
    BY <1>9, <2>2, <2>3 DEF upload_update_changeset
<1>10. QED
  BY <1>2, <1>3, <1>4, <1>5, <1>6, <1>7, <1>8, <1>9 DEF Serve, rollback

\* A commit writes one row: the others, and what other transactions hold, stay.
LEMMA CommitFacts ==
    ASSUME TypeOK, LocksProtect, NEW w \in Workers, commit(w)
    PROVE  LET r == request[w] IN
           /\ r.id \in ChangesetIds /\ r.row \in Row /\ r.began \in Nat /\ r.began <= now
           /\ Holds(r) \/ (Counts(r) /\ Inserts(r))
           /\ DOMAIN changesets' = DOMAIN changesets \cup {r.id}
           /\ changesets'[r.id] = r.row
           /\ \A id \in DOMAIN changesets : id # r.id => changesets'[id] = changesets[id]
           /\ request'[w] = Idle
           /\ \A v \in Workers \ {w} : request'[v] = request[v]
<1> DEFINE r == request[w]
<1>1. r \in Created \cup Changed
  BY RequestKinds DEF commit, TypeOK
<1>2. /\ r.id \in ChangesetIds /\ r.row \in Row /\ r.began \in Nat
      /\ Holds(r) \/ (Counts(r) /\ Inserts(r))
      /\ r # Idle
  <2>1. CASE r \in Created
    BY <2>1 DEF Created, Counts, Inserts, Idle
  <2>2. CASE r \in Changed
    <3>1. /\ r.stage = "ready" /\ r.kind # "create"
          /\ r.id \in ChangesetIds /\ r.row \in Row /\ r.began \in Nat
      BY <2>2 DEF Changed
    <3>2. r # Idle
      BY <3>1 DEF Idle
    <3>3. Holds(r)
      BY <3>1 DEF Holds
    <3>4. QED
      BY <3>1, <3>2, <3>3
  <2>3. QED
    BY <1>1, <2>1, <2>2
<1>3. r.began <= now
  BY <1>2 DEF LocksProtect, BeganBefore
<1>4. request'[w] = Idle /\ \A v \in Workers \ {w} : request'[v] = request[v]
  BY DEF commit, Goto, TypeOK
<1>5. /\ DOMAIN changesets' = DOMAIN changesets \cup {r.id}
      /\ changesets'[r.id] = r.row
      /\ \A id \in DOMAIN changesets : id # r.id => changesets'[id] = changesets[id]
  <2>1. changesets' = Put(changesets, r.id, r.row)
    BY DEF commit
  <2>2. /\ DOMAIN changesets \subseteq ChangesetIds
        /\ \A i \in DOMAIN changesets : changesets[i] \in Row
    BY DEF TypeOK
  <2> HIDE DEF r
  <2>3. /\ DOMAIN Put(changesets, r.id, r.row) = DOMAIN changesets \cup {r.id}
        /\ Put(changesets, r.id, r.row)[r.id] = r.row
        /\ \A i \in DOMAIN changesets :
               i # r.id => Put(changesets, r.id, r.row)[i] = changesets[i]
    BY DEF Put, Atomic!Put
  <2>4. QED
    BY <2>1, <2>3
<1>6. QED
  BY <1>2, <1>3, <1>4, <1>5

LEMMA LocksStepCommit ==
    ASSUME TypeOK, LocksProtect, NEW w \in Workers, commit(w)
    PROVE  LocksProtect'
<1> DEFINE r == request[w]
<1>1. /\ r.id \in ChangesetIds
      /\ Holds(r) \/ (Counts(r) /\ Inserts(r))
      /\ DOMAIN changesets' = DOMAIN changesets \cup {r.id}
      /\ \A id \in DOMAIN changesets : id # r.id => changesets'[id] = changesets[id]
      /\ request'[w] = Idle
      /\ \A v \in Workers \ {w} : request'[v] = request[v]
  BY CommitFacts
<1>2. ~Holds(request'[w]) /\ ~Inserts(request'[w]) /\ ~Counts(request'[w])
  BY <1>1 DEF Holds, Inserts, Counts, Idle
<1>3. now' = now /\ id_seq' = id_seq
  BY DEF commit
<1>4. ASSUME NEW v \in Workers \ {w}, Holds(request[v])
      PROVE  /\ request[v].id \in DOMAIN changesets /\ request[v].id \in DOMAIN changesets'
             /\ changesets'[request[v].id] = changesets[request[v].id]
  <2>1. request[v].id \in DOMAIN changesets
    BY <1>4 DEF LocksProtect, ReadsCurrent, ReadCurrent
  <2>2. request[v].id # r.id
    BY <1>1, <1>4, <2>1 DEF LocksProtect, LocksExclusive, InsertsFresh, InsertFresh
  <2>3. QED
    BY <1>1, <2>1, <2>2
<1>5. LocksExclusive'
  BY <1>1, <1>2 DEF LocksProtect, LocksExclusive
<1>6. ReadsCurrent'
  BY <1>1, <1>2, <1>4 DEF LocksProtect, ReadsCurrent, ReadCurrent
<1>7. WritesCurrent'
  <2> SUFFICES ASSUME NEW v \in Workers, Holds(request'[v]), request'[v].stage = "ready"
               PROVE  WriteCurrent(request[v])'
    BY DEF WritesCurrent
  <2>1. v # w /\ request'[v] = request[v]
    BY <1>1, <1>2
  <2>2. WriteCurrent(request[v])
    BY <2>1 DEF LocksProtect, WritesCurrent
  <2>3. changesets'[request[v].id] = changesets[request[v].id]
    BY <1>4, <2>1
  <2>4. QED
    BY <2>1, <2>2, <2>3 DEF WriteCurrent
<1>8. InsertsFresh'
  <2>1. r.id <= id_seq
    BY <1>1 DEF LocksProtect, ReadsCurrent, ReadCurrent, InsertsFresh, InsertFresh
  <2>2. \A id \in DOMAIN changesets' : id <= id_seq'
    BY <1>1, <1>3, <2>1 DEF LocksProtect, InsertsFresh
  <2>3. ASSUME NEW v \in Workers \ {w}, Inserts(request[v])
        PROVE  request[v].id \notin DOMAIN changesets'
    <3>1. request[v].id \notin DOMAIN changesets
      BY <2>3 DEF LocksProtect, InsertsFresh, InsertFresh
    <3>2. request[v].id # r.id
      BY <1>1, <2>3, <3>1 DEF LocksProtect, ReadsCurrent, ReadCurrent, InsertsFresh
    <3>3. QED
      BY <1>1, <3>1, <3>2
  <2>4. \A v \in Workers : Inserts(request'[v]) => InsertFresh(request[v])'
    BY <1>1, <1>2, <1>3, <2>3 DEF LocksProtect, InsertsFresh, InsertFresh
  <2>5. QED
    BY <1>1, <1>2, <2>2, <2>4 DEF LocksProtect, InsertsFresh
<1>9. CountsCurrent'
  <2>1. ASSUME NEW v \in Workers \ {w}, Counts(request[v])
        PROVE  changesets_count'[request[v].user] = changesets_count[request[v].user]
    <3>1. CASE r.kind # "create"
      BY <3>1 DEF commit
    <3>2. CASE r.kind = "create"
      <4>1. Counts(r) /\ request[v].user # r.user
        BY <1>1, <2>1, <3>2 DEF LocksProtect, CountsCurrent, Holds
      <4>2. request[v] \in Created /\ request[v].user \in Users
        BY <2>1, RequestKinds DEF Counts, TypeOK, Created
      <4>3. QED
        BY <3>2, <4>1, <4>2 DEF commit, TypeOK
    <3>3. QED
      BY <3>1, <3>2
  <2>2. QED
    BY <1>1, <1>2, <2>1 DEF LocksProtect, CountsCurrent
<1>10. BeganBefore'
  BY <1>1, <1>3 DEF LocksProtect, BeganBefore
<1>11. QED
  BY <1>5, <1>6, <1>7, <1>8, <1>9, <1>10 DEF LocksProtect

LEMMA LocksStep == ASSUME TypeOK, LocksProtect, [Next]_vars PROVE LocksProtect'
<1>1. CASE UNCHANGED vars
  BY <1>1 DEF vars, LocksProtect, LocksExclusive, ReadsCurrent, ReadCurrent, WritesCurrent,
              WriteCurrent, InsertsFresh, InsertFresh, CountsCurrent, BeganBefore
<1>2. CASE tick
  <2>1. UNCHANGED <<id_seq, request, tables>> /\ now' = now + 1 /\ now \in Nat
    BY <1>2 DEF tick, TypeOK
  <2>2. BeganBefore'
    <3> SUFFICES ASSUME NEW v \in Workers, request[v] # Idle PROVE request[v].began <= now'
      BY <2>1 DEF BeganBefore
    <3>1. request[v].began \in Nat
      BY DEF TypeOK, Requests, Begun, Inserted, Locked, Created, Changed
    <3>2. QED
      BY <2>1, <3>1 DEF LocksProtect, BeganBefore
  <2>3. LocksExclusive' /\ ReadsCurrent' /\ WritesCurrent' /\ InsertsFresh' /\ CountsCurrent'
    BY <2>1 DEF tables, LocksProtect, LocksExclusive, ReadsCurrent, ReadCurrent,
                WritesCurrent, WriteCurrent, InsertsFresh, InsertFresh, CountsCurrent
  <2>4. QED
    BY <2>2, <2>3 DEF LocksProtect
<1>3. QED
  BY <1>1, <1>2, LocksStepServe, LocksStepCommit DEF Next, Serve

LEMMA InitInvariant == Init => TypeOK /\ LocksProtect
<1> SUFFICES ASSUME Init PROVE TypeOK /\ LocksProtect
  OBVIOUS
<1>1. \A w \in Workers : request[w] = Idle
  BY DEF Init
<1>2. TypeOK
  BY DEF Init, TypeOK, Requests
<1>3. LocksProtect
  BY <1>1 DEF Init, Idle, LocksProtect, LocksExclusive, ReadsCurrent, WritesCurrent,
              InsertsFresh, CountsCurrent, BeganBefore, Holds, Inserts, Counts
<1>4. QED
  BY <1>2, <1>3

\* The variables have their types, and a transaction that holds a lock works on
\* the committed state of what it has locked.
THEOREM LocksProtectAlways == Spec => [](TypeOK /\ LocksProtect)
<1>1. TypeOK /\ LocksProtect /\ [Next]_vars => TypeOK' /\ LocksProtect'
  BY TypeStep, LocksStep DEF LocksProtect
<1>2. QED
  BY InitInvariant, <1>1, PTL DEF Spec

(***************************************************************************)
(* Limits                                                                  *)
(***************************************************************************)
RowWithinLimits(cs) ==
    /\ cs.closed_at <= cs.created_at + changeset_timeout_open_max
    /\ cs.num_changes <= changeset_max_elements

LEMMA UpdateWithinLimits ==
    ASSUME NEW cs \in Changeset, NEW num \in Nat, NEW b \in bbox_t, NEW t \in Nat,
           RowWithinLimits(cs), ~is_closed(cs, t), within_max_elements(cs, num)
    PROVE  RowWithinLimits(update_changeset(cs, num, b, t))
<1> DEFINE x == update_changeset(cs, num, b, t)
<1>1. /\ x.created_at = cs.created_at
      /\ x.num_changes = cs.num_changes + num
      /\ x.closed_at = update_closed_at(cs, t)
  BY DEF update_changeset, Changeset
<1>2. update_closed_at(cs, t) <= cs.created_at + changeset_timeout_open_max
  BY TimeoutAssumption DEF update_closed_at, is_closed, Changeset
<1>3. QED
  BY <1>1, <1>2 DEF RowWithinLimits, within_max_elements

LEMMA LimitsStep ==
    ASSUME TypeOK, LocksProtect, WithinLimits, [Next]_vars
    PROVE  WithinLimits'
<1>1. CASE changesets' = changesets
  BY <1>1 DEF WithinLimits
<1>2. ASSUME NEW w \in Workers, commit(w) PROVE WithinLimits'
  <2> DEFINE r == request[w]
             old == changesets[r.id]
  <2>1. /\ r.row \in Row /\ r.began \in Nat
        /\ Holds(r) \/ (Counts(r) /\ Inserts(r))
        /\ DOMAIN changesets' = DOMAIN changesets \cup {r.id}
        /\ changesets'[r.id] = r.row
        /\ \A id \in DOMAIN changesets : id # r.id => changesets'[id] = changesets[id]
    BY <1>2, CommitFacts
  <2>2. CASE Inserts(r)
    <3>1. r.row.cs = changeset_insert_cs(r.began)
      BY <2>2 DEF LocksProtect, InsertsFresh, InsertFresh
    <3>2. RowWithinLimits(changeset_insert_cs(r.began))
      BY <2>1, TimeoutAssumption, MaxElementsAssumption
         DEF RowWithinLimits, changeset_insert_cs
    <3>3. QED
      BY <2>1, <3>1, <3>2 DEF WithinLimits, RowWithinLimits
  <2>3. CASE Holds(r)
    <3>1. /\ r.id \in DOMAIN changesets
          /\ ~is_closed(old.cs, r.began)
      BY <2>3 DEF LocksProtect, ReadsCurrent, ReadCurrent
    <3>2. RowWithinLimits(old.cs) /\ old \in Row /\ old.cs \in Changeset
      BY <3>1, RowType DEF WithinLimits, RowWithinLimits, TypeOK
    <3>3. WriteCurrent(r)
      BY <1>2, <2>3 DEF commit, LocksProtect, WritesCurrent
    <3>4. ASSUME NEW tags \in TagSets,
                 r.row = [old EXCEPT !.tags = tags,
                              !.cs = update_changeset(@, 0, undefined_bbox, r.began)]
          PROVE  RowWithinLimits(r.row.cs)
      <4>1. r.row.cs = update_changeset(old.cs, 0, undefined_bbox, r.began)
        BY <3>2, <3>4, RowType
      <4>2. within_max_elements(old.cs, 0)
        BY <3>2 DEF RowWithinLimits, within_max_elements, Changeset
      <4>3. QED
        BY <2>1, <3>1, <3>2, <4>1, <4>2, UpdateWithinLimits, UndefinedType
    <3>5. ASSUME r.row = [old EXCEPT !.cs = close_changeset(@, r.began)]
          PROVE  RowWithinLimits(r.row.cs)
      <4>1. r.row.cs = close_changeset(old.cs, r.began)
        BY <3>2, <3>5, RowType
      <4>2. close_changeset(old.cs, r.began).closed_at <= old.cs.closed_at
        BY <2>1, <3>1, <3>2 DEF close_changeset, is_closed, Changeset
      <4>3. QED
        BY <2>1, <3>2, <4>1, <4>2, TimeoutAssumption, MaxElementsAssumption
           DEF RowWithinLimits, close_changeset, Changeset
    <3>6. ASSUME NEW up \in Uploads, within_max_elements(old.cs, up.num),
                 r.row = [old EXCEPT !.cs = update_changeset(@, up.num, up.bbox, r.began)]
          PROVE  RowWithinLimits(r.row.cs)
      <4>1. r.row.cs = update_changeset(old.cs, up.num, up.bbox, r.began)
        BY <3>2, <3>6, RowType
      <4>2. up.num \in Nat /\ up.bbox \in bbox_t
        BY UploadsAssumption
      <4>3. QED
        BY <2>1, <3>1, <3>2, <3>6, <4>1, <4>2, UpdateWithinLimits
    <3>7. RowWithinLimits(r.row.cs)
      BY <3>3, <3>4, <3>5, <3>6 DEF WriteCurrent
    <3>8. QED
      BY <2>1, <3>7 DEF WithinLimits, RowWithinLimits
  <2>4. QED
    BY <2>1, <2>2, <2>3
<1>3. QED
  BY <1>1, <1>2 DEF Next, Serve, vars, tick, begin, rollback, changeset_insert,
     api_create_changeset, lock_current_changeset, api_update_changeset,
     api_close_changeset, upload_update_changeset, Write, tables

\* A changeset never stays open longer than the maximum, and never holds more
\* changes than the maximum, whatever calls overlap.
THEOREM WithinLimitsAlways == Spec => []WithinLimits
<1>1. Init => WithinLimits
  BY DEF Init, WithinLimits
<1>2. TypeOK /\ LocksProtect /\ WithinLimits /\ [Next]_vars => WithinLimits'
  BY LimitsStep
<1>3. QED
  BY LocksProtectAlways, <1>1, <1>2, PTL DEF Spec

(***************************************************************************)
(* Refinement                                                              *)
(***************************************************************************)
\* The operators of ChangesetUpdater as the abstract specification sees them.
LEMMA SameOperators ==
    /\ undefined_bbox = Atomic!undefined_bbox
    /\ \A t : changeset_insert_cs(t) = Atomic!changeset_insert_cs(t)
    /\ \A cs, t : is_closed(cs, t) <=> Atomic!is_closed(cs, t)
    /\ \A cs, t : close_changeset(cs, t) = Atomic!close_changeset(cs, t)
    /\ \A cs, n : within_max_elements(cs, n) <=> Atomic!within_max_elements(cs, n)
    /\ \A cs, n, b, t : update_changeset(cs, n, b, t) = Atomic!update_changeset(cs, n, b, t)
    /\ \A f, i, r : Put(f, i, r) = Atomic!Put(f, i, r)
BY DEF undefined_bbox, Atomic!undefined_bbox, changeset_insert_cs, Atomic!changeset_insert_cs,
       is_closed, Atomic!is_closed, close_changeset, Atomic!close_changeset,
       within_max_elements, Atomic!within_max_elements, update_changeset,
       Atomic!update_changeset, update_closed_at, Atomic!update_closed_at,
       expand, Atomic!expand, Put

LEMMA CommitIsAtomic ==
    ASSUME TypeOK, LocksProtect, NEW w \in Workers, commit(w)
    PROVE  Atomic!Next
<1> DEFINE r == request[w]
           old == changesets[r.id]
<1>1. /\ r.id \in ChangesetIds /\ r.row \in Row /\ r.began \in Nat /\ r.began <= now
      /\ Holds(r) \/ (Counts(r) /\ Inserts(r))
  BY CommitFacts
<1>2. r.began \in 0..now /\ now' = now /\ changesets' = Atomic!Put(changesets, r.id, r.row)
  BY <1>1, SameOperators DEF commit, TypeOK
<1>3. CASE Counts(r) /\ Inserts(r)
  <2>1. r \in Created /\ r.kind = "create"
    BY <1>3, RequestKinds DEF Counts, TypeOK
  <2>2. /\ r.user \in Users /\ r.row.tags \in TagSets
        /\ r.row \in [user_id: Users, tags: TagSets, cs: Changeset]
    BY <2>1, RowType DEF Created
  <2>3. /\ r.id \notin DOMAIN changesets
        /\ r.row.user_id = r.user
        /\ r.row.cs = changeset_insert_cs(r.began)
    BY <1>3 DEF LocksProtect, InsertsFresh, InsertFresh
  <2>4. r.row = [user_id |-> r.user, tags |-> r.row.tags,
                 cs |-> Atomic!changeset_insert_cs(r.began)]
    BY <2>2, <2>3, SameOperators
  <2>5. changesets_count' = [changesets_count EXCEPT ![r.user] = @ + 1]
    BY <1>3, <2>1 DEF commit, LocksProtect, CountsCurrent
  <2>6. Atomic!Create(r.user, r.id, r.row.tags, r.began)
    BY <1>2, <2>3, <2>4, <2>5 DEF Atomic!Create
  <2>7. QED
    BY <1>1, <1>2, <2>2, <2>6 DEF Atomic!Next
<1>4. CASE Holds(r)
  <2>1. /\ r.id \in DOMAIN changesets /\ ~Atomic!is_closed(old.cs, r.began)
        /\ old \in Row
    BY <1>4, SameOperators DEF LocksProtect, ReadsCurrent, ReadCurrent, TypeOK
  <2>2. changesets_count' = changesets_count
    BY <1>4 DEF commit, Holds
  <2>3. WriteCurrent(r)
    BY <1>4 DEF commit, LocksProtect, WritesCurrent
  <2>4. Atomic!Change(r.id, r.row, r.began)
    BY <1>2, <2>1, <2>2 DEF Atomic!Change
  <2>5. ASSUME NEW tags \in TagSets,
               r.row = [old EXCEPT !.tags = tags,
                            !.cs = update_changeset(@, 0, undefined_bbox, r.began)]
        PROVE  Atomic!Next
    <3>1. r.row = [old EXCEPT !.tags = tags,
                       !.cs = Atomic!update_changeset(@, 0, Atomic!undefined_bbox, r.began)]
      BY <2>5, SameOperators
    <3>2. Atomic!Update(r.id, tags, r.began)
      BY <2>4, <3>1 DEF Atomic!Update
    <3>3. QED
      BY <1>1, <1>2, <2>1, <3>2 DEF Atomic!Next
  <2>6. ASSUME r.row = [old EXCEPT !.cs = close_changeset(@, r.began)]
        PROVE  Atomic!Next
    <3>1. r.row = [old EXCEPT !.cs = Atomic!close_changeset(@, r.began)]
      BY <2>6, SameOperators
    <3>2. Atomic!Close(r.id, r.began)
      BY <2>4, <3>1 DEF Atomic!Close
    <3>3. QED
      BY <1>1, <1>2, <2>1, <3>2 DEF Atomic!Next
  <2>7. ASSUME NEW up \in Uploads, within_max_elements(old.cs, up.num),
               r.row = [old EXCEPT !.cs = update_changeset(@, up.num, up.bbox, r.began)]
        PROVE  Atomic!Next
    <3>1. /\ Atomic!within_max_elements(old.cs, up.num)
          /\ r.row = [old EXCEPT !.cs = Atomic!update_changeset(@, up.num, up.bbox, r.began)]
      BY <2>7, SameOperators
    <3>2. Atomic!Upload(r.id, up, r.began)
      BY <2>4, <3>1 DEF Atomic!Upload
    <3>3. QED
      BY <1>1, <1>2, <2>1, <3>2 DEF Atomic!Next
  <2>8. QED
    BY <2>3, <2>5, <2>6, <2>7 DEF WriteCurrent
<1>5. QED
  BY <1>1, <1>3, <1>4

\* A step that is no commit and no tick leaves the committed tables alone.
LEMMA OtherSteps ==
    ASSUME [Next]_vars
    PROVE  \/ \E w \in Workers : commit(w)
           \/ tick
           \/ UNCHANGED <<now, changesets, changesets_count>>
BY DEF Next, Serve, vars, begin, rollback, changeset_insert, api_create_changeset,
       lock_current_changeset, api_update_changeset, api_close_changeset,
       upload_update_changeset, Write, tables

\* The calls, made of several statements of overlapping transactions, implement
\* the specification in which each call that succeeds is one atomic step.
THEOREM Atomicity == Spec => AtomicCalls
<1>1. Init => Atomic!Init
  BY DEF Init, Atomic!Init
<1>2. TypeOK /\ LocksProtect /\ [Next]_vars => [Atomic!Next]_(Atomic!vars)
  <2> SUFFICES ASSUME TypeOK, LocksProtect, [Next]_vars PROVE [Atomic!Next]_(Atomic!vars)
    OBVIOUS
  <2>1. ASSUME NEW w \in Workers, commit(w) PROVE Atomic!Next
    BY <2>1, CommitIsAtomic
  <2>2. CASE tick
    BY <2>2 DEF tick, Atomic!Next, Atomic!Tick, tables
  <2>3. CASE UNCHANGED <<now, changesets, changesets_count>>
    BY <2>3 DEF Atomic!vars
  <2>4. QED
    BY <2>1, <2>2, <2>3, OtherSteps
<1>3. QED
  BY LocksProtectAlways, <1>1, <1>2, PTL DEF Spec, AtomicCalls, Atomic!Spec

\* A changeset whose closed_at has passed, and for which no request that began
\* before is under way, does not change any more.
THEOREM ClosedIsFinal == Spec => ClosedForGood
<1>1. TypeOK /\ LocksProtect /\ [Next]_vars =>
          [\A id \in DOMAIN changesets :
              /\ changesets[id].cs.closed_at < now
              /\ \A w \in Workers :
                     request[w] = Idle \/ request[w].began > changesets[id].cs.closed_at
              => changesets'[id] = changesets[id]]_vars
  <2> SUFFICES ASSUME TypeOK, LocksProtect, [Next]_vars,
                      NEW id \in DOMAIN changesets,
                      changesets[id].cs.closed_at < now,
                      \A w \in Workers :
                          request[w] = Idle \/ request[w].began > changesets[id].cs.closed_at
               PROVE  changesets'[id] = changesets[id]
    OBVIOUS
  <2>1. ASSUME NEW w \in Workers, commit(w) PROVE changesets'[id] = changesets[id]
    <3>1. /\ Holds(request[w]) \/ (Counts(request[w]) /\ Inserts(request[w]))
          /\ request[w].began \in Nat
          /\ id # request[w].id => changesets'[id] = changesets[id]
      BY <2>1, CommitFacts
    <3>2. CASE Inserts(request[w])
      BY <3>1, <3>2 DEF LocksProtect, InsertsFresh, InsertFresh
    <3>3. CASE Holds(request[w]) /\ id = request[w].id
      <4>1. ~is_closed(changesets[id].cs, request[w].began) /\ request[w] # Idle
        BY <3>3 DEF LocksProtect, ReadsCurrent, ReadCurrent, Holds, Idle
      <4>2. changesets[id].cs.closed_at \in Int
        BY RowType DEF TypeOK, Changeset
      <4>3. QED
        BY <3>1, <4>1, <4>2 DEF is_closed
    <3>4. QED
      BY <3>1, <3>2, <3>3
  <2>2. CASE changesets' = changesets
    BY <2>2
  <2>3. QED
    BY <2>1, <2>2, OtherSteps DEF tick, tables
<1>2. QED
  BY LocksProtectAlways, <1>1, PTL DEF Spec, ClosedForGood

(***************************************************************************)
(* Counts and subscribers                                                  *)
(***************************************************************************)
Owned(u) == {id \in DOMAIN changesets : changesets[id].user_id = u}

LEMMA OwnedFinite == ASSUME TypeOK, NEW u PROVE IsFiniteSet(Owned(u))
<1>1. Owned(u) \subseteq ChangesetIds
  BY DEF Owned, TypeOK
<1>2. QED
  BY <1>1, IdsAssumption, FS_Subset

LEMMA CountsStep ==
    ASSUME TypeOK, LocksProtect, CountsExact, [Next]_vars
    PROVE  CountsExact'
<1>1. ASSUME NEW w \in Workers, commit(w) PROVE CountsExact'
  <2> DEFINE r == request[w]
             old == changesets[r.id]
  <2>1. /\ r.id \in ChangesetIds /\ r.row \in Row
        /\ Holds(r) \/ (Counts(r) /\ Inserts(r))
        /\ DOMAIN changesets' = DOMAIN changesets \cup {r.id}
        /\ changesets'[r.id] = r.row
        /\ \A id \in DOMAIN changesets : id # r.id => changesets'[id] = changesets[id]
    BY <1>1, CommitFacts
  <2>2. CASE Counts(r) /\ Inserts(r)
    <3>1. /\ r.id \notin DOMAIN changesets /\ r.row.user_id = r.user
          /\ r.count = changesets_count[r.user] + 1 /\ r.kind = "create"
      BY <2>2 DEF LocksProtect, InsertsFresh, InsertFresh, CountsCurrent, Counts
    <3>2. /\ changesets_count' = [changesets_count EXCEPT ![r.user] = r.count]
          /\ subscribers' = subscribers \cup {<<r.user, r.id>>}
      BY <1>1, <3>1 DEF commit, changeset_insert_subscriber
    <3>3. \A id \in DOMAIN changesets : changesets'[id] = changesets[id]
      BY <2>1, <3>1
    <3>4. ASSUME NEW u \in Users PROVE changesets_count'[u] = Cardinality(Owned(u)')
      <4>1. changesets_count[u] = Cardinality(Owned(u)) /\ IsFiniteSet(Owned(u))
        BY OwnedFinite DEF CountsExact, Owned
      <4>2. CASE u = r.user
        <5>1. Owned(u)' = Owned(u) \cup {r.id} /\ r.id \notin Owned(u)
          BY <2>1, <3>1, <3>3, <4>2 DEF Owned
        <5>2. Cardinality(Owned(u) \cup {r.id}) = Cardinality(Owned(u)) + 1
          BY <4>1, <5>1, FS_AddElement
        <5>3. changesets_count'[u] = changesets_count[u] + 1
          BY <3>1, <3>2, <4>2 DEF TypeOK
        <5>4. QED
          BY <4>1, <5>1, <5>2, <5>3
      <4>3. CASE u # r.user
        <5>1. Owned(u)' = Owned(u)
          BY <2>1, <3>1, <3>3, <4>3 DEF Owned
        <5>2. changesets_count'[u] = changesets_count[u]
          BY <3>2, <4>3 DEF TypeOK
        <5>3. QED
          BY <4>1, <5>1, <5>2
      <4>4. QED
        BY <4>2, <4>3
    <3>5. subscribers' = {<<changesets'[id].user_id, id>> : id \in DOMAIN changesets'}
      BY <2>1, <3>1, <3>2, <3>3 DEF CountsExact
    <3>6. QED
      BY <3>4, <3>5 DEF CountsExact, Owned
  <2>3. CASE Holds(r)
    <3>1. r.id \in DOMAIN changesets /\ old \in [user_id: Users, tags: TagSets, cs: Changeset]
      BY <2>3, RowType DEF LocksProtect, ReadsCurrent, ReadCurrent, TypeOK
    <3>2. WriteCurrent(r)
      BY <1>1, <2>3 DEF commit, LocksProtect, WritesCurrent
    <3>3. r.row.user_id = old.user_id
      BY <3>1, <3>2 DEF WriteCurrent
    <3>4. changesets_count' = changesets_count /\ subscribers' = subscribers
      BY <1>1, <2>3 DEF commit, Holds
    <3>5. /\ DOMAIN changesets' = DOMAIN changesets
          /\ \A id \in DOMAIN changesets : changesets'[id].user_id = changesets[id].user_id
      BY <2>1, <3>1, <3>3
    <3>6. \A u : Owned(u)' = Owned(u)
      BY <3>5 DEF Owned
    <3>7. {<<changesets'[id].user_id, id>> : id \in DOMAIN changesets'} =
              {<<changesets[id].user_id, id>> : id \in DOMAIN changesets}
      BY <3>5
    <3>8. QED
      BY <3>4, <3>6, <3>7 DEF CountsExact, Owned
  <2>4. QED
    BY <2>1, <2>2, <2>3
<1>2. CASE UNCHANGED <<changesets, changesets_count, subscribers>>
  BY <1>2 DEF CountsExact
<1>3. QED
  BY <1>1, <1>2 DEF Next, Serve, vars, tick, begin, rollback, changeset_insert,
     api_create_changeset, lock_current_changeset, api_update_changeset, api_close_changeset,
     upload_update_changeset, Write, tables

\* users.changesets_count is the number of changesets of the user, and every
\* creator is subscribed to their changesets, for any number of workers and
\* users, however creates overlap, fail and are rolled back.
THEOREM CountsAlwaysExact == Spec => []CountsExact
<1>1. Init => CountsExact
  <2>1. ASSUME Init PROVE CountsExact
    <3>1. DOMAIN changesets = {}
      BY <2>1 DEF Init
    <3>2. \A u \in Users : {id \in DOMAIN changesets : changesets[id].user_id = u} = {}
      BY <3>1
    <3>3. Cardinality({}) = 0
      BY FS_EmptySet
    <3>4. subscribers = {<<changesets[id].user_id, id>> : id \in DOMAIN changesets}
      BY <2>1, <3>1 DEF Init
    <3>5. QED
      BY <2>1, <3>2, <3>3, <3>4 DEF Init, CountsExact
  <2>2. QED
    BY <2>1
<1>2. TypeOK /\ LocksProtect /\ CountsExact /\ [Next]_vars => CountsExact'
  BY CountsStep
<1>3. QED
  BY LocksProtectAlways, <1>1, <1>2, PTL DEF Spec
=============================================================================
