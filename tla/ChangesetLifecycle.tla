------------------------- MODULE ChangesetLifecycle -------------------------
(***************************************************************************)
(* The calls that write changesets (create, update, close, upload), served *)
(* by several workers at once, each in a READ COMMITTED transaction of its *)
(* own.  SQL's now() is the time at which the transaction began, however   *)
(* long ago that is when the row is locked.                                *)
(*                                                                         *)
(* What an upload does to the elements is the subject of ChangesetUpload;  *)
(* here it is the number of its changes and their bounding box.            *)
(***************************************************************************)
EXTENDS ChangesetUpdater, FiniteSets

CONSTANTS Users, ChangesetIds, TagSets, Uploads,  \* see Changesets
          MaxTime,  \* bound on the clock
          Workers   \* processes that serve requests

VARIABLES
    now,                \* the clock
    changesets,         \* committed rows of changesets and changeset_tags
    changesets_count,   \* committed users.changesets_count
    subscribers,        \* committed changesets_subscribers
    id_seq,             \* the sequence of changesets.id
    request,            \* what each worker is doing
    closed              \* changesets that a close call has closed

\* The abstract specification, over the variables of the same name.
Atomic == INSTANCE Changesets

vars == <<now, changesets, changesets_count, subscribers, id_seq, request, closed>>

ASSUME IdsAssumption == ChangesetIds \subseteq Nat /\ IsFiniteSet(ChangesetIds)
ASSUME UploadsAssumption == Uploads \subseteq [num: Nat, bbox: bbox_t]
ASSUME TimeAssumption == MaxTime \in Nat
ASSUME EmptyTagsAssumption == {} \in TagSets

Row == Atomic!Row
Put(table, id, row) == Atomic!Put(table, id, row)

Kinds == {"create", "update", "close", "upload"}
Idle == [stage |-> "idle"]

\* began: now() of the transaction; cs_num_changes and cs_bbox: what lock_cs
\* has read; row: the row the transaction has written; count: its value of
\* changesets_count.
Begun == [stage: {"begun"}, kind: Kinds, user: Users, id: ChangesetIds, began: Nat]
Inserted ==
    [stage: {"inserted"}, kind: {"create"}, user: Users, id: ChangesetIds, began: Nat, row: Row]
Locked ==
    [stage: {"locked"}, kind: Kinds \ {"create"}, user: Users, id: ChangesetIds, began: Nat,
     cs_num_changes: Nat, cs_bbox: bbox_t]
Created ==
    [stage: {"ready"}, kind: {"create"}, user: Users, id: ChangesetIds, began: Nat,
     row: Row, count: Nat]
Changed ==
    [stage: {"ready"}, kind: Kinds \ {"create"}, user: Users, id: ChangesetIds, began: Nat,
     row: Row]
Requests == {Idle} \cup Begun \cup Inserted \cup Locked \cup Created \cup Changed

Init ==
    /\ now = 0
    /\ changesets = [i \in {} |-> 0]
    /\ changesets_count = [u \in Users |-> 0]
    /\ subscribers = {}
    /\ id_seq = 0
    /\ request = [w \in Workers |-> Idle]
    /\ closed = {}

(***************************************************************************)
(* Row locks                                                               *)
(***************************************************************************)
\* The transaction has the row of its changeset locked FOR UPDATE; it has
\* inserted a row; it has updated, and so locked, the row of its user.
Holds(r) == r.stage \in {"locked", "ready"} /\ r.kind # "create"
Inserts(r) == r.stage \in {"inserted", "ready"} /\ r.kind = "create"
Counts(r) == r.stage = "ready" /\ r.kind = "create"

\* Mutants: the SELECT of lock_cs takes no lock; changesets_count is read by a
\* SELECT before it is written; inserting the row locks the user's row FOR
\* SHARE first.
RowLocked_mutant(w, id) == FALSE
UserRowLocked_mutant(w, u) == FALSE
UserRowLocked_shared(w, u) ==
    \E v \in Workers \ {w} : Inserts(request[v]) /\ request[v].user = u

\* Another transaction has the lock.
RowLocked(w, id) == \E v \in Workers \ {w} : Holds(request[v]) /\ request[v].id = id
UserRowLocked(w, u) == \E v \in Workers \ {w} : Counts(request[v]) /\ request[v].user = u

Goto(w, r) == request' = [request EXCEPT ![w] = r]
tables == <<changesets, changesets_count, subscribers, closed>>

\* The payload has been read; the transaction begins.
begin(w) ==
    /\ request[w] = Idle
    /\ \E kind \in Kinds, u \in Users, id \in ChangesetIds :
           Goto(w, [stage |-> "begun", kind |-> kind, user |-> u, id |-> id, began |-> now])
    /\ UNCHANGED <<now, id_seq, tables>>

\* An exception, a failed statement, a lost connection, the death of the
\* worker: the transaction is rolled back and its locks are released.
rollback(w) ==
    /\ request[w] # Idle
    /\ Goto(w, Idle)
    /\ UNCHANGED <<now, id_seq, tables>>

(***************************************************************************)
(* api_create_changeset                                                    *)
(***************************************************************************)
\* nextval() of the sequence is not undone by a rollback.  The sequence of the
\* model is finite: a create that finds it used up is given up.
changeset_insert(w) ==
    /\ request[w].stage = "begun" /\ request[w].kind = "create"
    /\ \/ /\ id_seq + 1 \in ChangesetIds
          /\ id_seq' = id_seq + 1
          /\ Goto(w, [stage |-> "inserted", kind |-> "create", user |-> request[w].user,
                      id |-> id_seq + 1, began |-> request[w].began,
                      row |-> [user_id |-> request[w].user, tags |-> {},
                               cs |-> changeset_insert_cs(request[w].began)]])
       \/ /\ id_seq + 1 \notin ChangesetIds
          /\ Goto(w, Idle)
          /\ UNCHANGED id_seq
    /\ UNCHANGED <<now, tables>>

\* changeset_update_users_cs_count waits for the lock on the user's row; the
\* tags and the subscriber follow.
api_create_changeset(w) ==
    /\ request[w].stage = "inserted"
    /\ ~UserRowLocked(w, request[w].user)
    /\ \E tags \in TagSets :
           Goto(w, [stage |-> "ready", kind |-> "create", user |-> request[w].user,
                    id |-> request[w].id, began |-> request[w].began,
                    row |-> [request[w].row EXCEPT !.tags = tags],
                    count |-> changesets_count[request[w].user] + 1])
    /\ UNCHANGED <<now, id_seq, tables>>

(***************************************************************************)
(* api_update_changeset, api_close_changeset and the upload                *)
(***************************************************************************)
\* Mutant: is_closed is not checked.
Admitted_mutant(w) ==
    LET r == request[w] IN
    /\ r.id \in DOMAIN changesets
    /\ changesets[r.id].user_id = r.user
    /\ ~RowLocked(w, r.id)
    /\ r.kind = "upload" => ~max_elements_reached(changesets[r.id].cs)

\* lock_current_changeset: check_user_owns_changeset, lock_cs (NOWAIT) and
\* what is checked of the locked row.
Admitted(w) ==
    LET r == request[w] IN
    /\ r.id \in DOMAIN changesets
    /\ changesets[r.id].user_id = r.user
    /\ ~RowLocked(w, r.id)
    /\ ~is_closed(changesets[r.id].cs, r.began)
    /\ r.kind = "upload" => ~max_elements_reached(changesets[r.id].cs)

lock_current_changeset(w) ==
    LET r == request[w] IN
    /\ r.stage = "begun" /\ r.kind # "create"
    /\ \/ /\ ~Admitted(w)
          /\ Goto(w, Idle)
       \/ /\ Admitted(w)
          /\ Goto(w, [stage |-> "locked", kind |-> r.kind, user |-> r.user, id |-> r.id,
                      began |-> r.began, cs_num_changes |-> changesets[r.id].cs.num_changes,
                      cs_bbox |-> changesets[r.id].cs.bbox])
    /\ UNCHANGED <<now, id_seq, tables>>

\* The transaction has written its row.
Write(w, row) ==
    /\ Goto(w, [stage |-> "ready", kind |-> request[w].kind, user |-> request[w].user,
                id |-> request[w].id, began |-> request[w].began, row |-> row])
    /\ UNCHANGED <<now, id_seq, tables>>

\* The row as the UPDATE finds it, with the members of the changeset updater
\* in the place of the columns it overwrites.
UpdatersView(w) ==
    [changesets[request[w].id].cs EXCEPT !.num_changes = request[w].cs_num_changes,
                                         !.bbox = request[w].cs_bbox]

api_update_changeset(w) ==
    /\ request[w].stage = "locked" /\ request[w].kind = "update"
    /\ \E tags \in TagSets :
           Write(w, [changesets[request[w].id] EXCEPT
               !.tags = tags,
               !.cs = update_changeset(UpdatersView(w), 0, undefined_bbox, request[w].began)])

api_close_changeset(w) ==
    /\ request[w].stage = "locked" /\ request[w].kind = "close"
    /\ Write(w, [changesets[request[w].id] EXCEPT
                     !.cs = close_changeset(@, request[w].began)])

\* changeset_upload_responder, once the elements are processed: an upload
\* that goes over the limit is refused.
upload_update_changeset(w) ==
    /\ request[w].stage = "locked" /\ request[w].kind = "upload"
    /\ \E up \in Uploads :
           \/ /\ within_max_elements(UpdatersView(w), up.num)
              /\ Write(w, [changesets[request[w].id] EXCEPT
                     !.cs = update_changeset(UpdatersView(w), up.num, up.bbox,
                                             request[w].began)])
           \/ /\ ~within_max_elements(UpdatersView(w), up.num)
              /\ Goto(w, Idle)
              /\ UNCHANGED <<now, id_seq, tables>>

changeset_insert_subscriber(table, user, id) == table \cup {<<user, id>>}

\* upd.commit()
commit(w) ==
    LET r == request[w] IN
    /\ r.stage = "ready"
    /\ changesets' = Put(changesets, r.id, r.row)
    /\ IF r.kind = "create"
       THEN /\ changesets_count' = [changesets_count EXCEPT ![r.user] = r.count]
            /\ subscribers' = changeset_insert_subscriber(subscribers, r.user, r.id)
       ELSE UNCHANGED <<changesets_count, subscribers>>
    /\ closed' = IF r.kind = "close" THEN closed \cup {r.id} ELSE closed
    /\ Goto(w, Idle)
    /\ UNCHANGED <<now, id_seq>>

tick ==
    /\ now < MaxTime
    /\ now' = now + 1
    /\ UNCHANGED <<id_seq, request, tables>>

\* What a worker does with the request it has.
Serve(w) ==
    \/ changeset_insert(w)
    \/ api_create_changeset(w)
    \/ lock_current_changeset(w)
    \/ api_update_changeset(w)
    \/ api_close_changeset(w)
    \/ upload_update_changeset(w)
    \/ commit(w)

Next ==
    \/ tick
    \/ \E w \in Workers : begin(w) \/ Serve(w) \/ rollback(w)

Spec == Init /\ [][Next]_vars

\* A worker gets on with its request; PostgreSQL grants the row lock that
\* changeset_update_users_cs_count waits for once its holder has ended.
FairSpec == Spec /\ \A w \in Workers : WF_vars(Serve(w))

(***************************************************************************)
(* Properties                                                              *)
(***************************************************************************)
TypeOK ==
    /\ now \in Nat
    /\ DOMAIN changesets \subseteq ChangesetIds
    /\ \A id \in DOMAIN changesets : changesets[id] \in Row
    /\ changesets_count \in [Users -> Nat]
    /\ subscribers \subseteq Users \X ChangesetIds
    /\ id_seq \in Nat
    /\ request \in [Workers -> Requests]
    /\ closed \subseteq ChangesetIds

(***************************************************************************)
(* The invariant the proofs rest on                                        *)
(***************************************************************************)
LocksExclusive ==
    \A v, w \in Workers :
        Holds(request[v]) /\ Holds(request[w]) /\ request[v].id = request[w].id => v = w

\* What lock_cs has read, and the check it has passed, are not out of date.
ReadCurrent(r) ==
    /\ r.id \in DOMAIN changesets
    /\ ~is_closed(changesets[r.id].cs, r.began)
    /\ r.stage = "locked" => /\ r.cs_num_changes = changesets[r.id].cs.num_changes
                             /\ r.cs_bbox = changesets[r.id].cs.bbox
ReadsCurrent == \A w \in Workers : Holds(request[w]) => ReadCurrent(request[w])

\* The row a transaction is about to commit is the effect of its call on the
\* row that is committed now.
WriteCurrent(r) ==
    LET old == changesets[r.id] IN
    \/ /\ r.kind = "update"
       /\ \E tags \in TagSets :
              r.row = [old EXCEPT !.tags = tags,
                                  !.cs = update_changeset(@, 0, undefined_bbox, r.began)]
    \/ /\ r.kind = "close"
       /\ r.row = [old EXCEPT !.cs = close_changeset(@, r.began)]
    \/ /\ r.kind = "upload"
       /\ \E up \in Uploads :
              /\ within_max_elements(old.cs, up.num)
              /\ r.row = [old EXCEPT !.cs = update_changeset(@, up.num, up.bbox, r.began)]
WritesCurrent ==
    \A w \in Workers :
        Holds(request[w]) /\ request[w].stage = "ready" => WriteCurrent(request[w])

\* Inserted rows have ids of their own, never used before.
InsertFresh(r) ==
    /\ r.id <= id_seq
    /\ r.id \notin DOMAIN changesets
    /\ r.row.user_id = r.user
    /\ r.row.cs = changeset_insert_cs(r.began)
InsertsFresh ==
    /\ \A id \in DOMAIN changesets : id <= id_seq
    /\ \A w \in Workers : Inserts(request[w]) => InsertFresh(request[w])
    /\ \A v, w \in Workers :
           Inserts(request[v]) /\ Inserts(request[w]) /\ request[v].id = request[w].id => v = w

CountsCurrent ==
    /\ \A w \in Workers :
           Counts(request[w]) => request[w].count = changesets_count[request[w].user] + 1
    /\ \A v, w \in Workers :
           Counts(request[v]) /\ Counts(request[w]) /\ request[v].user = request[w].user => v = w

BeganBefore == \A w \in Workers : request[w] # Idle => request[w].began <= now

\* A transaction that holds a lock works on the committed state of what it has
\* locked: changesets rows by SELECT ... FOR UPDATE NOWAIT, users rows by
\* UPDATE, new rows by the sequence.
LocksProtect ==
    /\ LocksExclusive
    /\ ReadsCurrent
    /\ WritesCurrent
    /\ InsertsFresh
    /\ CountsCurrent
    /\ BeganBefore

\* However updates and uploads extend it, a changeset is never open longer
\* than --changeset-timeout-open after its creation, and never holds more
\* than --max-changeset-elements changes.
WithinLimits ==
    \A id \in DOMAIN changesets :
        /\ changesets[id].cs.closed_at <= changesets[id].cs.created_at + changeset_timeout_open_max
        /\ changesets[id].cs.num_changes <= changeset_max_elements

\* users.changesets_count is the number of changesets of the user, and the
\* creator is subscribed to each of them, however creates overlap, fail and
\* are rolled back.
CountsExact ==
    /\ \A u \in Users :
           changesets_count[u] =
               Cardinality({id \in DOMAIN changesets : changesets[id].user_id = u})
    /\ subscribers = {<<changesets[id].user_id, id>> : id \in DOMAIN changesets}

\* A changeset whose closed_at has passed does not change any more, once the
\* requests that began before are over: is_closed is judged on the row that
\* is written, not on one that has changed since.
ClosedForGood ==
    [][\A id \in DOMAIN changesets :
        /\ changesets[id].cs.closed_at < now
        /\ \A w \in Workers :
               request[w] = Idle \/ request[w].began > changesets[id].cs.closed_at
        => changesets'[id] = changesets[id]]_vars

\* Every call that succeeds acts as if it ran alone: num_changes and the box,
\* which update_changeset computes from what lock_cs has read and writes back
\* as a whole, are those of the row at the time of the commit.
AtomicCalls == Atomic!Spec

\* "Set closed_at timestamp to now() to indicate that the changeset is closed"
\* (api_close_changeset): a changeset that a close call has closed stays as
\* it is.  The clock of the model is coarse: calls of the same tick as the
\* close, which real timestamps tell apart from it, do not count.
ClosedStaysClosed ==
    [][\A id \in closed :
        \/ changesets'[id] = changesets[id]
        \/ \E w \in Workers : request[w].stage = "ready" /\ request[w].id = id
                                /\ request[w].began >= changesets[id].cs.closed_at]_vars

\* Every request that begins ends: nobody waits forever for the row of a user.
RequestEnds == \A w \in Workers : request[w] # Idle ~> request[w] = Idle
=============================================================================
