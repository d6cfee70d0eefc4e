----------------------------- MODULE Changesets -----------------------------
(***************************************************************************)
(* What the changeset calls of the API promise: each call that succeeds    *)
(* happens at once, on the changeset as it is at that moment.  now is the  *)
(* clock; a call is judged by the time at which its transaction began.     *)
(***************************************************************************)
EXTENDS ChangesetUpdater

CONSTANTS
    Users,
    ChangesetIds,
    TagSets,        \* the sets of tags clients give to changesets
    Uploads         \* number of changes and bounding box of the uploads

\* A row of changesets with its changeset_tags.
Row == [user_id: Users, tags: TagSets, cs: Changeset]

\* The table with this row inserted or updated.
Put(table, id, row) ==
    [i \in DOMAIN table \cup {id} |-> IF i = id THEN row ELSE table[i]]

VARIABLES now, changesets, changesets_count

vars == <<now, changesets, changesets_count>>

Init ==
    /\ now = 0
    /\ changesets = [i \in {} |-> 0]
    /\ changesets_count = [u \in Users |-> 0]

Create(u, id, tags, began) ==
    /\ id \notin DOMAIN changesets
    /\ changesets' = Put(changesets, id,
           [user_id |-> u, tags |-> tags, cs |-> changeset_insert_cs(began)])
    /\ changesets_count' = [changesets_count EXCEPT ![u] = @ + 1]
    /\ UNCHANGED now

\* A call for an open changeset.
Change(id, row, began) ==
    /\ id \in DOMAIN changesets
    /\ ~is_closed(changesets[id].cs, began)
    /\ changesets' = Put(changesets, id, row)
    /\ UNCHANGED <<now, changesets_count>>

Update(id, tags, began) ==
    Change(id, [changesets[id] EXCEPT
                    !.tags = tags, !.cs = update_changeset(@, 0, undefined_bbox, began)], began)

Close(id, began) ==
    Change(id, [changesets[id] EXCEPT !.cs = close_changeset(@, began)], began)

Upload(id, up, began) ==
    /\ within_max_elements(changesets[id].cs, up.num)
    /\ Change(id, [changesets[id] EXCEPT !.cs = update_changeset(@, up.num, up.bbox, began)],
              began)

Tick == now' = now + 1 /\ UNCHANGED <<changesets, changesets_count>>

Next ==
    \/ \E id \in ChangesetIds, began \in 0..now :
           \/ \E u \in Users, tags \in TagSets : Create(u, id, tags, began)
           \/ /\ id \in DOMAIN changesets
              /\ \/ \E tags \in TagSets : Update(id, tags, began)
                 \/ Close(id, began)
                 \/ \E up \in Uploads : Upload(id, up, began)
    \/ Tick

Spec == Init /\ [][Next]_vars
=============================================================================
