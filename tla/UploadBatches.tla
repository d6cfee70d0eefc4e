---------------------------- MODULE UploadBatches ----------------------------
(***************************************************************************)
(* What the checks and the writes of one process_new_*, process_modify_*   *)
(* or process_delete_* call do with the rows they see.  A batch is one of  *)
(* those calls; rows is the map from elements to their rows in             *)
(* current_nodes, current_ways and current_relations, with the way nodes   *)
(* and the relation members in refs.  Tags, locations and the history are  *)
(* in NodeUpdater, WayUpdater and RelationUpdater.                         *)
(***************************************************************************)
EXTENDS Naturals, Sequences

CONSTANTS
    Elements,   \* nodes, ways and relations, the ones still to be created too
    Relations   \* those of them that are relations

Row == [version: Nat, visible: BOOLEAN, refs: SUBSET Elements]
NoRow == [version |-> 0, visible |-> FALSE, refs |-> {}]

Item == [id: Elements, version: Nat, refs: SUBSET Elements, if_unused: BOOLEAN]
Batch == [op: {"create", "modify", "delete"}, items: SUBSET Item]

Exists(rows, e) == rows[e].version > 0
Ids(items) == {i.id : i \in items}

\* Rows that lock_current_* cannot find.
MissingCurrent(rows, batch) == {e \in Ids(batch.items) : ~Exists(rows, e)}

\* Rows lock_future_nodes and lock_future_members lock: relations that the
\* same call creates or has locked before are left out.
FutureMembers(batch) ==
    (UNION {i.refs : i \in batch.items}) \ (Ids(batch.items) \cap Relations)
MissingFuture(rows, batch) == {e \in FutureMembers(batch) : ~rows[e].visible}

\* determine_already_deleted_*
AlreadyDeleted(rows, batch) == {i \in batch.items : ~rows[i.id].visible}

\* check_current_*_versions
VersionsDiffer(rows, items) == \E i \in items : rows[i.id].version # i.version

\* Elements that a visible element outside of the list refers to.
ReferencedOutside(rows, items) ==
    {i \in items : \E p \in Elements \ Ids(items) : rows[p].visible /\ i.id \in rows[p].refs}

\* Members of these relations, their members and so on
\* (collect_recursive_relation_rel_member_ids).
Below(rows, parents) ==
    {e \in Elements : \A S \in SUBSET Elements :
        (/\ UNION {rows[p].refs : p \in parents} \subseteq S
         /\ \A p \in S : rows[p].refs \subseteq S) => e \in S}

\* is_node_still_referenced, is_way_still_referenced and
\* is_relation_still_referenced: with if-unused, the relations below one that
\* is kept are kept too.
StillReferenced(rows, items) ==
    LET direct == ReferencedOutside(rows, items)
    IN  direct \cup {i \in items : i.if_unused /\ i.id \in Below(rows, Ids(direct)) \cap Relations}

\* update_current_*, delete_current_* and the inserts.
Written(op, item, row) ==
    CASE op = "create" -> [version |-> 1, visible |-> TRUE, refs |-> item.refs]
      [] op = "modify" ->
            [version |-> row.version + 1, visible |-> TRUE, refs |-> item.refs]
      [] op = "delete" ->
            [version |-> row.version + 1, visible |-> FALSE, refs |-> {}]

WriteBatch(rows, batch) ==
    [e \in Elements |->
        IF e \in Ids(batch.items)
        THEN Written(batch.op, CHOOSE i \in batch.items : i.id = e, rows[e])
        ELSE rows[e]]
=============================================================================
