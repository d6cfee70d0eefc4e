--------------------------- MODULE RelationUpdater ---------------------------
(***************************************************************************)
(* ApiDB_Relation_Updater (relation_updater.cpp), laid out like            *)
(* NodeUpdater.  Members are nodes, ways and relations.  Relations of one  *)
(* batch may refer to each other, so the visibility of members and the use *)
(* of deleted relations are judged against the whole batch.                *)
(***************************************************************************)
EXTENDS UploadSession

add_relation(e) == [e EXCEPT !.version = 1, !.id = 0, !.loc = 0, !.if_unused = FALSE]
modify_relation(e) == [e EXCEPT !.loc = 0, !.if_unused = FALSE]
delete_relation(e) == [e EXCEPT !.loc = 0, !.tags = {}, !.members = <<>>]

RelationPlaceholdersFound(relations, created) ==
    IF PlaceholdersKnown(created, "Relation", relations) THEN OK ELSE bad_request
replace_old_ids_in_relations(relations, created) == ResolveAll(created, "Relation", relations)

check_unique_relation_placeholder_ids(relations) ==
    IF PlaceholdersUnique(create_placeholder_ids["Relation"], relations)
    THEN OK ELSE bad_request

\* A relation may refer by placeholder only to relations before it in the
\* same list.
check_forward_relation_placeholders(relations) ==
    IF \A i \in DOMAIN relations : \A k \in DOMAIN relations[i].members :
           LET mbr == relations[i].members[k]
           IN  mbr.ref < 0 /\ mbr.type = "Relation" =>
                   \E j \in DOMAIN relations : j < i /\ relations[j].old_id = mbr.ref
    THEN OK ELSE bad_request

insert_new_relations_to_current_table(tb, relations) ==
    InsertCurrent(tb, "Relation", relations)

lock_current_relations(tb, ids) == LockCurrent(tb, "Relation", ids)

build_relation_packages(relations) == BuildPackages(relations)

check_current_relation_versions(tb, relations) == CheckVersions(tb, "Relation", relations)

determine_already_deleted_relations(tb, relations) ==
    AlreadyDeleted(tb, "Relation", relations)
AlreadyDeletedRelationsSkippable(tb, relations) ==
    IF determine_already_deleted_relations(tb, relations)
           \cap ids_without_if_unused(relations) = {}
    THEN OK ELSE gone

lock_future_members_nodes(tb, relations) == LockFuture(tb, "Node", relations, {})
lock_future_members_ways(tb, relations) == LockFuture(tb, "Way", relations, {})
lock_future_members_relations(tb, relations, already_locked) ==
    LockFuture(tb, "Relation", relations, already_locked)

\* Relations locked by lock_current_relations (or just created) are visible
\* in the end whatever they are now.
lock_future_members(tb, relations, already_locked) ==
    Then(lock_future_members_nodes(tb, relations),
    Then(lock_future_members_ways(tb, relations),
         lock_future_members_relations(tb, relations, already_locked)))

(***************************************************************************)
(* Bounding box.  A member reference is compared with the current table.   *)
(***************************************************************************)
IsMember(tb, id, mbr) ==
    \E r \in tb.members["Relation"] : r.id = id /\ r.type = mbr.type /\ r.ref = mbr.ref

\* Mutant: relation members are not looked at.
relations_with_new_relation_members_mutant(tb, relations) == {}

relations_with_new_relation_members(tb, relations) ==
    {relations[i].id : i \in {j \in DOMAIN relations :
        \E k \in DOMAIN relations[j].members :
            /\ relations[j].members[k].type = "Relation"
            /\ ~IsMember(tb, relations[j].id, relations[j].members[k])}}

\* A tag was added, or one was removed and (the inner join) one is left.
relations_with_changed_relation_tags(tb, relations) ==
    {relations[i].id : i \in {j \in DOMAIN relations :
        LET current == {r.tag : r \in {x \in tb.tags["Relation"] : x.id = relations[j].id}}
        IN  \/ relations[j].tags \ current # {}
            \/ relations[j].tags # {} /\ current \ relations[j].tags # {}}}

\* Mutant: only what is added is looked for.
relations_with_changed_way_node_members_mutant(tb, relations) ==
    LET Added(i) == {k \in DOMAIN relations[i].members :
                         /\ relations[i].members[k].type \in {"Node", "Way"}
                         /\ ~IsMember(tb, relations[i].id, relations[i].members[k])}
    IN  UNION {{[type |-> relations[i].members[k].type,
                 ref |-> relations[i].members[k].ref,
                 new_member |-> TRUE] : k \in Added(i)} : i \in DOMAIN relations}

\* Node and way members that are added, and members that are removed from
\* relations that have a node or a way member left.
relations_with_changed_way_node_members(tb, relations) ==
    LET WayNode(i) == {k \in DOMAIN relations[i].members :
                           relations[i].members[k].type \in {"Node", "Way"}}
        Added(i) == {k \in WayNode(i) :
                         ~IsMember(tb, relations[i].id, relations[i].members[k])}
        Removed(i) == {r \in tb.members["Relation"] :
                           /\ r.id = relations[i].id
                           /\ WayNode(i) # {}
                           /\ \A k \in WayNode(i) :
                                  \/ relations[i].members[k].type # r.type
                                  \/ relations[i].members[k].ref # r.ref}
    IN  UNION {{[type |-> relations[i].members[k].type,
                 ref |-> relations[i].members[k].ref,
                 new_member |-> TRUE] : k \in Added(i)}
               \cup {[type |-> r.type, ref |-> r.ref, new_member |-> FALSE] : r \in Removed(i)} :
               i \in DOMAIN relations}

MembersBox(tb, nodes, ways) ==
    extract_bbox(NodeCoords(tb, nodes \cup MemberRefs(tb, "Way", ways, "Node")))

calc_rel_member_difference_bbox(tb, diff, process_new_elements) ==
    LET Refs(t) == {d.ref : d \in {x \in diff : x.type = t
                                               /\ x.new_member = process_new_elements}}
    IN  MembersBox(tb, Refs("Node"), Refs("Way"))

calc_relation_bbox(tb, ids) ==
    MembersBox(tb, MemberRefs(tb, "Relation", ids, "Node"),
                   MemberRefs(tb, "Relation", ids, "Way"))

update_current_relations(tb, relations, visible) ==
    UpdateCurrent(tb, "Relation", relations, visible)

insert_new_current_relation_tags(tb, relations) == InsertTags(tb, "Relation", relations)
insert_new_current_relation_members(tb, relations) ==
    InsertMembers(tb, "Relation", relations)
delete_current_relation_tags(tb, ids) == DeleteTags(tb, "Relation", ids)

delete_current_relation_members(tb, ids) == DeleteMembers(tb, "Relation", ids)
save_current_relations_to_history(tb, ids) == SaveHistory(tb, "Relation", ids)
save_current_relation_tags_to_history(tb, ids) == SaveTagsHistory(tb, "Relation", ids)
save_current_relation_members_to_history(tb, ids) == SaveMembersHistory(tb, "Relation", ids)

(***************************************************************************)
(* Relations that are still used                                           *)
(***************************************************************************)
\* Relations of the list that a visible relation outside of it refers to.
relation_still_referenced_by_relation(tb, ids) ==
    {id \in ids : \E r \in tb.members["Relation"] :
        r.type = "Relation" /\ r.ref = id /\ r.id \notin ids /\ Visible(tb, "Relation", r.id)}

\* The relation members of relations, their relation members, and so on: the
\* least set that holds them (WITH RECURSIVE).
collect_recursive_relation_rel_member_ids(tb, direct) ==
    LET Children(s) == MemberRefs(tb, "Relation", s, "Relation")
    IN  {id \in Ids : \A s \in SUBSET Ids :
            Children(direct) \cup Children(s) \subseteq s => id \in s}

\* Mutant: the block is not extended to the children.
extend_deletion_block_to_relation_children_mutant(tb, direct, if_unused) == {}

extend_deletion_block_to_relation_children(tb, direct, if_unused) ==
    IF direct = {} \/ if_unused = {}
    THEN {}
    ELSE collect_recursive_relation_rel_member_ids(tb, direct) \cap if_unused

\* The relations that are skipped (relations_to_exclude_from_deletion).
is_relation_still_referenced(tb, relations) ==
    LET direct == relation_still_referenced_by_relation(tb, IdsOf(relations))
    IN  (direct \cap ids_if_unused(relations))
            \cup extend_deletion_block_to_relation_children(
                     tb, direct, ids_if_unused(relations))
ReferencedRelationsSkippable(tb, relations) ==
    IF relation_still_referenced_by_relation(tb, IdsOf(relations))
           \cap ids_without_if_unused(relations) = {}
    THEN OK ELSE precondition_failed

remove_blocked_relations_from_deletion_list(relations, exclude) == Without(relations, exclude)

process_new_relations ==
    LET create_relations == buffer["create"]["Relation"]
        created == [ct.created EXCEPT !["Relation"] =
                        @ \cup CreatedMappings(tx, "Relation", create_relations)]
        relations == replace_old_ids_in_relations(create_relations, created)
        ids == IdsOf(relations)
        inserted == insert_new_current_relation_members(
                        insert_new_current_relation_tags(
                            insert_new_relations_to_current_table(tx, create_relations),
                            relations), relations)
        error == Then(check_unique_relation_placeholder_ids(create_relations),
                 Then(check_forward_relation_placeholders(create_relations),
                 Then(RelationPlaceholdersFound(create_relations, created),
                      lock_future_members(tx, relations, ids))))
    IN
    /\ Calling("create", "Relation")
    /\ \/ /\ error # OK
          /\ Throw(error)
       \/ /\ error = OK
          /\ tx' = save_current_relation_members_to_history(
                       save_current_relation_tags_to_history(
                           save_current_relations_to_history(inserted, ids),
                           IdsWithTags(relations)), ids)
          /\ create_placeholder_ids' = [create_placeholder_ids EXCEPT !["Relation"] =
                 @ \cup {create_relations[i].old_id : i \in DOMAIN create_relations}]
          /\ ct' = [ct EXCEPT !.created = created]
          /\ m_bbox' = [m_bbox EXCEPT !["Relation"] =
                 expand(@, calc_relation_bbox(inserted, ids))]
          /\ Return("create", "Relation")
          /\ UNCHANGED <<packages, package, handlerVars>>

\* Up to the loop over the packages.
process_modify_relations ==
    LET modify_relations == buffer["modify"]["Relation"]
        relations == replace_old_ids_in_relations(modify_relations, ct.created)
        error == Then(RelationPlaceholdersFound(modify_relations, ct.created),
                      lock_current_relations(tx, IdsOf(relations)))
    IN
    /\ Calling("modify", "Relation")
    /\ \/ /\ error # OK
          /\ Throw(error)
       \/ /\ error = OK
          /\ packages' = build_relation_packages(relations)
          /\ package' = 1
          /\ todo' = <<[op |-> "package", type |-> "Relation"]>> \o Tail(todo)
          /\ UNCHANGED <<tx, ct, buffer, create_placeholder_ids, m_bbox, handlerVars>>

\* One round of the loop, or its end.
process_modify_relations_package ==
    LET relations == packages[package]
        ids_package == IdsOf(relations)
        ids == UNION {IdsOf(packages[k]) : k \in DOMAIN packages}
        full == relations_with_new_relation_members(tx, relations)
                    \cup relations_with_changed_relation_tags(tx, relations)
        partial == relations_with_changed_way_node_members(tx, relations)
        updated == insert_new_current_relation_members(
                       insert_new_current_relation_tags(
                           update_current_relations(
                               delete_current_relation_members(
                                   delete_current_relation_tags(tx, ids_package), ids_package),
                               relations, TRUE), relations), relations)
        error == Then(check_current_relation_versions(tx, relations),
                 Then(lock_future_members(tx, relations, ids),
                      AllHit(tx, "Relation", relations)))
    IN
    /\ Calling("package", "Relation")
    /\ \/ /\ package \in DOMAIN packages
          /\ error # OK
          /\ Throw(error)
       \/ /\ package \in DOMAIN packages
          /\ error = OK
          /\ tx' = save_current_relation_members_to_history(
                       save_current_relation_tags_to_history(
                           save_current_relations_to_history(updated, ids_package),
                           IdsWithTags(relations)), ids_package)
          /\ ct' = [ct EXCEPT !.modified["Relation"] =
                 @ \cup Mappings(updated, "Relation", relations, ids_package)]
          /\ m_bbox' = [m_bbox EXCEPT !["Relation"] =
                 expand(expand(expand(expand(@,
                     calc_relation_bbox(tx, full)),
                     calc_rel_member_difference_bbox(tx, partial, FALSE)),
                     calc_relation_bbox(updated, full)),
                     calc_rel_member_difference_bbox(updated, partial, TRUE))]
          /\ package' = package + 1
          /\ UNCHANGED <<buffer, create_placeholder_ids, packages, todo, handlerVars>>
       \/ /\ package \notin DOMAIN packages
          /\ packages' = <<>>
          /\ package' = 1
          /\ Return("modify", "Relation")
          /\ UNCHANGED <<tx, ct, create_placeholder_ids, m_bbox, handlerVars>>

process_delete_relations ==
    LET delete_relations == buffer["delete"]["Relation"]
        relations == replace_old_ids_in_relations(delete_relations, ct.created)
        already_deleted == determine_already_deleted_relations(tx, relations)
        visible == Without(relations, already_deleted)
        still_referenced == is_relation_still_referenced(tx, visible)
        unreferenced == remove_blocked_relations_from_deletion_list(visible, still_referenced)
        ids == IdsOf(unreferenced)
        deleted == update_current_relations(tx, unreferenced, FALSE)
        error == Then(RelationPlaceholdersFound(delete_relations, ct.created),
                 Then(lock_current_relations(tx, IdsOf(relations)),
                 Then(AlreadyDeletedRelationsSkippable(tx, relations),
                 Then(check_current_relation_versions(tx, visible),
                 Then(ReferencedRelationsSkippable(tx, visible),
                      AllHit(tx, "Relation", unreferenced))))))
    IN
    /\ Calling("delete", "Relation")
    /\ \/ /\ error # OK
          /\ Throw(error)
       \/ /\ error = OK
          /\ tx' = save_current_relations_to_history(
                       delete_current_relation_members(
                           delete_current_relation_tags(deleted, ids), ids), ids)
          /\ ct' = [ct EXCEPT
                 !.skip_deleted["Relation"] = AddSkipped(@,
                     Mappings(tx, "Relation", relations, already_deleted)
                         \cup Mappings(tx, "Relation", visible, still_referenced)),
                 !.deleted["Relation"] = @ \cup Mappings(deleted, "Relation", unreferenced, ids)]
          /\ m_bbox' = [m_bbox EXCEPT !["Relation"] =
                 expand(@, calc_relation_bbox(tx, IdsOf(relations)))]
          /\ Return("delete", "Relation")
          /\ UNCHANGED <<create_placeholder_ids, packages, package, handlerVars>>
=============================================================================
