----------------------------- MODULE NodeUpdater -----------------------------
(***************************************************************************)
(* ApiDB_Node_Updater (node_updater.cpp).  add_node, modify_node and       *)
(* delete_node make the element that is put in a buffer; process_new_nodes *)
(* process_modify_nodes and process_delete_nodes are actions, and the      *)
(* functions they call are operators of the same name: a check is the      *)
(* status it throws or OK, a write the tables it leaves.                   *)
(***************************************************************************)
EXTENDS UploadSession

\* Only the ids and the if-unused flag of a deleted element are kept.
add_node(e) == [e EXCEPT !.version = 1, !.id = 0, !.members = <<>>, !.if_unused = FALSE]
modify_node(e) == [e EXCEPT !.members = <<>>, !.if_unused = FALSE]
delete_node(e) == [e EXCEPT !.loc = 0, !.tags = {}, !.members = <<>>]

NodePlaceholdersFound(nodes, created) ==
    IF PlaceholdersKnown(created, "Node", nodes) THEN OK ELSE bad_request
replace_old_ids_in_nodes(nodes, created) == ResolveAll(created, "Node", nodes)

check_unique_node_placeholder_ids(nodes) ==
    IF PlaceholdersUnique(create_placeholder_ids["Node"], nodes) THEN OK ELSE bad_request

insert_new_nodes_to_current_table(tb, nodes) == InsertCurrent(tb, "Node", nodes)

lock_current_nodes(tb, ids) == LockCurrent(tb, "Node", ids)

build_node_packages(nodes) == BuildPackages(nodes)

check_current_node_versions(tb, nodes) == CheckVersions(tb, "Node", nodes)

determine_already_deleted_nodes(tb, nodes) == AlreadyDeleted(tb, "Node", nodes)
AlreadyDeletedNodesSkippable(tb, nodes) ==
    IF determine_already_deleted_nodes(tb, nodes) \cap ids_without_if_unused(nodes) = {}
    THEN OK ELSE gone

calc_node_bbox(tb, ids) == extract_bbox(NodeCoords(tb, ids))

update_current_nodes(tb, nodes) == UpdateCurrent(tb, "Node", nodes, TRUE)
delete_current_nodes(tb, nodes) == UpdateCurrent(tb, "Node", nodes, FALSE)

insert_new_current_node_tags(tb, nodes) == InsertTags(tb, "Node", nodes)
delete_current_node_tags(tb, ids) == DeleteTags(tb, "Node", ids)
save_current_nodes_to_history(tb, ids) == SaveHistory(tb, "Node", ids)
save_current_node_tags_to_history(tb, ids) == SaveTagsHistory(tb, "Node", ids)

\* Mutant: the ways are forgotten.
is_node_still_referenced_mutant(tb, nodes) == ReferencedBy(tb, "Relation", "Node", IdsOf(nodes))

\* Nodes of the list that a way or a relation still uses.
is_node_still_referenced(tb, nodes) ==
    ReferencedBy(tb, "Way", "Node", IdsOf(nodes))
        \cup ReferencedBy(tb, "Relation", "Node", IdsOf(nodes))
ReferencedNodesSkippable(tb, nodes) ==
    IF is_node_still_referenced(tb, nodes) \cap ids_without_if_unused(nodes) = {}
    THEN OK ELSE precondition_failed

process_new_nodes ==
    LET create_nodes == buffer["create"]["Node"]
        created == [ct.created EXCEPT !["Node"] =
                        @ \cup CreatedMappings(tx, "Node", create_nodes)]
        nodes == replace_old_ids_in_nodes(create_nodes, created)
        ids == IdsOf(nodes)
        inserted == insert_new_current_node_tags(
                        insert_new_nodes_to_current_table(tx, create_nodes), nodes)
        error == Then(check_unique_node_placeholder_ids(create_nodes),
                      NodePlaceholdersFound(create_nodes, created))
    IN
    /\ Calling("create", "Node")
    /\ \/ /\ error # OK
          /\ Throw(error)
       \/ /\ error = OK
          /\ tx' = save_current_node_tags_to_history(
                       save_current_nodes_to_history(inserted, ids), IdsWithTags(nodes))
          /\ create_placeholder_ids' = [create_placeholder_ids EXCEPT !["Node"] =
                 @ \cup {create_nodes[i].old_id : i \in DOMAIN create_nodes}]
          /\ ct' = [ct EXCEPT !.created = created]
          /\ m_bbox' = [m_bbox EXCEPT !["Node"] = expand(@, calc_node_bbox(inserted, ids))]
          /\ Return("create", "Node")
          /\ UNCHANGED <<packages, package, handlerVars>>

\* Up to the loop over the packages.
process_modify_nodes ==
    LET modify_nodes == buffer["modify"]["Node"]
        nodes == replace_old_ids_in_nodes(modify_nodes, ct.created)
        error == Then(NodePlaceholdersFound(modify_nodes, ct.created),
                      lock_current_nodes(tx, IdsOf(nodes)))
    IN
    /\ Calling("modify", "Node")
    /\ \/ /\ error # OK
          /\ Throw(error)
       \/ /\ error = OK
          /\ packages' = build_node_packages(nodes)
          /\ package' = 1
          /\ todo' = <<[op |-> "package", type |-> "Node"]>> \o Tail(todo)
          /\ UNCHANGED <<tx, ct, buffer, create_placeholder_ids, m_bbox, handlerVars>>

\* One round of the loop, or its end.
process_modify_nodes_package ==
    LET nodes == packages[package]
        ids == IdsOf(nodes)
        updated == insert_new_current_node_tags(
                       update_current_nodes(delete_current_node_tags(tx, ids), nodes), nodes)
        error == Then(check_current_node_versions(tx, nodes), AllHit(tx, "Node", nodes))
    IN
    /\ Calling("package", "Node")
    /\ \/ /\ package \in DOMAIN packages
          /\ error # OK
          /\ Throw(error)
       \/ /\ package \in DOMAIN packages
          /\ error = OK
          /\ tx' = save_current_node_tags_to_history(
                       save_current_nodes_to_history(updated, ids), IdsWithTags(nodes))
          /\ ct' = [ct EXCEPT !.modified["Node"] = @ \cup Mappings(updated, "Node", nodes, ids)]
          /\ m_bbox' = [m_bbox EXCEPT !["Node"] =
                 expand(expand(@, calc_node_bbox(tx, ids)), calc_node_bbox(updated, ids))]
          /\ package' = package + 1
          /\ UNCHANGED <<buffer, create_placeholder_ids, packages, todo, handlerVars>>
       \/ /\ package \notin DOMAIN packages
          /\ packages' = <<>>
          /\ package' = 1
          /\ Return("modify", "Node")
          /\ UNCHANGED <<tx, ct, create_placeholder_ids, m_bbox, handlerVars>>

process_delete_nodes ==
    LET delete_nodes == buffer["delete"]["Node"]
        nodes == replace_old_ids_in_nodes(delete_nodes, ct.created)
        already_deleted == determine_already_deleted_nodes(tx, nodes)
        visible == Without(nodes, already_deleted)
        still_referenced == is_node_still_referenced(tx, visible)
        unreferenced == Without(visible, still_referenced)
        ids == IdsOf(unreferenced)
        deleted == delete_current_nodes(tx, unreferenced)
        error == Then(NodePlaceholdersFound(delete_nodes, ct.created),
                 Then(lock_current_nodes(tx, IdsOf(nodes)),
                 Then(AlreadyDeletedNodesSkippable(tx, nodes),
                 Then(check_current_node_versions(tx, visible),
                 Then(ReferencedNodesSkippable(tx, visible),
                      AllHit(tx, "Node", unreferenced))))))
    IN
    /\ Calling("delete", "Node")
    /\ \/ /\ error # OK
          /\ Throw(error)
       \/ /\ error = OK
          /\ tx' = save_current_nodes_to_history(delete_current_node_tags(deleted, ids), ids)
          /\ ct' = [ct EXCEPT
                 !.skip_deleted["Node"] = AddSkipped(@,
                     Mappings(tx, "Node", nodes, already_deleted)
                         \cup Mappings(tx, "Node", visible, still_referenced)),
                 !.deleted["Node"] = @ \cup Mappings(deleted, "Node", unreferenced, ids)]
          /\ m_bbox' = [m_bbox EXCEPT !["Node"] = expand(@, calc_node_bbox(tx, IdsOf(nodes)))]
          /\ Return("delete", "Node")
          /\ UNCHANGED <<create_placeholder_ids, packages, package, handlerVars>>
=============================================================================
