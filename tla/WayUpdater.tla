----------------------------- MODULE WayUpdater -----------------------------
(***************************************************************************)
(* ApiDB_Way_Updater (way_updater.cpp), laid out like NodeUpdater.  A way  *)
(* refers to nodes (current_way_nodes, members["Way"] here): they must be  *)
(* visible when the way is written, and a way that a relation uses cannot  *)
(* be deleted.                                                             *)
(***************************************************************************)
EXTENDS UploadSession

add_way(e) == [e EXCEPT !.version = 1, !.id = 0, !.loc = 0, !.if_unused = FALSE]
modify_way(e) == [e EXCEPT !.loc = 0, !.if_unused = FALSE]
delete_way(e) == [e EXCEPT !.loc = 0, !.tags = {}, !.members = <<>>]

WayPlaceholdersFound(ways, created) ==
    IF PlaceholdersKnown(created, "Way", ways) THEN OK ELSE bad_request
replace_old_ids_in_ways(ways, created) == ResolveAll(created, "Way", ways)

check_unique_way_placeholder_ids(ways) ==
    IF PlaceholdersUnique(create_placeholder_ids["Way"], ways) THEN OK ELSE bad_request

insert_new_ways_to_current_table(tb, ways) == InsertCurrent(tb, "Way", ways)

calc_way_bbox(tb, ids) == extract_bbox(NodeCoords(tb, MemberRefs(tb, "Way", ids, "Node")))

lock_current_ways(tb, ids) == LockCurrent(tb, "Way", ids)

build_way_packages(ways) == BuildPackages(ways)

check_current_way_versions(tb, ways) == CheckVersions(tb, "Way", ways)

determine_already_deleted_ways(tb, ways) == AlreadyDeleted(tb, "Way", ways)
AlreadyDeletedWaysSkippable(tb, ways) ==
    IF determine_already_deleted_ways(tb, ways) \cap ids_without_if_unused(ways) = {}
    THEN OK ELSE gone

\* Share-locks the nodes the ways are going to use: all must be visible.
lock_future_nodes(tb, ways) == LockFuture(tb, "Node", ways, {})

update_current_ways(tb, ways, visible) == UpdateCurrent(tb, "Way", ways, visible)

insert_new_current_way_tags(tb, ways) == InsertTags(tb, "Way", ways)
insert_new_current_way_nodes(tb, ways) == InsertMembers(tb, "Way", ways)
delete_current_way_tags(tb, ids) == DeleteTags(tb, "Way", ids)
\* Mutant: the rows are left behind.
delete_current_way_nodes_mutant(tb, ids) == tb

delete_current_way_nodes(tb, ids) == DeleteMembers(tb, "Way", ids)
save_current_ways_to_history(tb, ids) == SaveHistory(tb, "Way", ids)
save_current_way_tags_to_history(tb, ids) == SaveTagsHistory(tb, "Way", ids)
save_current_way_nodes_to_history(tb, ids) == SaveMembersHistory(tb, "Way", ids)

\* Ways of the list that a relation still uses.
is_way_still_referenced(tb, ways) == ReferencedBy(tb, "Relation", "Way", IdsOf(ways))
ReferencedWaysSkippable(tb, ways) ==
    IF is_way_still_referenced(tb, ways) \cap ids_without_if_unused(ways) = {}
    THEN OK ELSE precondition_failed

process_new_ways ==
    LET create_ways == buffer["create"]["Way"]
        created == [ct.created EXCEPT !["Way"] =
                        @ \cup CreatedMappings(tx, "Way", create_ways)]
        ways == replace_old_ids_in_ways(create_ways, created)
        ids == IdsOf(ways)
        inserted == insert_new_current_way_nodes(
                        insert_new_current_way_tags(
                            insert_new_ways_to_current_table(tx, create_ways), ways), ways)
        error == Then(check_unique_way_placeholder_ids(create_ways),
                 Then(WayPlaceholdersFound(create_ways, created),
                      lock_future_nodes(tx, ways)))
    IN
    /\ Calling("create", "Way")
    /\ \/ /\ error # OK
          /\ Throw(error)
       \/ /\ error = OK
          /\ tx' = save_current_way_nodes_to_history(
                       save_current_way_tags_to_history(
                           save_current_ways_to_history(inserted, ids), IdsWithTags(ways)), ids)
          /\ create_placeholder_ids' = [create_placeholder_ids EXCEPT !["Way"] =
                 @ \cup {create_ways[i].old_id : i \in DOMAIN create_ways}]
          /\ ct' = [ct EXCEPT !.created = created]
          /\ m_bbox' = [m_bbox EXCEPT !["Way"] = expand(@, calc_way_bbox(inserted, ids))]
          /\ Return("create", "Way")
          /\ UNCHANGED <<packages, package, handlerVars>>

\* Up to the loop over the packages.
process_modify_ways ==
    LET modify_ways == buffer["modify"]["Way"]
        ways == replace_old_ids_in_ways(modify_ways, ct.created)
        error == Then(WayPlaceholdersFound(modify_ways, ct.created),
                      lock_current_ways(tx, IdsOf(ways)))
    IN
    /\ Calling("modify", "Way")
    /\ \/ /\ error # OK
          /\ Throw(error)
       \/ /\ error = OK
          /\ packages' = build_way_packages(ways)
          /\ package' = 1
          /\ todo' = <<[op |-> "package", type |-> "Way"]>> \o Tail(todo)
          /\ UNCHANGED <<tx, ct, buffer, create_placeholder_ids, m_bbox, handlerVars>>

\* One round of the loop, or its end.  The box is expanded by the ways of the
\* package before, and by all ways of the buffer after.
process_modify_ways_package ==
    LET ways == packages[package]
        ids_package == IdsOf(ways)
        ids == UNION {IdsOf(packages[k]) : k \in DOMAIN packages}
        updated == insert_new_current_way_nodes(
                       insert_new_current_way_tags(
                           update_current_ways(
                               delete_current_way_nodes(
                                   delete_current_way_tags(tx, ids_package), ids_package),
                               ways, TRUE), ways), ways)
        error == Then(check_current_way_versions(tx, ways),
                 Then(lock_future_nodes(tx, ways), AllHit(tx, "Way", ways)))
    IN
    /\ Calling("package", "Way")
    /\ \/ /\ package \in DOMAIN packages
          /\ error # OK
          /\ Throw(error)
       \/ /\ package \in DOMAIN packages
          /\ error = OK
          /\ tx' = save_current_way_nodes_to_history(
                       save_current_way_tags_to_history(
                           save_current_ways_to_history(updated, ids_package),
                           IdsWithTags(ways)), ids_package)
          /\ ct' = [ct EXCEPT !.modified["Way"] =
                 @ \cup Mappings(updated, "Way", ways, ids_package)]
          /\ m_bbox' = [m_bbox EXCEPT !["Way"] =
                 expand(expand(@, calc_way_bbox(tx, ids_package)), calc_way_bbox(updated, ids))]
          /\ package' = package + 1
          /\ UNCHANGED <<buffer, create_placeholder_ids, packages, todo, handlerVars>>
       \/ /\ package \notin DOMAIN packages
          /\ packages' = <<>>
          /\ package' = 1
          /\ Return("modify", "Way")
          /\ UNCHANGED <<tx, ct, create_placeholder_ids, m_bbox, handlerVars>>

process_delete_ways ==
    LET delete_ways == buffer["delete"]["Way"]
        ways == replace_old_ids_in_ways(delete_ways, ct.created)
        already_deleted == determine_already_deleted_ways(tx, ways)
        visible == Without(ways, already_deleted)
        still_referenced == is_way_still_referenced(tx, visible)
        unreferenced == Without(visible, still_referenced)
        ids == IdsOf(unreferenced)
        deleted == update_current_ways(tx, unreferenced, FALSE)
        error == Then(WayPlaceholdersFound(delete_ways, ct.created),
                 Then(lock_current_ways(tx, IdsOf(ways)),
                 Then(AlreadyDeletedWaysSkippable(tx, ways),
                 Then(check_current_way_versions(tx, visible),
                 Then(ReferencedWaysSkippable(tx, visible),
                      AllHit(tx, "Way", unreferenced))))))
    IN
    /\ Calling("delete", "Way")
    /\ \/ /\ error # OK
          /\ Throw(error)
       \/ /\ error = OK
          /\ tx' = save_current_ways_to_history(
                       delete_current_way_nodes(delete_current_way_tags(deleted, ids), ids), ids)
          /\ ct' = [ct EXCEPT
                 !.skip_deleted["Way"] = AddSkipped(@,
                     Mappings(tx, "Way", ways, already_deleted)
                         \cup Mappings(tx, "Way", visible, still_referenced)),
                 !.deleted["Way"] = @ \cup Mappings(deleted, "Way", unreferenced, ids)]
          /\ m_bbox' = [m_bbox EXCEPT !["Way"] = expand(@, calc_way_bbox(tx, IdsOf(ways)))]
          /\ Return("delete", "Way")
          /\ UNCHANGED <<create_placeholder_ids, packages, package, handlerVars>>
=============================================================================
