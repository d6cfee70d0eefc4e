-------------------------- MODULE OSMChangeTracking --------------------------
(***************************************************************************)
(* OSMChange_Tracking::assemble_diffresult (osmchange_tracking.cpp): the   *)
(* response has one entry for each element of the document, in its order,  *)
(* looked up among what the updaters reported while they worked.           *)
(***************************************************************************)
EXTENDS UploadSession

\* The lookups throw if they find nothing ("was not processed").
FindCreated(c, item) == {m \in c.created[item.type] : m.old_id = item.old_id}
\* Mutant: the version is not part of the key.
FindModified_mutant(c, item) == {m \in c.modified[item.type] : m.old_id = item.old_id}

FindModified(c, item) ==
    {m \in c.modified[item.type] :
        m.old_id = item.old_id /\ m.new_version = item.version + 1}
FindSkipped(c, item) ==
    {m \in c.skip_deleted[item.type] : item.if_unused /\ m.old_id = item.old_id}
FindDeleted(c, item) == {m \in c.deleted[item.type] : m.old_id = item.old_id}

was_processed(c, item) ==
    CASE item.op = "create" -> FindCreated(c, item) # {}
      [] item.op = "modify" -> FindModified(c, item) # {}
      [] item.op = "delete" -> FindSkipped(c, item) \cup FindDeleted(c, item) # {}

row(item, m, skipped) ==
    [op |-> item.op, type |-> item.type, old_id |-> m.old_id, new_id |-> m.new_id,
     new_version |-> m.new_version, deletion_skipped |-> skipped]

\* An executed delete only reports the id it was asked to delete.
deleted_row(item) ==
    row(item, [old_id |-> item.old_id, new_id |-> 0, new_version |-> 0], FALSE)

\* A delete with if-unused is looked up among the skipped ones first.
diffresult_row(c, item) ==
    CASE item.op = "create" -> row(item, CHOOSE m \in FindCreated(c, item) : TRUE, FALSE)
      [] item.op = "modify" -> row(item, CHOOSE m \in FindModified(c, item) : TRUE, FALSE)
      [] item.op = "delete" /\ FindSkipped(c, item) # {} ->
             row(item, CHOOSE m \in FindSkipped(c, item) : TRUE, TRUE)
      [] item.op = "delete" /\ FindSkipped(c, item) = {} -> deleted_row(item)

assemble_diffresult(c) ==
    [i \in DOMAIN c.orig_sequence |-> diffresult_row(c, c.orig_sequence[i])]

AllProcessed(c) ==
    IF \A i \in DOMAIN c.orig_sequence : was_processed(c, c.orig_sequence[i])
    THEN OK ELSE server_error

\* Mutant: deletions are not counted.
num_new_changes_mutant(c) ==
    LET Count(t) == Cardinality(c.created[t]) + Cardinality(c.modified[t])
    IN  Count("Node") + Count("Way") + Count("Relation")

\* OSMChange_Handler::get_stats().get_total()
num_new_changes(c) ==
    LET Count(t) == Cardinality(c.created[t]) + Cardinality(c.modified[t])
                        + Cardinality(c.deleted[t])
    IN  Count("Node") + Count("Way") + Count("Relation")
=============================================================================
