--------------------------- MODULE ChangesetUpload ---------------------------
(***************************************************************************)
(* The upload of osmChange documents to one changeset, one request after   *)
(* the other: changeset_upload_responder drives the XML parser, which      *)
(* hands the elements to OSMChange_Handler, which buffers them in the      *)
(* updaters and flushes the buffers whenever the kind of element changes.  *)
(* Each request runs in a transaction of its own, committed at the very    *)
(* end or rolled back by any exception.                                    *)
(***************************************************************************)
EXTENDS NodeUpdater, WayUpdater, RelationUpdater, OSMChangeTracking

\* Situations in which a user uploads to a changeset.
CONSTANT Scenarios

VARIABLE scenario   \* the one of this behaviour, which never changes

upload_vars == <<vars, scenario>>

Scenario ==
    [tables: Tables,             \* what other changesets left in the database
     elements: SUBSET Element,   \* the elements the client puts in its documents
     max_elements: Nat,          \* bound on the elements of a document
     max_uploads: Nat,           \* bound on the number of uploads
     rate_limit: Nat,            \* get_rate_limit() of the user
     bbox_size_limit: Nat]       \* get_bbox_size_limit() of the user

(***************************************************************************)
(* Tables as uploads have to leave them                                    *)
(***************************************************************************)
\* The nodes of every way, and the node and way members of every relation,
\* are visible.
RefsVisible(tb) ==
    \A p \in Types : \A m \in tb.members[p] :
        m.type \in {"Node", "Way"} => Visible(tb, m.type, m.ref)

\* The same for relations that are members of relations.
RelationRefsVisible(tb) ==
    \A m \in tb.members["Relation"] :
        m.type = "Relation" => Visible(tb, "Relation", m.ref)

\* The tags and the members of an element at a version, and now.
TagsAt(tb, t, id, v) == {r.tag : r \in {x \in tb.history_tags[t] : x.id = id /\ x.version = v}}
MembersAt(tb, t, id, v) ==
    {[seq |-> r.seq, type |-> r.type, ref |-> r.ref] :
        r \in {x \in tb.history_members[t] : x.id = id /\ x.version = v}}
CurrentTags(tb, t, id) == {r.tag : r \in {x \in tb.tags[t] : x.id = id}}
CurrentMembers(tb, t, id) ==
    {[seq |-> r.seq, type |-> r.type, ref |-> r.ref] : r \in {x \in tb.members[t] : x.id = id}}

\* The history of an element has each version from 1 to the current one
\* exactly once, the last equals the current row with its tags and members,
\* and a deleted element has neither tags nor members.
HistoryOf(tb, t, id) == {h \in tb.history[t] : h.id = id}
HistoryMatches(tb, t, id) ==
    LET cur == tb.current[t][id]
        h == HistoryOf(tb, t, id)
    IN  /\ {r.version : r \in h} = 1..cur.version
        /\ \A r, q \in h : r.version = q.version => r = q
        /\ cur.version > 0 =>
               [id |-> id, version |-> cur.version, visible |-> cur.visible,
                loc |-> cur.loc] \in h
        /\ TagsAt(tb, t, id, cur.version) = CurrentTags(tb, t, id)
        /\ MembersAt(tb, t, id, cur.version) = CurrentMembers(tb, t, id)
        /\ ~cur.visible => CurrentTags(tb, t, id) = {} /\ CurrentMembers(tb, t, id) = {}

\* Nodes have no members and ways only nodes; the id sequences are past the
\* ids in use, no row is visible without being there, and nothing in the
\* history is newer than the current row.
Regular(tb) ==
    /\ tb.members["Node"] = {}
    /\ \A m \in tb.members["Way"] : m.type = "Node"
    /\ \A t \in Types :
         /\ \A id \in Ids : Exists(tb, t, id) => id <= tb.id_seq[t]
         /\ \A id \in Ids : Visible(tb, t, id) => Exists(tb, t, id)
         /\ \A r \in tb.history_tags[t] \cup tb.history_members[t] :
                r.version <= tb.current[t][r.id].version
         /\ IsFiniteSet(tb.history[t])

\* What other uploads left is in order.
ASSUME ScenariosAssumption ==
    \A s \in Scenarios :
        /\ s.tables \in Tables
        /\ Regular(s.tables)
        /\ RefsVisible(s.tables) /\ RelationRefsVisible(s.tables)
        /\ \A t \in Types, id \in Ids : HistoryMatches(s.tables, t, id)
        /\ \A e \in s.elements :
             /\ e \in Element
             /\ e.old_id > 0 => e.id = e.old_id
             /\ e.type = "Way" => \A k \in DOMAIN e.members : e.members[k].type = "Node"
        /\ s.max_elements \in Nat /\ s.max_uploads \in Nat
        /\ s.rate_limit \in Nat /\ s.bbox_size_limit \in Nat

Init ==
    /\ scenario \in Scenarios
    /\ db = scenario.tables
    /\ tx = scenario.tables
    /\ cs = changeset_insert_cs(0)
    /\ ct = NoTracking
    /\ buffer = EmptyBuffer
    /\ create_placeholder_ids = [t \in Types |-> {}]
    /\ m_bbox = [t \in Types |-> undefined_bbox]
    /\ packages = <<>>
    /\ package = 1
    /\ current_state = "st_initial"
    /\ todo = <<>>
    /\ pending = EndOfDocument
    /\ phase = "idle"
    /\ response = [code |-> OK, diffresult |-> <<>>]
    /\ uploads = 0

(***************************************************************************)
(* The request begins: BEGIN and lock_current_changeset(true).  That the   *)
(* changeset is open, belongs to the user and is not locked by another     *)
(* request is the subject of module ChangesetLifecycle.                    *)
(***************************************************************************)
begin_upload ==
    /\ phase = "idle"
    /\ uploads < scenario.max_uploads
    /\ uploads' = uploads + 1
    /\ \/ /\ max_elements_reached(cs)
          /\ response' = [code |-> conflict, diffresult |-> <<>>]
          /\ UNCHANGED phase
       \/ /\ ~max_elements_reached(cs)
          /\ phase' = "reading"
          /\ UNCHANGED response
    /\ UNCHANGED <<db, cs, tx, ct, buffer, create_placeholder_ids, m_bbox, packages,
                   package, current_state, todo, pending>>

(***************************************************************************)
(* The parser and OSMChange_Handler                                        *)
(***************************************************************************)
\* OSMObject::is_valid, called when the element ends: the id of a created
\* element is a placeholder.
IsPlaceholder(e) == e.op = "create" => e.old_id < 0

\* Way::is_valid: before that, a way needs a node.
HasNodes(e) == e.type = "Way" /\ e.op # "delete" => e.members # <<>>

is_valid(e) == Then(IF HasNodes(e) THEN OK ELSE precondition_failed,
                    IF IsPlaceholder(e) THEN OK ELSE bad_request)

check_osm_object(e) == IF e.same_changeset THEN OK ELSE conflict

\* The state an element puts the handler in (process_node, process_way and
\* process_relation).
process_node(op) ==
    CASE op = "create" -> "st_create_node" [] op = "modify" -> "st_modify"
      [] op = "delete" -> "st_delete_node"
process_way(op) ==
    CASE op = "create" -> "st_create_way" [] op = "modify" -> "st_modify"
      [] op = "delete" -> "st_delete_way"
process_relation(op) ==
    CASE op = "create" -> "st_create_relation" [] op = "modify" -> "st_modify"
      [] op = "delete" -> "st_delete_relation"

NewState(e) ==
    CASE e = EndOfDocument -> "st_finished"
      [] e # EndOfDocument /\ e.type = "Node" -> process_node(e.op)
      [] e # EndOfDocument /\ e.type = "Way" -> process_way(e.op)
      [] e # EndOfDocument /\ e.type = "Relation" -> process_relation(e.op)

Flush(op, t) == [op |-> op, type |-> t]

\* The process_* calls that empty the buffers of a state.
flush_calls(state) ==
    CASE state = "st_create_node" -> <<Flush("create", "Node")>>
      [] state = "st_create_way" -> <<Flush("create", "Way")>>
      [] state = "st_create_relation" -> <<Flush("create", "Relation")>>
      [] state = "st_modify" -> <<Flush("modify", "Node"), Flush("modify", "Way"),
                                  Flush("modify", "Relation")>>
      [] state = "st_delete_node" -> <<Flush("delete", "Node")>>
      [] state = "st_delete_way" -> <<Flush("delete", "Way")>>
      [] state = "st_delete_relation" -> <<Flush("delete", "Relation")>>
      [] state \in {"st_initial", "st_finished"} -> <<>>

\* handle_new_state, up to the calls it makes.
handle_new_state(e) ==
    /\ todo' = IF NewState(e) = current_state THEN <<>> ELSE flush_calls(current_state)
    /\ pending' = e
    /\ phase' = "flushing"
    /\ UNCHANGED <<db, cs, tx, ct, buffer, create_placeholder_ids, m_bbox, packages,
                   package, current_state, response, uploads>>

\* The id sequences of the model are finite.
HasId(e) ==
    e.op = "create" => tx.id_seq[e.type] + Len(buffer["create"][e.type]) < MaxId

process_element(e) ==
    LET error == Then(is_valid(e), check_osm_object(e))
    IN
    /\ phase = "reading"
    /\ Len(ct.orig_sequence) < scenario.max_elements
    /\ HasId(e)
    /\ \/ /\ error # OK
          /\ Throw(error)
       \/ /\ error = OK
          /\ handle_new_state(e)

end_document ==
    /\ phase = "reading"
    /\ handle_new_state(EndOfDocument)

\* add_*, modify_* or delete_*: what an updater buffers.
Buffered(e) ==
    CASE e.op = "create" /\ e.type = "Node" -> add_node(e)
      [] e.op = "modify" /\ e.type = "Node" -> modify_node(e)
      [] e.op = "delete" /\ e.type = "Node" -> delete_node(e)
      [] e.op = "create" /\ e.type = "Way" -> add_way(e)
      [] e.op = "modify" /\ e.type = "Way" -> modify_way(e)
      [] e.op = "delete" /\ e.type = "Way" -> delete_way(e)
      [] e.op = "create" /\ e.type = "Relation" -> add_relation(e)
      [] e.op = "modify" /\ e.type = "Relation" -> modify_relation(e)
      [] e.op = "delete" /\ e.type = "Relation" -> delete_relation(e)

\* The buffers are flushed: the transition is completed, and the element
\* that caused it goes to its buffer.
complete_transition ==
    /\ phase = "flushing"
    /\ todo = <<>>
    /\ \/ /\ pending # EndOfDocument
          /\ current_state' = NewState(pending)
          /\ buffer' = [buffer EXCEPT ![pending.op][pending.type] =
                            Append(@, Buffered(pending))]
          /\ ct' = [ct EXCEPT !.orig_sequence = Append(@, Buffered(pending))]
          /\ phase' = "reading"
          /\ UNCHANGED <<db, cs, tx, create_placeholder_ids, m_bbox, packages, package,
                         todo, pending, response, uploads>>
       \/ /\ pending = EndOfDocument
          /\ current_state' = NewState(pending)
          /\ phase' = "finishing"
          /\ UNCHANGED <<db, cs, tx, ct, buffer, create_placeholder_ids, m_bbox, packages,
                         package, todo, pending, response, uploads>>

\* The rest of the document is not well-formed.
parse_error ==
    /\ phase = "reading"
    /\ Throw(bad_request)

\* The database reports an error or the worker dies: no COMMIT is sent.
upload_fails ==
    /\ phase # "idle"
    /\ Throw(server_error)

(***************************************************************************)
(* The rest of changeset_upload_responder                                  *)
(***************************************************************************)
\* Mutant: the way updater is forgotten.
get_bbox_mutant == expand(expand(undefined_bbox, m_bbox["Node"]), m_bbox["Relation"])

get_bbox == expand(expand(expand(undefined_bbox, m_bbox["Node"]), m_bbox["Way"]),
                   m_bbox["Relation"])

rate_limit_check(num) == IF num > scenario.rate_limit THEN too_many_requests ELSE OK

update_changeset_check(num) == IF within_max_elements(cs, num) THEN OK ELSE conflict

\* Mutant: the box of this upload is checked, not that of the changeset.
bbox_size_check_mutant(b) ==
    IF get_bbox # undefined_bbox /\ linear_size(get_bbox) > scenario.bbox_size_limit
    THEN payload_too_large ELSE OK

bbox_size_check(b) ==
    IF b # undefined_bbox /\ linear_size(b) > scenario.bbox_size_limit
    THEN payload_too_large ELSE OK

finish_upload ==
    LET num == num_new_changes(ct)
        updated == update_changeset(cs, num, get_bbox, 0)
        error == Then(AllProcessed(ct),
                 Then(rate_limit_check(num),
                 Then(update_changeset_check(num),
                      bbox_size_check(updated.bbox))))
    IN
    /\ phase = "finishing"
    /\ \/ /\ error # OK
          /\ Throw(error)
       \/ /\ error = OK
          /\ db' = tx
          /\ cs' = updated
          /\ response' = [code |-> OK, diffresult |-> assemble_diffresult(ct)]
          /\ phase' = "idle"
          /\ FreshSession
          /\ UNCHANGED <<tx, uploads>>

\* Nothing more is asked of the server.
no_more_requests ==
    /\ phase = "idle"
    /\ uploads = scenario.max_uploads
    /\ UNCHANGED vars

Process ==
    \/ process_new_nodes
    \/ process_modify_nodes
    \/ process_modify_nodes_package
    \/ process_delete_nodes
    \/ process_new_ways
    \/ process_modify_ways
    \/ process_modify_ways_package
    \/ process_delete_ways
    \/ process_new_relations
    \/ process_modify_relations
    \/ process_modify_relations_package
    \/ process_delete_relations

Serve ==
    /\ \/ \E e \in scenario.elements : process_element(e)
       \/ end_document
       \/ complete_transition
       \/ Process
       \/ finish_upload
    /\ UNCHANGED scenario

Next ==
    \/ Serve
    \/ /\ begin_upload \/ parse_error \/ upload_fails \/ no_more_requests
       /\ UNCHANGED scenario

Spec == Init /\ [][Next]_upload_vars

(***************************************************************************)
(* Properties                                                              *)
(***************************************************************************)
TypeOK ==
    /\ db \in Tables
    /\ cs \in Changeset
    /\ tx \in Tables
    /\ ct.orig_sequence \in Seq(Element)
    /\ \A f \in {"created", "modified", "deleted", "skip_deleted"} :
           ct[f] \in [Types -> SUBSET Mapping]
    /\ buffer \in [Ops -> [Types -> Seq(Element)]]
    /\ create_placeholder_ids \in [Types -> SUBSET Placeholders]
    /\ m_bbox \in [Types -> bbox_t]
    /\ \A k \in DOMAIN packages : \A i \in DOMAIN packages[k] : packages[k][i] \in Resolved
    /\ package \in Nat
    /\ current_state \in States
    /\ todo \in Seq(Call)
    /\ pending \in scenario.elements \cup {EndOfDocument}
    /\ phase \in {"idle", "reading", "flushing", "finishing"}
    /\ response.diffresult \in Seq(DiffResult)
    /\ uploads \in 0..scenario.max_uploads

\* The nodes of every way, and the node and way members of every relation,
\* are visible in the committed database: lock_future_* before an insert and
\* is_*_still_referenced before a delete, however a document (or several)
\* creates, modifies, deletes and undeletes them.
MembersVisible == RefsVisible(db)

\* The same for relations that are members of relations.
RelationMembersVisible == RelationRefsVisible(db)

\* The history of every element has each version from 1 to the current one
\* exactly once, the last equals the current row with its tags and members,
\* and a deleted element has neither tags nor members (save_current_*_to_history
\* after each write).
HistoryComplete == \A t \in Types, id \in Ids : HistoryMatches(db, t, id)

\* The rows this changeset has added to the history.
NewHistory(t) == db.history[t] \ scenario.tables.history[t]

\* num_changes counts exactly the element versions the changeset has written,
\* over all its uploads, and never exceeds the limit.
NumChangesExact ==
    /\ cs.num_changes = Cardinality(NewHistory("Node")) + Cardinality(NewHistory("Way"))
                            + Cardinality(NewHistory("Relation"))
    /\ cs.num_changes <= changeset_max_elements

\* An upload that is committed wrote no more element versions than the user's
\* rate limit allows, and the box of the changeset, the one earlier uploads
\* gave it included, stays within the size limit.
LimitsRespected ==
    [][phase = "finishing" /\ cs' # cs =>
        /\ Cardinality(db'.history["Node"]) + Cardinality(db'.history["Way"])
               + Cardinality(db'.history["Relation"])
           <= Cardinality(db.history["Node"]) + Cardinality(db.history["Way"])
                + Cardinality(db.history["Relation"]) + scenario.rate_limit
        /\ cs'.bbox # undefined_bbox => linear_size(cs'.bbox) <= scenario.bbox_size_limit]_vars

(***************************************************************************)
(* The bounding box of the changeset                                       *)
(***************************************************************************)
NodeAt(id) == db.current["Node"][id].loc

\* The changeset's box covers both the old and the new place of every node it
\* has written, and the nodes of every way it has written, the ones of the
\* version before included.
BoxCoversNodesAndWays ==
    /\ \A h \in NewHistory("Node") : \A g \in db.history["Node"] :
           g.id = h.id /\ g.version \in {h.version - 1, h.version} => Covers(cs.bbox, g.loc)
    /\ \A h \in NewHistory("Way") : \A m \in db.history_members["Way"] :
           m.id = h.id /\ m.version \in {h.version - 1, h.version}
               => Covers(cs.bbox, NodeAt(m.ref))

\* Whether a node or way member of a relation lies in the box.
MemberCovered(m) ==
    CASE m.type = "Node" -> Covers(cs.bbox, NodeAt(m.ref))
      [] m.type = "Way" -> \A w \in db.members["Way"] :
                               w.id = m.ref => Covers(cs.bbox, NodeAt(w.ref))
      [] m.type = "Relation" -> TRUE

\* The members a version of a relation has and another one does not have.
MemberChange(id, v, u) ==
    LET Refs(x) == {[type |-> m.type, ref |-> m.ref] : m \in MembersAt(db, "Relation", id, x)}
    IN  Refs(v) \ Refs(u)

\* "Adding ... nodes or ways [to] a relation causes them to be added to the
\* changeset bounding box": the members a version adds are covered, and all
\* members when a relation is created, deleted, or gets a new relation member.
BoxCoversAddedMembers ==
    \A h \in NewHistory("Relation") :
        LET added == MemberChange(h.id, h.version, h.version - 1)
            all == MemberChange(h.id, h.version, 0)
        IN  /\ \A m \in added : MemberCovered(m)
            /\ (\E m \in added : m.type = "Relation") => \A m \in all : MemberCovered(m)
            /\ ~h.visible => \A m \in MemberChange(h.id, h.version - 1, 0) : MemberCovered(m)

\* "... or removing nodes or ways from a relation causes them to be added to
\* the changeset bounding box": the members a version no longer has are
\* covered.  relations_with_changed_way_node_members does not find them when
\* no node or way is left; the next property leaves that case out.
RemovedCovered(h) == \A m \in MemberChange(h.id, h.version - 1, h.version) : MemberCovered(m)
BoxCoversRemovedMembers == \A h \in NewHistory("Relation") : RemovedCovered(h)

\* The members that a relation loses while it keeps or gets other nodes or ways
\* are covered, whatever else the upload has changed about them.
BoxCoversReplacedMembers ==
    \A h \in NewHistory("Relation") :
        (\E m \in MemberChange(h.id, h.version, 0) : m.type \in {"Node", "Way"})
            => RemovedCovered(h)

(***************************************************************************)
(* What a commit does                                                      *)
(***************************************************************************)
Commits == phase = "finishing" /\ phase' = "idle" /\ response'.code = OK

Written(t) == db'.history[t] \ db.history[t]

\* The version that entry r of the diffResult names was written by this
\* upload, and is what element e of the document asked for.
WrittenAs(e, r) ==
    /\ [id |-> r.new_id, version |-> r.new_version, visible |-> TRUE, loc |-> e.loc]
           \in Written(e.type)
    /\ TagsAt(db', e.type, r.new_id, r.new_version) = e.tags
    /\ MembersAt(db', e.type, r.new_id, r.new_version) =
           {[seq |-> k, type |-> e.members[k].type,
             ref |-> Resolve(ct.created, e.members[k].type, e.members[k].ref)] :
                k \in DOMAIN e.members}

\* The diffResult of a committed upload: the i-th entry tells what became of
\* the i-th element of the document.  A created or modified element is stored
\* as the document says, under the id and version reported, no two entries
\* share a version, and every visible version written is reported; a delete
\* that is not reported as skipped has been executed.
DiffResultTruthful ==
    [][Commits =>
        LET doc == ct.orig_sequence
            result == response'.diffresult
            Stores(i) == doc[i].op \in {"create", "modify"}
        IN  /\ DOMAIN result = DOMAIN doc
            /\ \A i \in DOMAIN doc :
                 /\ result[i].op = doc[i].op /\ result[i].old_id = doc[i].old_id
                 /\ Stores(i) => WrittenAs(doc[i], result[i])
                 /\ ~Stores(i) /\ ~result[i].deletion_skipped =>
                        \E h \in Written(doc[i].type) :
                            /\ ~h.visible
                            /\ h.id = Resolve(ct.created, doc[i].type, doc[i].old_id)
            /\ \A t \in Types : \A h \in Written(t) :
                   h.visible => \E i \in DOMAIN doc :
                       /\ Stores(i) /\ doc[i].type = t
                       /\ result[i].new_id = h.id /\ result[i].new_version = h.version
            /\ \A i, j \in DOMAIN doc :
                   /\ Stores(i) /\ Stores(j) /\ doc[i].type = doc[j].type
                   /\ result[i].new_id = result[j].new_id
                   /\ result[i].new_version = result[j].new_version
                   => i = j]_vars

\* What was committed stays: a step never changes or removes a row of the
\* history, never takes back a version, and changes the committed tables only
\* together with a response of 200.
HistoryAppendOnly ==
    [][/\ db' # db => response'.code = OK
       /\ \A t \in Types :
              /\ db.history[t] \subseteq db'.history[t]
              /\ db.history_tags[t] \subseteq db'.history_tags[t]
              /\ db.history_members[t] \subseteq db'.history_members[t]
              /\ \A h \in Written(t) : h.version > db.current[t][h.id].version
              /\ \A r \in db'.history_tags[t] \ db.history_tags[t] :
                     r.version > db.current[t][r.id].version]_vars

=============================================================================
