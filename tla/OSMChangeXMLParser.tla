------------------------- MODULE OSMChangeXMLParser -------------------------
(***************************************************************************)
(* OSMChangeXMLParser: from the tags of an osmChange document to calls of  *)
(* the change handler, one for each element that is created, modified or   *)
(* deleted.                                                                *)
(***************************************************************************)
EXTENDS SaxParser

CONSTANTS
    Word,                    \* osm_version_t holds 0..Word-1
    element_max_tags, way_max_nodes, relation_max_members

VARIABLES
    m_context,      \* the stack of contexts
    m_operation,
    m_if_unused,
    m_object,       \* m_node, m_way or m_relation
    calls,          \* calls of the handler
    doc             \* history: the elements of the document that are complete

osmChangeVars == <<m_context, m_operation, m_if_unused, m_object, calls, doc>>

NoObject == [type |-> "none"]
Blocks == {"create", "modify", "delete"}
Objects == {"node", "way", "relation"}
context == Last(m_context)

OSMChangeInit ==
    /\ m_context = <<"root">>
    /\ m_operation = "undefined"
    /\ m_if_unused = FALSE
    /\ m_object = NoObject
    /\ calls = <<>>
    /\ doc = <<>>

-----------------------------------------------------------------------------
(* Attributes. *)

\* set_id, set_changeset and set_version, when the attribute is there.
id_acceptable(v) == IsNumber(from_chars(v)) /\ v # 0
changeset_acceptable(v) == IsNumber(from_chars(v)) /\ v > 0
version_acceptable(v) == IsNumber(from_chars(v)) /\ v >= 0

\* m_version = version, from int64_t to uint32_t.
narrowed(v) == v % Word

\* init_object.  The version of a created element is overridden; those of
\* the others are tested after they have been narrowed.
init_object_ok(a) ==
    /\ a.id # missing /\ id_acceptable(a.id)
    /\ a.changeset # missing /\ changeset_acceptable(a.changeset)
    /\ a.version # missing => version_acceptable(a.version)
    /\ m_operation # "create" => a.version # missing /\ narrowed(a.version) >= 1

\* init_node: the coordinates may be missing, not out of range.
init_node_ok(a) == a.position # "invalid"

new_object(type, a) ==
    [type |-> type, id |-> a.id, changeset |-> a.changeset,
     version |-> IF m_operation = "create" THEN 0 ELSE narrowed(a.version),
     located |-> type = "node" /\ a.position = "valid",
     tags |-> <<>>, refs |-> <<>>]

\* The parser's and the object's add_tag.
TooLong == "more than 255 characters"
HasKey(o, k) == \E i \in DOMAIN o.tags : o.tags[i].k = k
add_tag_ok(o, a) ==
    /\ a.k \notin {missing, "", TooLong}
    /\ a.v \notin {missing, TooLong}
    /\ ~HasKey(o, a.k)

\* add_way_node, and a RelationMember with its type, ref and role.
nd_ok(a) == a.ref # missing /\ id_acceptable(a.ref)
member_ok(a) ==
    /\ a.type \in Objects
    /\ a.ref # missing /\ id_acceptable(a.ref)
    /\ a.role # TooLong

\* is_valid of OSMObject, Node, Way and Relation: what they throw, or what
\* is thrown because they return false.
too_many_tags(o) == Len(o.tags) > element_max_tags
placeholder_ok(o) == m_operation = "create" => o.id < 0
object_rejection(o) ==
    IF too_many_tags(o) \/ ~placeholder_ok(o) THEN bad_request ELSE "none"
node_rejection(o) ==
    IF m_operation # "delete" /\ ~o.located THEN bad_request ELSE object_rejection(o)
way_rejection(o) ==
    CASE m_operation # "delete" /\ o.refs = <<>> -> precondition_failed
      [] m_operation # "delete" /\ Len(o.refs) > way_max_nodes -> bad_request
      [] OTHER -> object_rejection(o)
relation_rejection(o) ==
    IF m_operation # "delete" /\ Len(o.refs) > relation_max_members THEN bad_request
    ELSE object_rejection(o)
Rejection(o) ==
    CASE o.type = "node" -> node_rejection(o)
      [] o.type = "way" -> way_rejection(o)
      [] o.type = "relation" -> relation_rejection(o)

-----------------------------------------------------------------------------
(* on_start_element *)

Push(c) == m_context' = Append(m_context, c)
Throw(e) ==
    /\ handle_exception(e)
    /\ UNCHANGED <<m_context, m_operation, m_if_unused, m_object, calls>>

start_in_root(e) ==
    /\ context = "root"
    /\ IF e = "osmChange"
       THEN /\ no_exception
            /\ Push("top")
            /\ calls' = Append(calls, [call |-> "start_document"])
            /\ UNCHANGED <<m_operation, m_if_unused, m_object>>
       ELSE Throw(bad_request)

\* The operation and if-unused are those of the block that begins.
start_in_top(e, a) ==
    /\ context = "top"
    /\ IF e \in Blocks
       THEN /\ no_exception
            /\ Push(e)
            /\ m_operation' = e
            /\ m_if_unused' = IF e = "delete" THEN a.if_unused # missing ELSE m_if_unused
            /\ UNCHANGED <<m_object, calls>>
       ELSE Throw(bad_request)

start_in_block(e, a) ==
    /\ context \in Blocks
    /\ IF e \in Objects /\ init_object_ok(a) /\ (e = "node" => init_node_ok(a))
       THEN /\ no_exception
            /\ Push(e)
            /\ m_object' = new_object(e, a)
            /\ UNCHANGED <<m_operation, m_if_unused, calls>>
       ELSE Throw(bad_request)

\* A child of a node, way or relation; elements that are not known are ignored.
Accepted(e, a) ==
    CASE e = "tag" -> add_tag_ok(m_object, a)
      [] e = "nd" /\ m_object.type = "way" -> nd_ok(a)
      [] e = "member" /\ m_object.type = "relation" -> member_ok(a)
      [] OTHER -> TRUE

Extended(e, a) ==
    CASE e = "tag" -> [m_object EXCEPT !.tags = Append(@, [k |-> a.k, v |-> a.v])]
      [] e = "nd" /\ m_object.type = "way" ->
            [m_object EXCEPT !.refs = Append(@, [type |-> "node", ref |-> a.ref])]
      [] e = "member" /\ m_object.type = "relation" ->
            [m_object EXCEPT !.refs = Append(@, [type |-> a.type, ref |-> a.ref])]
      [] OTHER -> m_object

start_in_object(e, a) ==
    /\ context \in Objects
    /\ Push("in_object")
    /\ IF Accepted(e, a)
       THEN no_exception /\ m_object' = Extended(e, a)
       ELSE handle_exception(bad_request) /\ UNCHANGED m_object
    /\ UNCHANGED <<m_operation, m_if_unused, calls>>

start_too_deep ==
    /\ context = "in_object"
    /\ Throw(bad_request)

on_start_element(e, a) ==
    \/ start_in_root(e)
    \/ start_in_top(e, a)
    \/ start_in_block(e, a)
    \/ start_in_object(e, a)
    \/ start_too_deep

-----------------------------------------------------------------------------
(* on_end_element *)

Pop == m_context' = Front(m_context)

\* The handler flushes what it has buffered, and may throw.
end_osmChange ==
    /\ context = "top"
    /\ no_exception \/ handle_exception("409 conflict")
    /\ Pop
    /\ m_operation' = "undefined"
    /\ calls' = Append(calls, [call |-> "end_document"])
    /\ UNCHANGED <<m_if_unused, m_object>>

end_block_mutant ==
    /\ context \in Blocks
    /\ no_exception
    /\ Pop
    /\ m_operation' = "undefined"
    /\ UNCHANGED <<m_if_unused, m_object, calls>>
end_block ==
    /\ context \in Blocks
    /\ no_exception
    /\ Pop
    /\ m_operation' = "undefined"
    /\ m_if_unused' = IF context = "delete" THEN FALSE ELSE m_if_unused
    /\ UNCHANGED <<m_object, calls>>

Call == [call |-> "process", object |-> m_object, op |-> m_operation, if_unused |-> m_if_unused]

\* The object is checked and handed over; the handler may throw in turn.
end_object ==
    /\ context \in Objects
    /\ IF Rejection(m_object) # "none"
       THEN Throw(Rejection(m_object))
       ELSE /\ calls' = Append(calls, Call)
            /\ \/ /\ no_exception
                  /\ Pop
                  /\ m_object' = NoObject
               \/ /\ handle_exception("409 conflict")
                  /\ UNCHANGED <<m_context, m_object>>
            /\ UNCHANGED <<m_operation, m_if_unused>>

end_child ==
    /\ context = "in_object"
    /\ no_exception
    /\ Pop
    /\ UNCHANGED <<m_operation, m_if_unused, m_object, calls>>

on_end_element == end_osmChange \/ end_block \/ end_object \/ end_child

-----------------------------------------------------------------------------
(* The document, as its reader would take it, without the parser's state:   *)
(* the elements are the grandchildren of the root; the block is their       *)
(* parent, their tags and members are their children.                       *)

\* The names of the children of an element that are its references.
References(name) == CASE name = "way" -> {"nd"} [] name = "relation" -> {"member"} [] OTHER -> {}

\* The element that has just begun, or the child of one that has; a tag that
\* is refused ends the reading.
ReadStart(e, a) ==
    doc' = CASE exception' # "none" -> doc
             [] exception' = "none" /\ Len(open) = 2 ->
                   Append(doc, [name |-> e, attrs |-> a, block |-> open[2],
                                tags |-> <<>>, refs |-> <<>>, complete |-> FALSE])
             [] exception' = "none" /\ Len(open) = 3 /\ e = "tag" ->
                   [doc EXCEPT ![Len(doc)].tags = Append(@, a)]
             [] exception' = "none" /\ Len(open) = 3 /\ e \in References(Last(doc).name) ->
                   [doc EXCEPT ![Len(doc)].refs = Append(@, a)]
             [] OTHER -> doc
ReadEnd ==
    doc' = IF Len(open) = 3 THEN [doc EXCEPT ![Len(doc)].complete = TRUE] ELSE doc

\* The object an element describes, and the call it asks for.
TagsOf(l) == [i \in DOMAIN l |-> [k |-> l[i].k, v |-> l[i].v]]
RefsOf(name, l) ==
    [i \in DOMAIN l |-> [type |-> IF name = "way" THEN "node" ELSE l[i].type, ref |-> l[i].ref]]
Described(d) ==
    [type |-> d.name, id |-> d.attrs.id, changeset |-> d.attrs.changeset,
     version |-> IF d.block.name = "create" THEN 0 ELSE d.attrs.version % Word,
     located |-> d.name = "node" /\ d.attrs.position = "valid",
     tags |-> TagsOf(d.tags), refs |-> RefsOf(d.name, d.refs)]
Meant(d) ==
    [call |-> "process", object |-> Described(d), op |-> d.block.name,
     if_unused |-> d.block.name = "delete" /\ d.block.attrs.if_unused # missing]

=============================================================================
