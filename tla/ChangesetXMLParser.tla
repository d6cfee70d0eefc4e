------------------------- MODULE ChangesetXMLParser -------------------------
(***************************************************************************)
(* ChangesetXMLParser: the tags of a changeset, from the body of a create  *)
(* or update request.  There is no stack: every end tag leads to the       *)
(* context that is expected to be around the current one, and a tag        *)
(* element's children do not have a context.                               *)
(***************************************************************************)
EXTENDS SaxParser

VARIABLES
    cs_context,  \* m_context
    m_tags, changeset_element_found,
    cs_doc       \* history: the tag elements of the document

changesetVars == <<cs_context, m_tags, changeset_element_found, cs_doc>>

ChangesetInit ==
    /\ cs_context = "root"
    /\ m_tags = <<>>
    /\ changeset_element_found = FALSE
    /\ cs_doc = <<>>

\* add_tag.  m_tags is in the order of the first appearance of the keys.
cs_too_long == "more than 255 characters"
cs_tag_ok(a) == a.k \notin {missing, "", cs_too_long} /\ a.v \notin {missing, cs_too_long}
cs_add_tag(a) ==
    m_tags' = IF \E i \in DOMAIN m_tags : m_tags[i].k = a.k
              THEN [i \in DOMAIN m_tags |->
                      IF m_tags[i].k = a.k THEN [m_tags[i] EXCEPT !.v = a.v] ELSE m_tags[i]]
              ELSE Append(m_tags, [k |-> a.k, v |-> a.v])

cs_throw(c) ==
    /\ handle_exception(bad_request)
    /\ cs_context' = c
    /\ UNCHANGED <<m_tags, changeset_element_found>>

cs_on_start_element(e, a) ==
    CASE cs_context = "root" /\ e = "osm" ->
            no_exception /\ cs_context' = "top" /\ UNCHANGED <<m_tags, changeset_element_found>>
      [] cs_context = "top" /\ e = "changeset" ->
            /\ no_exception
            /\ cs_context' = "in_changeset"
            /\ changeset_element_found' = TRUE
            /\ UNCHANGED m_tags
      [] cs_context = "in_changeset" /\ e = "tag" /\ cs_tag_ok(a) ->
            /\ no_exception
            /\ cs_context' = "in_tag"
            /\ cs_add_tag(a)
            /\ UNCHANGED changeset_element_found
      [] cs_context = "in_tag" ->
            no_exception /\ UNCHANGED <<cs_context, m_tags, changeset_element_found>>
      [] cs_context = "in_changeset" /\ e = "tag" /\ ~cs_tag_ok(a) -> cs_throw("in_tag")
      [] OTHER -> cs_throw(cs_context)

Around == [root |-> "root", top |-> "root", in_changeset |-> "top", in_tag |-> "in_changeset"]

cs_on_end_element ==
    /\ cs_context' = Around[cs_context]
    /\ IF cs_context = "top" /\ ~changeset_element_found
       THEN handle_exception(bad_request) ELSE no_exception
    /\ UNCHANGED <<m_tags, changeset_element_found>>

\* The reader's view: the tag elements that are children of osm/changeset.
cs_read_start(e, a) ==
    cs_doc' = IF Len(open) = 2 /\ e = "tag" THEN Append(cs_doc, [k |-> a.k, v |-> a.v])
              ELSE cs_doc

=============================================================================
