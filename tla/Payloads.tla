------------------------------ MODULE Payloads ------------------------------
(***************************************************************************)
(* The parsing of the body of a write request, by the parser its handler   *)
(* chooses: an osmChange document for an upload, the tags of a changeset   *)
(* for its creation and its update.                                        *)
(***************************************************************************)
EXTENDS OSMChangeXMLParser, ChangesetXMLParser

VARIABLES
    kind,   \* the parser
    nested  \* history: an element was nested in a tag element of a changeset

vars == <<saxVars, osmChangeVars, changesetVars, kind, nested>>

Init ==
    /\ SaxInit
    /\ OSMChangeInit
    /\ ChangesetInit
    /\ kind \in {"upload", "changeset"}
    /\ nested = FALSE

start_element(e, a) ==
    /\ start_tag(e, a)
    /\ \/ /\ kind = "upload"
          /\ on_start_element(e, a)
          /\ ReadStart(e, a)
          /\ UNCHANGED <<changesetVars, nested>>
       \/ /\ kind = "changeset"
          /\ cs_on_start_element(e, a)
          /\ cs_read_start(e, a)
          /\ nested' = (nested \/ Len(open) = 3)
          /\ UNCHANGED osmChangeVars
    /\ UNCHANGED kind

end_element ==
    /\ end_tag
    /\ \/ /\ kind = "upload"
          /\ on_end_element
          /\ ReadEnd
          /\ UNCHANGED changesetVars
       \/ /\ kind = "changeset"
          /\ cs_on_end_element
          /\ UNCHANGED <<osmChangeVars, cs_doc>>
    /\ UNCHANGED <<kind, nested>>

others == <<osmChangeVars, changesetVars, kind, nested>>
document_breaks == not_well_formed /\ UNCHANGED others
process_message_ends == parse_ends /\ UNCHANGED others

Next ==
    \/ \E e \in Names : \E a \in Attributes(e) : start_element(e, a)
    \/ end_element
    \/ document_breaks
    \/ process_message_ends

Spec == Init /\ [][Next]_vars

-----------------------------------------------------------------------------
(* Properties. *)

TypeOK ==
    /\ elements \in 0..MaxElements
    /\ {exception, first} \subseteq {"none", bad_request, precondition_failed, "409 conflict"}
    /\ stopped \in BOOLEAN
    /\ outcome \in {"parsing", "ok", bad_request, precondition_failed, "409 conflict"}
    /\ m_context # <<>>
    /\ m_operation \in Blocks \cup {"undefined"}
    /\ m_if_unused \in BOOLEAN
    /\ cs_context \in {"root", "top", "in_changeset", "in_tag"}

\* The handler is told of exactly the elements of the document, in their
\* order, each with the operation and the if-unused of the block around it
\* and with its own tags and members: nothing is carried over from an
\* element or a block before.  Its first call is start_document.
CallsAsInDocument ==
    kind = "upload" /\ exception = "none" =>
        /\ \A i \in DOMAIN doc :
               doc[i].complete => i + 1 \in DOMAIN calls /\ calls[i + 1] = Meant(doc[i])
        /\ \A i \in DOMAIN calls :
               calls[i].call = "process" => i - 1 \in DOMAIN doc /\ doc[i - 1].complete

\* The tags of a changeset document, each key with its last value.
TagsInDocument ==
    {cs_doc[j] : j \in {i \in DOMAIN cs_doc :
                          \A k \in DOMAIN cs_doc : k > i => cs_doc[k].k # cs_doc[i].k}}

\* A payload is accepted only when it is a complete document.  The handler
\* of an upload has been told of its end, once, and after everything else;
\* the changeset gets the tags of the document, the last value of each key
\* (unless an element is nested in a tag, which loses the parser its place).
AcceptedIsComplete ==
    outcome = "ok" =>
        /\ open = <<>>
        /\ kind = "upload" =>
              /\ \A i \in DOMAIN calls : (calls[i].call = "end_document") <=> (i = Len(calls))
              /\ \A i \in DOMAIN doc : doc[i].complete /\ calls[i + 1].call = "process"
              /\ Len(calls) = Len(doc) + 2
        /\ kind = "changeset" /\ ~nested =>
              /\ {m_tags[i] : i \in DOMAIN m_tags} = TagsInDocument
              /\ Len(m_tags) = Cardinality(TagsInDocument)

\* The answer tells the first problem, be it an exception of a callback or an
\* error in the document: no exception that a later callback would throw, and
\* no error in the rest of the document, takes its place (handle_exception,
\* check_for_exception).
FirstErrorReported ==
    outcome # "parsing" => outcome = IF first = "none" THEN "ok" ELSE first

=============================================================================
