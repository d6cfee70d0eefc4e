--------------------------- MODULE OutputDocuments ---------------------------
(***************************************************************************)
(* The documents the responders write: the formatter calls of each         *)
(* responder, what the XML, JSON and text formatters make of a call, and   *)
(* what the XML writer and the JSON generator do with it.  Of a document   *)
(* is kept how far a reader of it has come and which names it has shown;   *)
(* attributes and properties are left out but for one that names the       *)
(* object.                                                                 *)
(***************************************************************************)
EXTENDS Naturals, SequencesExt

ElementTypes == <<"node", "way", "relation">> \* in the order of element_type

Call(op, name) == [op |-> op, name |-> name]
Plain(op) == Call(op, "")

-----------------------------------------------------------------------------
(* responder::write as formatter calls.  "try" are the calls an exception  *)
(* of which is caught and answered with fmt.error, "outside" those that    *)
(* come before the try block and "rest" those that follow in any case.     *)
(* fetch is a query of data_selection that writes its rows.                *)

Responder(outside, try, rest) == [outside |-> outside, try |-> try, rest |-> rest]

osm_current_responder(bounds) ==
    Responder(<<>>,
              IF bounds
              THEN <<Call("start_document", "osm"), Plain("write_bounds"), Plain("start_element"),
                     Call("fetch", "node"), Call("fetch", "way"), Call("fetch", "relation")>>
              ELSE <<Call("start_document", "osm"), Plain("start_element"),
                     Call("fetch", "node"), Call("fetch", "way"), Call("fetch", "relation")>>,
              <<Plain("end_element"), Plain("end_document")>>)

\* The rows go to the sorting formatter; "sorted" writes them.
osmchange_responder ==
    Responder(<<Call("start_document", "osmChange")>>,
              <<Call("fetch", "node"), Call("fetch", "way"), Call("fetch", "relation"), Plain("sorted")>>,
              <<Plain("end_document")>>)

osm_changeset_responder ==
    Responder(<<>>,
              <<Call("start_document", "osm"), Plain("start_changeset"), Call("fetch", "changeset")>>,
              <<Plain("end_changeset"), Plain("end_document")>>)

\* "items" are the operations of m_diffresult.
osm_diffresult_responder ==
    Responder(<<>>,
              <<Call("start_document", "diffResult"), Plain("items")>>,
              <<Plain("end_document")>>)

\* The text is empty for a changeset that was closed.
text_responder(empty) == Responder(IF empty THEN <<>> ELSE <<Plain("error")>>, <<>>, <<>>)

\* sorting_formatter::write: an edition is [type, id, version, timestamp, visible].
element_less(a, b) ==
    LET rank(t) == CHOOSE i \in DOMAIN ElementTypes : ElementTypes[i] = t
        key(e) == <<e.timestamp, e.version, rank(e.type), e.id>>
    IN  \E i \in 1..4 :
          /\ key(a)[i] < key(b)[i]
          /\ \A j \in 1..(i - 1) : key(a)[j] = key(b)[j]

action_of(edition) ==
    IF edition.version = 1 THEN "create" ELSE IF edition.visible THEN "modify" ELSE "delete"

-----------------------------------------------------------------------------
(* Reference definitions: a reader of the document, who takes it token by  *)
(* token.  The state is what is open, <<"ended">> after the document, or   *)
(* Bad.                                                                    *)

Bad == <<"bad">>
Ended == <<"ended">>

\* One root element, and every element is closed by its own name.
XmlStep(stack, token) ==
    CASE token[1] = "open" /\ stack \notin {Bad, Ended} -> Append(stack, token[2])
      [] token[1] = "close" /\ stack \notin {<<>>, Bad, Ended} /\ Last(stack) = token[2] ->
            IF Len(stack) = 1 THEN Ended ELSE Front(stack)
      [] OTHER -> Bad

\* One value; objects alternate names and values.  The stack has what may
\* come next in each open object ("name", "member") and array ("item").
AfterValue(stack) ==
    IF stack = <<>> THEN Ended
    ELSE IF Last(stack) = "member" THEN Append(Front(stack), "name") ELSE stack
JsonStep(stack, token) ==
    LET value_may_come == stack = <<>> \/ Last(stack) \in {"member", "item"}
    IN  CASE token = "{" /\ value_may_come -> Append(stack, "name")
          [] token = "[" /\ value_may_come -> Append(stack, "item")
          [] token \in {"value", "string"} /\ value_may_come -> AfterValue(stack)
          [] token = "string" /\ ~value_may_come /\ Last(stack) = "name" -> Append(Front(stack), "member")
          [] token = "}" /\ stack # <<>> /\ Last(stack) = "name" -> AfterValue(Front(stack))
          [] token = "]" /\ stack # <<>> /\ Last(stack) = "item" -> AfterValue(Front(stack))
          [] OTHER -> Bad

-----------------------------------------------------------------------------
(* The writers: stack is what is open, the names of elements or the states *)
(* of yajl_gen; read is how far a reader has come, shown the names seen.   *)

NewWriter(type) ==
    [stack |-> IF type = "application_json" THEN <<"start">> ELSE <<>>, read |-> <<>>, shown |-> {}]

xml_start(w, name) ==
    [stack |-> Append(w.stack, name),
     read |-> XmlStep(w.read, <<"open", name>>),
     shown |-> w.shown \cup {name}]

xml_end(w) ==
    [stack |-> Front(w.stack), read |-> XmlStep(w.read, <<"close", Last(w.stack)>>), shown |-> w.shown]

\* yajl_gen: the state after a value, and the calls it refuses (the writer
\* ignores the result).  It does not look at what a close closes.
appended_atom(state) ==
    CASE state = "start" -> "complete"
      [] state = "map_key" -> "map_val"
      [] state = "map_val" -> "map_key"
      [] OTHER -> state

refuses(state, op) ==
    \/ state = "complete"
    \/ state = "map_key" /\ op \in {"start_object", "start_array", "entry"}

json_token(op) ==
    CASE op = "start_object" -> "{" [] op = "end_object" -> "}"
      [] op = "start_array" -> "[" [] op = "end_array" -> "]"
      [] op = "key" -> "string" [] op = "entry" -> "value"

json_writer(w, op, name) ==
    LET value_appended(stack) == Append(Front(stack), appended_atom(Last(stack)))
        stack ==
          CASE op = "start_object" -> Append(w.stack, "map_key")
            [] op = "start_array" -> Append(w.stack, "array")
            [] op \in {"end_object", "end_array"} -> value_appended(Front(w.stack))
            [] OTHER -> value_appended(w.stack)
    IN  IF refuses(Last(w.stack), op) THEN w
        ELSE [stack |-> stack, read |-> JsonStep(w.read, json_token(op)), shown |-> w.shown \cup {name}]

text_writer(w) == [w EXCEPT !.shown = w.shown \cup {"error"}]

-----------------------------------------------------------------------------
(* The formatters: what a call makes of the writer. *)

xml_element(w, name) == xml_end(xml_start(w, name))

xml_formatter(w, call) ==
    CASE call.op \in {"start_document", "start_action"} -> xml_start(w, call.name)
      [] call.op \in {"end_document", "end_action"} -> xml_end(w)
      [] call.op = "write_bounds" -> xml_element(w, "bounds")
      [] call.op = "error" -> xml_element(w, "error")
      [] call.op \in {"write", "write_diffresult"} -> xml_element(w, call.name)
      [] OTHER -> w \* start_element, end_element, start_changeset, end_changeset

property(w, name) == json_writer(json_writer(w, "key", name), "entry", "")
start_object(w) == json_writer(w, "start_object", "")
end_object(w) == json_writer(w, "end_object", "")
json_object(w, name) == end_object(property(start_object(w), name))

\* Mutant: the error object is left open.
json_error_mutant(w) == property(start_object(w), "error")

\* error(std::exception) and error(std::string)
json_error(w) == json_object(w, "error")

json_formatter(w, call) ==
    CASE call.op = "start_document" -> property(start_object(w), "version")
      [] call.op = "write_bounds" -> json_object(json_writer(w, "key", "bounds"), "minlat")
      [] call.op = "start_element" -> json_writer(json_writer(w, "key", "elements"), "start_array", "")
      [] call.op = "end_element" -> end_object(json_writer(w, "end_array", ""))
      [] call.op = "start_changeset" -> json_writer(w, "key", "changeset")
      [] call.op = "write" -> json_object(w, call.name)
      [] call.op = "error" -> json_error(w)
      [] call.op = "end_document" -> end_object(w)
      [] OTHER -> w \* end_changeset, actions and diffresults

text_formatter(w, call) == IF call.op = "error" THEN text_writer(w) ELSE w

\* The document after a formatter call.
written(type, w, call) ==
    CASE type = "application_xml" -> xml_formatter(w, call)
      [] type = "application_json" -> json_formatter(w, call)
      [] type = "text_plain" -> text_formatter(w, call)

\* The calls sorting_formatter::write makes for an edition.
written_edition(type, w, edition) ==
    LET started == written(type, w, Call("start_action", action_of(edition)))
    IN  written(type, written(type, started, Call("write", edition.type)),
                Call("end_action", action_of(edition)))

\* The destructor: xmlTextWriterEndDocument closes what is open.
closed(type, w) ==
    IF type = "application_xml" THEN FoldLeft(LAMBDA v, name : xml_end(v), w, w.stack) ELSE w

\* What was written is a document of its type; a text has no syntax.
IsDocument(type, w) == type # "text_plain" => w.read = Ended
=============================================================================
