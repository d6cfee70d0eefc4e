------------------------------ MODULE Requests -------------------------------
(***************************************************************************)
(* One worker answers requests, one after the other: process_request.cpp,  *)
(* request.cpp, fcgi_request.cpp, routes.cpp, and the responders' answers. *)
(* What the database says is a choice of outcomes; the modules of the read *)
(* calls and of the uploads have the details.  The head of an answer goes  *)
(* out before its body is written, so from there on an error can only be   *)
(* told in the body.                                                       *)
(***************************************************************************)
EXTENDS Naturals, Sequences, FiniteSets, Router, Negotiation, OutputDocuments

CONSTANTS
    Requests,  \* requests that come in, see RequestType
    Editions   \* element editions a changeset download may find

ResourceTypes == {"unspecified_type", "application_xml", "application_json"}

RequestType ==
    [method: Methods,
     path: Seq(STRING),     \* without its suffix
     suffix: ResourceTypes,      \* resource_mime_type
     complete: BOOLEAN,     \* REMOTE_ADDR, REQUEST_METHOD and REQUEST_URI are set
     accept: Seq(AcceptItem), accept_encoding: Seq(EncodingItem),
     error_format: {"", "xml"},
     preflight: BOOLEAN]    \* Origin and Access-Control-Request-Method are set

ASSUME RequestsAssumption == Requests \subseteq RequestType

VARIABLES
    pc,               \* where the worker is in process_request
    request,          \* the request as it came in
    handler,          \* the handler the route gave
    m_workflow_status,
    m_success_headers,\* TRUE when Content-Disposition waits for success
    head,             \* status line and headers that were sent, or NoHead
    db,               \* "unchanged" or "committed" by this request
    write_calls,      \* formatter calls still to be made
    writer,           \* the document so far
    fetched,          \* editions in the sorting formatter
    query_failed,     \* a query failed while the body was written
    charged,          \* the rate limiter was told of the answer
    client            \* "there", "gone" or, when a write failed, "broken"

vars == <<pc, request, handler, m_workflow_status, m_success_headers, head, db,
          write_calls, writer, fetched, query_failed, charged, client>>
body == <<write_calls, writer, fetched, query_failed, charged, client>>

status_NONE == 0
status_HEADERS == 1
status_BODY == 2
status_FINISHED == 3

NoHead == [status |-> 0, code |-> 0, type |-> "", encoding |-> "", attachment |-> FALSE]
NoCalls == Responder(<<>>, <<>>, <<>>)
NoRequest == [method |-> "other"]

\* request::reset, as the request object is used again.
reset ==
    /\ m_workflow_status' = status_NONE
    /\ m_success_headers' = FALSE

\* Nothing else of a request outlives it.
NothingLeft ==
    /\ head' = NoHead
    /\ db' = "unchanged"
    /\ handler' = ""
    /\ write_calls' = NoCalls
    /\ writer' = NewWriter("text_plain")
    /\ fetched' = {}
    /\ query_failed' = FALSE
    /\ charged' = FALSE
    /\ client' = "there"

Init ==
    /\ pc = "accept"
    /\ request = NoRequest
    /\ m_workflow_status = status_NONE
    /\ m_success_headers = FALSE
    /\ head = NoHead
    /\ db = "unchanged"
    /\ handler = ""
    /\ write_calls = NoCalls
    /\ writer = NewWriter("text_plain")
    /\ fetched = {}
    /\ query_failed = FALSE
    /\ charged = FALSE
    /\ client = "there"

-----------------------------------------------------------------------------
(* The workflow of a request and the answers that report an error. *)

\* Mutant: the workflow may move backwards.
may_enter_mutant(stage) == TRUE

\* check_workflow throws when the workflow is more advanced already.
may_enter(stage) == m_workflow_status <= stage

\* The head goes out when the body is entered; the headers that were waiting
\* for success are added when the status is 200.
SendHead(status, code, type, encoding) ==
    head' = [status |-> status, code |-> code, type |-> type, encoding |-> encoding,
             attachment |-> m_success_headers /\ status = 200]

\* respond_404, respond_401, response_415, process_not_allowed, respond_error:
\* the answer is sent, or the workflow is too far and the worker ends.
ErrorAnswer(code) ==
    IF code \notin {401, 404, 405, 415} /\ request.error_format = "xml"
    THEN SendHead(200, code, "application_xml", "")
    ELSE SendHead(code, code, "text_plain", "")

Respond(code, next) ==
    /\ IF may_enter(status_HEADERS)
       THEN ErrorAnswer(code) /\ m_workflow_status' = status_FINISHED /\ pc' = next
       ELSE UNCHANGED <<head, m_workflow_status>> /\ pc' = "dead"
    /\ UNCHANGED <<request, handler, m_success_headers, body>>

\* An http::exception is answered; any other exception is answered with a 500
\* and ends the worker.
Throw(code) == Respond(code, "done") /\ UNCHANGED db
ThrowOther == Respond(500, "dead") /\ UNCHANGED db

Continue(next) ==
    /\ pc' = next
    /\ UNCHANGED <<request, m_workflow_status, head, body>>

-----------------------------------------------------------------------------
(* Before the handler. *)

Accept ==
    /\ pc = "accept"
    /\ request' \in Requests
    /\ reset
    /\ pc' = "route"
    /\ UNCHANGED <<head, db, handler, body>>

\* routes::operator(), with the query string read by the handler's constructor.
Route ==
    LET result == match(request.method, request.path)
    IN  /\ pc = "route"
        /\ \/ ~request.complete /\ Throw(500)
           \/ /\ request.complete
              /\ constructor_may_throw(request.method, request.path)
              /\ Throw(400)
           \/ request.complete /\ result = "not_found" /\ Throw(404)
           \/ request.complete /\ result = "method_not_allowed" /\ Throw(405)
           \/ /\ request.complete
              /\ result \notin {"not_found", "method_not_allowed"}
              /\ handler' = result
              /\ m_success_headers' = (result = "map")
              /\ Continue("authenticate")
              /\ UNCHANGED db

\* A connection or a query that fails is an exception of pqxx.
DatabaseFails(at) == pc = at /\ ThrowOther

Authenticate ==
    /\ pc = "authenticate"
    /\ \/ Throw(401) \* invalid, expired or revoked token
       \/ Continue("limit") /\ UNCHANGED <<handler, m_success_headers, db>>

CheckLimit ==
    /\ pc = "limit"
    /\ \/ request.method # "OPTIONS" /\ Throw(509)
       \/ /\ Continue(CASE request.method \in {"GET", "HEAD"} -> "select"
                        [] request.method \in {"POST", "PUT"} -> "permission"
                        [] request.method = "OPTIONS" -> "options")
          /\ UNCHANGED <<handler, m_success_headers, db>>

Options ==
    /\ pc = "options"
    /\ IF request.preflight
       THEN /\ SendHead(200, 200, "text_plain", "")
            /\ m_workflow_status' = status_FINISHED
            /\ pc' = "done"
            /\ UNCHANGED <<request, handler, m_success_headers, db, body>>
       ELSE Throw(405)

-----------------------------------------------------------------------------
(* The handler's responder. *)

ElementHandlers == {"node", "way", "relation"}
FullHandlers == {"way_full", "relation_full"}
Referring == {"node_ways", "node_relations", "way_relations", "relation_relations"}

\* What the constructors of the responders throw.
refusals ==
    CASE handler \in ElementHandlers \cup FullHandlers -> {404, 410}
      [] handler = "map" -> {400}
      [] handler \in Referring -> {}
      [] OTHER -> {404}

Select ==
    /\ pc = "select"
    /\ \/ \E code \in refusals : Throw(code)
       \/ Continue("negotiate") /\ UNCHANGED <<handler, m_success_headers, db>>

\* validate_user_db_update_permission, and whether there is an update backend
CheckPermission ==
    /\ pc = "permission"
    /\ \/ \E code \in {400, 401, 403} : Throw(code)
       \/ Continue("payload") /\ UNCHANGED <<handler, m_success_headers, db>>

\* get_payload, then the read only mode of the database
GetPayload ==
    /\ pc = "payload"
    /\ \/ \E code \in {400, 413, 415, 500} : Throw(code)
       \/ Continue("update") /\ UNCHANGED <<handler, m_success_headers, db>>

update_refusals ==
    CASE handler = "changeset_upload" -> {400, 404, 409, 410, 412, 413, 429}
      [] handler = "changeset_create" -> {400, 429}
      [] OTHER -> {400, 404, 409}

\* Mutant: the transaction is committed before the limits are checked.
Refused_mutant(code) ==
    /\ pc = "update"
    /\ Respond(code, "done")
    /\ db' = IF code \in {413, 429} THEN "committed" ELSE db

\* A refusal leaves the transaction without a commit.
Refused(code) == pc = "update" /\ Throw(code)

\* The constructor of the responder: the payload is applied, then committed.
\* An upload to a path ending in .json is not parsed.
Update ==
    \/ \E code \in update_refusals : Refused(code)
    \/ /\ pc = "update"
       /\ db' = IF handler = "changeset_upload" /\ request.suffix = "application_json"
                THEN "unchanged" ELSE "committed"
       /\ Continue(IF handler = "changeset_update" THEN "read_back" ELSE "negotiate")
       /\ UNCHANGED <<handler, m_success_headers>>

\* requires_selection_after_update: a new transaction and a selection
ReadBack ==
    /\ pc = "read_back"
    /\ Continue("negotiate")
    /\ UNCHANGED <<handler, m_success_headers, db>>

-----------------------------------------------------------------------------
(* generate_response and process_head_request. *)

types_available ==
    CASE handler \in {"changeset_create", "changeset_close"} -> <<"text_plain">>
      [] handler = "changeset_download" -> <<"application_xml">>
      [] OTHER -> <<"application_xml", "application_json">>

responder ==
    CASE handler = "map" -> osm_current_responder(TRUE)
      [] handler = "changeset" -> osm_changeset_responder
      [] handler = "changeset_download" -> osmchange_responder
      [] handler = "changeset_upload" -> osm_diffresult_responder
      [] handler \in {"changeset_create", "changeset_close"} ->
            text_responder(handler = "changeset_close")
      [] OTHER -> osm_current_responder(FALSE)

Negotiate ==
    LET encoding == choose_encoding(request.accept_encoding)
        type == choose_best_mime_type(request.accept, types_available, request.suffix)
    IN  /\ pc = "negotiate"
        /\ \/ encoding = "std_exception" /\ ThrowOther
           \/ encoding = "not_acceptable" /\ Throw(406)
           \/ encoding \in Encodings /\ type = "bad_request" /\ Throw(400)
           \/ encoding \in Encodings /\ type = "not_acceptable" /\ Throw(406)
           \/ /\ encoding \in Encodings
              /\ type \in MimeTypes
              /\ SendHead(200, 200, type, encoding)
              /\ UNCHANGED <<request, handler, m_success_headers, db, fetched, query_failed, charged, client>>
              /\ IF request.method = "HEAD"
                 THEN /\ m_workflow_status' = status_FINISHED
                      /\ pc' = "done"
                      /\ UNCHANGED <<write_calls, writer>>
                 ELSE /\ m_workflow_status' = status_BODY
                      /\ pc' = "write"
                      /\ write_calls' = responder
                      /\ writer' = NewWriter(type)

\* The output buffer or the writer cannot be set up: an exception after the
\* head has been sent.
NoWriter ==
    /\ pc = "write"
    /\ write_calls = responder
    /\ ThrowOther

-----------------------------------------------------------------------------
(* responder::write: one step per formatter call. *)

answer == <<pc, request, handler, m_workflow_status, m_success_headers, head, db, charged>>

\* Where the next call is.
stage == IF write_calls.outside # <<>> THEN "outside" ELSE IF write_calls.try # <<>> THEN "try" ELSE "rest"

CallsLeft == write_calls # NoCalls
next_call == Head(write_calls[stage])
Made == [write_calls EXCEPT ![stage] = Tail(@)]

\* The catch block: what is left of the try block is given up.
Caught == [outside |-> <<Plain("error")>>, try |-> <<>>, rest |-> write_calls.rest]

\* A write fails once the client is gone, if the data reaches the socket and
\* the encoder passes the failure on; from then on all writes fail.
WriteMayFail == client # "there" /\ head.encoding = "identity" /\ head.type # "text_plain"

\* A call that only writes.
WriteCall ==
    /\ pc = "write"
    /\ CallsLeft
    /\ next_call.op \notin {"fetch", "sorted"}
    /\ client # "broken"
    /\ writer' = written(head.type, writer, next_call)
    /\ write_calls' = Made
    /\ UNCHANGED <<answer, fetched, query_failed, client>>

\* What a call writes while it goes through the rows of a query, or through
\* m_diffresult, which is empty for an upload that was not parsed.  After an
\* update of a changeset no element is selected.
RowsOf(call) ==
    CASE call.op = "fetch" ->
           IF handler \in {"changeset", "changeset_download", "changeset_update"} THEN {}
           ELSE {Call("write", call.name)}
      [] call.op = "items" /\ request.suffix # "application_json" ->
           {Call("write_diffresult", t) : t \in Range(ElementTypes)}
      [] OTHER -> {}

\* extract_nodes and so on: a row is written, and there may be more.
WriteRow ==
    /\ pc = "write"
    /\ CallsLeft
    /\ client # "broken"
    /\ \E row \in RowsOf(next_call) : writer' = written(head.type, writer, row)
    /\ UNCHANGED <<answer, write_calls, fetched, query_failed, client>>

\* sel.write_nodes and so on returns.  A changeset is there once, as it was
\* selected; the editions of a download are in the sorting formatter.
Fetch ==
    /\ pc = "write"
    /\ CallsLeft
    /\ next_call.op = "fetch"
    /\ client # "broken"
    /\ writer' = IF handler = "changeset" THEN written(head.type, writer, Call("write", "changeset"))
                 ELSE writer
    /\ IF handler = "changeset_download"
       THEN \E found_editions \in SUBSET {e \in Editions : e.type = next_call.name} :
              fetched' = fetched \cup found_editions
       ELSE fetched' = fetched
    /\ write_calls' = Made
    /\ UNCHANGED <<answer, query_failed, client>>

\* The query fails, perhaps after some rows.  Without a selection there is none.
FetchFails ==
    /\ pc = "write"
    /\ CallsLeft
    /\ next_call.op = "fetch"
    /\ handler # "changeset_update"
    /\ client # "broken"
    /\ write_calls' = Caught
    /\ query_failed' = TRUE
    /\ UNCHANGED <<answer, writer, fetched, client>>

\* sorter.write: the editions in their order.
WriteSorted ==
    /\ pc = "write"
    /\ CallsLeft
    /\ next_call.op = "sorted"
    /\ client # "broken"
    /\ \/ \E e \in fetched :
            /\ \A other \in fetched \ {e} : element_less(e, other)
            /\ writer' = written_edition(head.type, writer, e)
            /\ fetched' = fetched \ {e}
            /\ write_calls' = write_calls
       \/ fetched = {} /\ write_calls' = Made /\ UNCHANGED <<writer, fetched>>
    /\ UNCHANGED <<answer, query_failed, client>>

\* The client goes away while the body is written.
ClientGone ==
    /\ pc = "write"
    /\ client = "there"
    /\ client' = "gone"
    /\ UNCHANGED <<answer, write_calls, writer, fetched, query_failed>>

\* A write_error in the try block is caught there and fmt.error is tried; it
\* leaves responder::write from anywhere else and ends the answer.
WriteFails ==
    /\ pc = "write"
    /\ CallsLeft
    /\ WriteMayFail
    /\ client' = "broken"
    /\ write_calls' = IF stage = "try" THEN Caught ELSE NoCalls
    /\ UNCHANGED <<answer, writer, fetched, query_failed>>

\* req.finish, which a write_error skips, the flushes, and the destructors of
\* formatter and writer.  The bytes of an answer in identity encoding include
\* its head.
Finish ==
    /\ pc = "write"
    /\ ~CallsLeft
    /\ m_workflow_status' = IF client = "broken" THEN m_workflow_status ELSE status_FINISHED
    /\ writer' = closed(head.type, writer)
    /\ charged' = (head.encoding = "identity" \/ writer.shown # {})
    /\ pc' = "done"
    /\ UNCHANGED <<request, handler, m_success_headers, head, db, write_calls, fetched, query_failed, client>>

\* process_request returns; FCGX_Accept_r finishes the answer.
Dispose ==
    /\ pc = "done"
    /\ pc' = "accept"
    /\ request' = NoRequest
    /\ NothingLeft
    /\ UNCHANGED <<m_workflow_status, m_success_headers>>

\* The daemon replaces a worker that ended.
Replaced ==
    /\ pc = "dead"
    /\ pc' = "accept"
    /\ request' = NoRequest
    /\ reset
    /\ NothingLeft

Process ==
    \/ Route \/ Authenticate \/ CheckLimit \/ Options \/ Select \/ CheckPermission \/ GetPayload
    \/ Update \/ ReadBack \/ Negotiate \/ NoWriter
    \/ \E at \in {"authenticate", "select", "permission", "payload", "update", "read_back"} : DatabaseFails(at)
Write == WriteCall \/ WriteRow \/ Fetch \/ FetchFails \/ WriteSorted \/ WriteFails \/ Finish

Next == Accept \/ Process \/ Write \/ ClientGone \/ Dispose \/ Replaced

Spec == Init /\ [][Next]_vars

-----------------------------------------------------------------------------
(* Properties *)

\* The request was answered, whether the client got all of it or not.
Finished == pc = "done" \/ (pc = "dead" /\ m_workflow_status = status_FINISHED)

IsWrite == request.method \in {"POST", "PUT"}

TypeOK ==
    /\ pc \in {"accept", "route", "authenticate", "limit", "options", "select", "permission",
               "payload", "update", "read_back", "negotiate", "write", "done", "dead"}
    /\ handler \in Handlers \cup {""}
    /\ m_workflow_status \in status_NONE..status_FINISHED
    /\ db \in {"unchanged", "committed"}
    /\ client \in {"there", "gone", "broken"}

\* A write that is refused leaves the database as it was, and one that is
\* answered with 200 is committed.  The commit comes before the answer is
\* negotiated (process_post_put_request), so 406, 500, and 400 for an Accept
\* header that cannot be parsed, say nothing about it.  An upload to a path
\* ending in .json is not parsed at all.
ErrorsUndone ==
    Finished /\ IsWrite =>
        /\ head.code \notin {200, 406, 500} /\ request.accept # <<>> => db = "unchanged"
        /\ head.code = 200 =>
             \/ db = "committed"
             \/ handler = "changeset_upload" /\ request.suffix = "application_json"

\* Whatever query fails while the body is written, and after whatever rows, a
\* client that stays gets a well-formed document of the type in the head, and
\* it shows an error exactly if there was one (osm_current_responder::write
\* and the other responders, the formatters and writers).
WellFormed ==
    Finished /\ head.code = 200 /\ request.method \in {"GET", "POST", "PUT"} /\ client = "there" =>
        /\ IsDocument(head.type, writer)
        /\ head.type # "text_plain" => ("error" \in writer.shown <=> query_failed)

\* Once the head of an answer is out nothing of it changes until the next
\* request is accepted: an exception that comes later, when respond_error is
\* too late, does not send a second one (request::check_workflow).
HeadOnce == [][head # NoHead => head' = head \/ pc \in {"done", "dead"}]_vars

\* An answer has a type that the responder offers, that of the path's suffix if
\* it has one, and one the Accept header names or its wildcard covers; no
\* offered type that is named is passed over for one of lower quality or one
\* that is not named (choose_best_mime_type).
AcceptableType ==
    LET accept == {request.accept[i] : i \in DOMAIN request.accept}
        named == {t \in MimeTypes : \E item \in accept : item.type = t}
        offered == {types_available[i] : i \in DOMAIN types_available}
        last_q(t) == LET at == {i \in DOMAIN request.accept : request.accept[i].type = t}
                     IN  request.accept[CHOOSE i \in at : \A j \in at : j <= i].q
    IN  Finished /\ head.code = 200 /\ request.method # "OPTIONS" =>
            /\ head.type \in offered
            /\ request.suffix \in {"unspecified_type", head.type}
            /\ head.type \in named \/ \E item \in accept : item.type = "any_type"
            /\ request.suffix = "unspecified_type" =>
                 \A t \in offered \cap named : head.type \in named /\ last_q(t) <= last_q(head.type)

\* The encoding of an answer is named, or covered by the wildcard, with a
\* quality above zero, and no other encoding always has a higher one
\* (choose_encoding).  An empty header counts as the wildcard, as in the code.
AcceptableEncoding ==
    LET items == Range(encodings(request.accept_encoding))
        given(e) == {item.q : item \in {x \in items : x.name \in {e, "*"} /\ x.q <= MaxQuality}}
        given_by_name(e) == {item.q : item \in {x \in items : x.name = e /\ x.q <= MaxQuality}}
    IN  Finished /\ head.code = 200 /\ request.method # "OPTIONS" =>
            /\ \E q \in given(head.encoding) : q > 0
            /\ \A e \in Encodings : given_by_name(e) # {} =>
                 \E q \in given(head.encoding), r \in given_by_name(e) : q >= r

\* The type and the encoding of an answer are what its request asked for.
AcceptableAnswer == AcceptableType /\ AcceptableEncoding

=============================================================================
