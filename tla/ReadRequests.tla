---------------------------- MODULE ReadRequests ----------------------------
(***************************************************************************)
(* A worker that serves GET and HEAD requests of the read API, one after   *)
(* the other, while other workers commit uploads.                          *)
(*                                                                         *)
(* The constructor of a responder runs the queries that select elements;   *)
(* the responder then fetches the selected rows and writes them.  All of   *)
(* it happens in one read-only transaction, but pqxx::read_transaction is  *)
(* READ COMMITTED: every query sees what is committed when it runs, so an  *)
(* upload may commit between any two of them.  Every query is one action.  *)
(***************************************************************************)
EXTENDS DataSelection

CONSTANTS
    Requests,       \* the requests clients may send
    InitialDbs,     \* databases the server may find
    RefSets,        \* member lists of uploaded ways and relations
    OpenChangesets, \* the changesets of uploads
    map_max_nodes,
    MaxUpdates      \* bound on the commits of the other workers

ASSUME MapMaxNodesAssumption == map_max_nodes \in Nat \ {0}
ASSUME OpenChangesetsAssumption == OpenChangesets \subseteq Changesets
ASSUME MaxUpdatesAssumption == MaxUpdates \in Nat

\* What uploads and the moderators keep true of the database: members are
\* visible, deleted elements have none, and current versions are not redacted.
Sound(d) ==
    /\ d \in [Elements -> Seq(Row)]
    /\ \A e \in Elements : Exists(d, e) =>
          LET row == Current(d, e) IN
          /\ ~row.redacted
          /\ ~row.visible => row.refs = {}
          /\ \A m \in row.refs : Visible(d, m) /\ (e[1] = "Way" => m[1] = "Node")

ASSUME DatabasesAssumption == \A d \in InitialDbs : Sound(d)
ASSUME RefSetsAssumption == RefSets \subseteq SUBSET Elements

VARIABLES
    db,         \* the committed rows
    names,      \* the display name of the user of each changeset
    updates,    \* how many commits there have been
    req,        \* the request
    found,      \* the database when the request began (history variable)
    todo,       \* queries the responder has still to run
    sel,        \* the data_selection of the request
    rows,       \* rows fetched and not yet written
    out,        \* rows written to the client
    status,     \* HTTP status, 0 while the request is processed
    failed      \* the body of the answer ends with an error message

vars == <<db, names, updates, req, found, todo, sel, rows, out, status, failed>>
database == <<db, names, updates>>
request == <<req, found>>

OK == 200
bad_request == 400
unauthorized == 401
not_found == 404
gone == 410
server_error == 500

Kinds == {"element", "full", "ways", "relations", "multi", "version", "history",
          "map", "download"}
\* What the Authorization header amounts to: no usable bearer token, a token
\* that is refused, or one of a user, who may be a moderator.
Tokens == {"none", "unknown", "expired", "revoked", "user", "moderator"}
Request == [kind: Kinds, ids: SUBSET Elements, eds: SUBSET Editions,
            changeset: Nat, method: {"GET", "HEAD"},
            token: Tokens, show_redactions: BOOLEAN]

\* A request names finitely many elements.  The routes take one id, or one
\* edition, for these calls; nodes have no /full.
ASSUME RequestsAssumption ==
    \A r \in Requests :
        /\ r \in Request /\ IsFiniteSet(r.ids) /\ IsFiniteSet(r.eds)
        /\ r.kind \in {"element", "full", "ways", "relations", "history"}
              => r.eds = {} /\ \E e \in r.ids : r.ids = {e}
        /\ r.kind = "full" => \A e \in r.ids : e[1] # "Node"
        /\ r.kind = "version" => r.ids = {} /\ \E ed \in r.eds : r.eds = {ed}

the(S) == CHOOSE x \in S : TRUE
TypeOf(r) == the(r.ids \cup {ed[1] : ed \in r.eds})[1]

(***************************************************************************)
(* The queries of each responder, in order.                                *)
(***************************************************************************)
Writes == <<"write_nodes", "write_ways", "write_relations">>
TypeWritten == [write_nodes |-> "Node", write_ways |-> "Way", write_relations |-> "Relation"]

element_responder == <<"select", "check_visibility">>

way_full_responder == <<"select", "check_visibility", "nodes_from_way_nodes">>

relation_full_responder ==
    <<"select", "check_visibility", "nodes_from_relations", "ways_from_relations",
      "nodes_from_way_nodes", "members_of_relations">>

node_ways_responder == <<"select", "check_visibility", "ways_from_nodes", "drop">>

node_relations_responder == <<"select", "check_visibility", "relations_from_nodes", "drop">>

way_relations_responder == <<"select", "check_visibility", "relations_from_ways", "drop">>

relation_relations_responder == <<"select", "check_visibility", "parents_only">>

\* nodes, ways and relations, which take lists of ids with or without versions
list_responder == <<"select", "historical">>

version_responder == <<"historical">>

history_responder == <<"with_history">>

changeset_download_responder ==
    <<"changeset", "nodes_by_changeset", "ways_by_changeset", "relations_by_changeset">>

map_responder_mutant ==
    <<"nodes_from_bbox", "ways_from_nodes", "relations_from_ways", "relations_from_nodes",
      "relations_from_relations", "nodes_from_way_nodes">>

map_responder ==
    <<"nodes_from_bbox", "ways_from_nodes", "nodes_from_way_nodes", "relations_from_ways",
      "relations_from_nodes", "relations_from_relations">>

responder(r) ==
    CASE r.kind = "element" -> element_responder
      [] r.kind = "full" /\ TypeOf(r) = "Way" -> way_full_responder
      [] r.kind = "full" /\ TypeOf(r) = "Relation" -> relation_full_responder
      [] r.kind = "ways" -> node_ways_responder
      [] r.kind = "relations" /\ TypeOf(r) = "Node" -> node_relations_responder
      [] r.kind = "relations" /\ TypeOf(r) = "Way" -> way_relations_responder
      [] r.kind = "relations" /\ TypeOf(r) = "Relation" -> relation_relations_responder
      [] r.kind = "multi" -> list_responder
      [] r.kind = "version" -> version_responder
      [] r.kind = "history" -> history_responder
      [] r.kind = "map" -> map_responder
      [] r.kind = "download" -> changeset_download_responder

\* process_request finds out who is asking before the handler runs.
Identify == <<"authenticate", "get_roles_for_user">>

\* HEAD runs the constructor of the responder and writes no body.
Body(r) == IF r.method = "GET" THEN Writes ELSE <<>>

Begin(r) ==
    /\ req' = r
    /\ found' = db
    /\ todo' = Identify \o responder(r) \o Body(r)
    /\ sel' = EmptySelection
    /\ rows' = {}
    /\ out' = {}
    /\ status' = 0
    /\ failed' = FALSE

Init ==
    /\ db \in InitialDbs
    /\ names = [c \in Changesets |-> 0]
    /\ updates = 0
    /\ req \in Requests
    /\ found = db
    /\ todo = Identify \o responder(req) \o Body(req)
    /\ sel = EmptySelection
    /\ rows = {}
    /\ out = {}
    /\ status = 0
    /\ failed = FALSE

\* The next request, once this one is answered.  Nothing is kept from one
\* request to the next, so nothing is lost by taking the same one again: Init
\* has a state for every request.
accept ==
    /\ status # 0
    /\ Begin(req)
    /\ UNCHANGED database

At(query) == status = 0 /\ todo # <<>> /\ Head(todo) = query

Selected(s) ==
    /\ sel' = s
    /\ todo' = Tail(todo)
    /\ UNCHANGED <<database, request, rows, out, status, failed>>

Throw(code) ==
    /\ status' = code
    /\ todo' = <<>>
    /\ UNCHANGED <<database, request, sel, rows, out, failed>>

\* node/ways and the .../relations calls answer with an empty document where
\* the others throw: the element is dropped from the selection.
lenient(r) == r.kind \in {"ways", "relations"}
SkipToBody(s) ==
    /\ sel' = s
    /\ todo' = Body(req)
    /\ UNCHANGED <<database, request, rows, out, status, failed>>
GiveUp == SkipToBody(drop(sel, TypeOf(req)))

(***************************************************************************)
(* Queries                                                                 *)
(***************************************************************************)
\* validate_bearer_token: without a token the request is anonymous.
authenticate ==
    /\ At("authenticate")
    /\ IF req.token = "none"
       THEN /\ todo' = Tail(Tail(todo))
            /\ UNCHANGED <<database, request, sel, rows, out, status, failed>>
       ELSE IF req.token \in {"unknown", "expired", "revoked"} THEN Throw(unauthorized)
       ELSE Selected(sel)

set_redactions_visible_mutant(s) == [s EXCEPT !.redactions = req.show_redactions]

set_redactions_visible(s) ==
    [s EXCEPT !.redactions = req.token = "moderator" /\ req.show_redactions]

get_roles_for_user == At("get_roles_for_user") /\ Selected(set_redactions_visible(sel))

select ==
    LET s == select_ids(db, sel, req.ids) IN
    /\ At("select")
    /\ IF s.elements # {} \/ req.kind = "multi" THEN Selected(s)
       ELSE IF lenient(req) THEN GiveUp
       ELSE Throw(not_found)

check_visibility_mutant ==
    /\ At("check_visibility")
    /\ Selected(sel)

check_visibility ==
    /\ At("check_visibility")
    /\ IF ~deleted(db, the(req.ids)) THEN Selected(sel)
       ELSE IF lenient(req) THEN GiveUp
       ELSE Throw(gone)

\* The query has LIMIT map_max_nodes + 1: it returns all the nodes, or enough
\* of them to refuse the call.
nodes_from_bbox ==
    LET nodes == visible_node_in_bbox(db) IN
    /\ At("nodes_from_bbox")
    /\ IF Cardinality(nodes) > map_max_nodes THEN Throw(bad_request)
       ELSE IF nodes = {} THEN SkipToBody(sel)
       ELSE Selected(insert_results(sel, nodes))

drop_elements == At("drop") /\ Selected(drop(sel, TypeOf(req)))

current_queries ==
    \/ At("nodes_from_relations") /\ Selected(select_nodes_from_relations(db, sel))
    \/ At("ways_from_nodes") /\ Selected(select_ways_from_nodes(db, sel))
    \/ At("ways_from_relations") /\ Selected(select_ways_from_relations(db, sel))
    \/ At("relations_from_ways") /\ Selected(select_relations_from_ways(db, sel))
    \/ At("nodes_from_way_nodes") /\ Selected(select_nodes_from_way_nodes(db, sel))
    \/ At("relations_from_nodes") /\ Selected(select_relations_from_nodes(db, sel))
    \/ At("relations_from_relations") /\ Selected(select_relations_from_relations(db, sel, FALSE))
    \/ At("parents_only") /\ Selected(select_relations_from_relations(db, sel, TRUE))
    \/ At("members_of_relations") /\ Selected(select_relations_members_of_relations(db, sel))

num_selected(s) == Cardinality(s.elements) + Cardinality(s.editions)

\* nodes, ways, relations: everything asked for must have been selected.
historical ==
    LET s == select_historical(db, sel, req.eds) IN
    /\ At("historical")
    /\ IF num_selected(s) = Cardinality(req.ids) + Cardinality(req.eds)
       THEN Selected(s)
       ELSE Throw(not_found)

with_history ==
    LET s == select_with_history(db, sel, the(req.ids)) IN
    /\ At("with_history")
    /\ IF s.editions # {} THEN Selected(s) ELSE Throw(not_found)

changeset ==
    /\ At("changeset")
    /\ IF req.changeset \in Changesets THEN Selected(sel) ELSE Throw(not_found)

by_changeset(t) ==
    Selected(select_by_changeset(db, sel, t, req.changeset))

changeset_queries ==
    \/ At("nodes_by_changeset") /\ by_changeset("Node")
    \/ At("ways_by_changeset") /\ by_changeset("Way")
    \/ At("relations_by_changeset") /\ by_changeset("Relation")

(***************************************************************************)
(* Writing the answer.                                                     *)
(***************************************************************************)
Writing == status = 0 /\ todo # <<>> /\ Head(todo) \in DOMAIN TypeWritten
Type == TypeWritten[Head(todo)]

lookup ==
    /\ Writing
    /\ is_mixed(sel, Type)
    /\ sel' = lookup_versions(db, sel, Type)
    /\ UNCHANGED <<database, request, todo, rows, out, status, failed>>

\* No query is run for a type of which nothing is selected.
fetch ==
    /\ Writing
    /\ ~is_mixed(sel, Type)
    /\ rows' = extract(db, sel, Type)
    /\ todo' = IF sel_of(sel, Type) = {} /\ sel_historic_of(sel, Type) = {}
               THEN Tail(todo)
               ELSE <<"users">> \o Tail(todo)
    /\ UNCHANGED <<database, request, sel, out, status, failed>>

\* The users of the fetched rows are looked up, and the rows written.
write ==
    LET s == fetch_changesets(sel, names, {r.changeset : r \in rows}) IN
    /\ At("users")
    /\ sel' = s
    /\ out' = out \cup Written(rows, s.cc)
    /\ rows' = {}
    /\ todo' = Tail(todo)
    /\ UNCHANGED <<database, request, status, failed>>

finish ==
    /\ status = 0
    /\ todo = <<>>
    /\ status' = OK
    /\ UNCHANGED <<database, request, todo, sel, rows, out, failed>>

\* A query throws.  Before the response has begun, the client gets a 500; after
\* that the status is sent, and the responder ends the document with the error.
\* A changeset download is sorted before it is written: nothing is out yet.
query_fails ==
    /\ status = 0
    /\ todo # <<>>
    /\ failed' = TRUE
    /\ todo' = <<>>
    /\ status' = IF Writing \/ At("users") THEN OK ELSE server_error
    /\ out' = IF req.kind = "download" THEN {} ELSE out
    /\ rows' = {}
    /\ UNCHANGED <<database, request, sel>>

(***************************************************************************)
(* The other workers, and the moderators who redact old versions: what     *)
(* uploads may commit is what ChangesetUpload shows of them.  An upload    *)
(* that changes several elements is a run of such steps.                   *)
(***************************************************************************)
Referenced(e) == \E p \in Elements : e \in Members(db, p)

NewRow(e) ==
    {row \in [visible: BOOLEAN, in_bbox: BOOLEAN, refs: RefSets,
              changeset: OpenChangesets, redacted: {FALSE}] :
        /\ e[1] # "Node" => ~row.in_bbox
        /\ e[1] = "Node" => row.refs = {}
        /\ e[1] = "Way" => row.refs = OfType("Node", row.refs)
        /\ \A d \in row.refs : Visible(db, d) /\ d # e
        /\ row.visible /\ e[1] = "Way" => row.refs # {}
        /\ ~row.visible => row.refs = {} /\ Visible(db, e) /\ ~Referenced(e)}

upload ==
    /\ updates < MaxUpdates
    /\ \E e \in Elements : \E row \in NewRow(e) : db' = [db EXCEPT ![e] = Append(@, row)]
    /\ updates' = updates + 1
    /\ UNCHANGED <<names, request, todo, sel, rows, out, status, failed>>

\* Only old versions are redacted.
redact ==
    /\ updates < MaxUpdates
    /\ \E e \in Elements : \E v \in 1..(Len(db[e]) - 1) :
           /\ ~db[e][v].redacted
           /\ db' = [db EXCEPT ![e][v].redacted = TRUE]
    /\ updates' = updates + 1
    /\ UNCHANGED <<names, request, todo, sel, rows, out, status, failed>>

\* A user changes their name.
rename ==
    /\ updates < MaxUpdates
    /\ \E c \in Changesets : names' = [names EXCEPT ![c] = @ + 1]
    /\ updates' = updates + 1
    /\ UNCHANGED <<db, request, todo, sel, rows, out, status, failed>>

Next ==
    \/ accept \/ authenticate \/ get_roles_for_user \/ select \/ check_visibility \/ nodes_from_bbox \/ current_queries
    \/ drop_elements \/ historical \/ with_history \/ changeset \/ changeset_queries
    \/ lookup \/ fetch \/ write \/ finish \/ query_fails
    \/ upload \/ redact \/ rename

Spec == Init /\ [][Next]_vars

(***************************************************************************)
(* Properties                                                              *)
(***************************************************************************)
\* The variables have their types, and an answered request runs no query.
TypeOK ==
    /\ \A e \in Elements : \A v \in DOMAIN db[e] : db[e][v] \in Row
    /\ updates \in 0..MaxUpdates
    /\ req \in Requests
    /\ sel.elements \subseteq Elements
    /\ \A ed \in sel.editions : Recorded(db, ed)
    /\ DOMAIN sel.cc \subseteq Changesets
    /\ status \in {0, OK, bad_request, unauthorized, not_found, gone, server_error}
    /\ failed \in BOOLEAN
    /\ status # 0 => todo = <<>>

\* What each call promises, read off a database d that stands still: the
\* elements, or the editions, that it answers with.
Latest(d, S) == {<<e, Version(d, e)>> : e \in S}
Ancestors(d, t, S) == {e \in OfType(t, Elements) : Members(d, e) \cap S # {}}

MapCall(d) ==
    LET inside == {e \in OfType("Node", Elements) : Visible(d, e) /\ Current(d, e).in_bbox}
        ways == Ancestors(d, "Way", inside)
        elements == inside \cup ways \cup UNION {Members(d, w) : w \in ways}
        relations == Ancestors(d, "Relation", elements)
    IN  elements \cup relations \cup Ancestors(d, "Relation", relations)

FullCall(d, e) ==
    LET members == Members(d, e)
    IN  {e} \cup members \cup UNION {Members(d, w) : w \in OfType("Way", members)}

ReadableEditions(d, r) ==
    {ed \in UNION {{e} \X DOMAIN d[e] : e \in Elements} :
        RowOf(d, ed).redacted => r.token = "moderator" /\ r.show_redactions}

Answer(d, r) ==
    LET e == the(r.ids)
        readable == ReadableEditions(d, r)
        parents(t) == IF Visible(d, e) THEN Latest(d, Ancestors(d, t, {e})) ELSE {}
    IN  CASE r.kind = "element" -> Latest(d, r.ids)
          [] r.kind = "full" -> Latest(d, FullCall(d, e))
          [] r.kind = "ways" -> parents("Way")
          [] r.kind = "relations" -> parents("Relation")
          [] r.kind = "multi" -> Latest(d, r.ids) \cup r.eds
          [] r.kind = "version" -> r.eds
          [] r.kind = "history" -> {ed \in readable : ed[1] = e}
          [] r.kind = "map" -> Latest(d, MapCall(d))
          [] r.kind = "download" -> {ed \in readable : RowOf(d, ed).changeset = r.changeset}

StatusOfCall(d, r) ==
    CASE r.kind \in {"element", "full"} ->
             IF ~Exists(d, the(r.ids)) THEN not_found
             ELSE IF Visible(d, the(r.ids)) THEN OK ELSE gone
      [] r.kind \in {"multi", "version"} ->
             IF /\ \A e \in r.ids : Exists(d, e)
                /\ r.eds \subseteq ReadableEditions(d, r) THEN OK ELSE not_found
      [] r.kind = "history" ->
             IF Answer(d, r) # {} THEN OK ELSE not_found
      [] r.kind = "map" ->
             IF Cardinality(visible_node_in_bbox(d)) > map_max_nodes
             THEN bad_request ELSE OK
      [] r.kind = "download" ->
             IF r.changeset \in Changesets THEN OK ELSE not_found
      [] r.kind \in {"ways", "relations"} -> OK

StatusOf(d, r) ==
    IF r.token \in {"unknown", "expired", "revoked"} THEN unauthorized ELSE StatusOfCall(d, r)

Answered == status # 0 /\ ~failed
Complete == Answered /\ status = OK /\ req.method = "GET"
EditionsOut == {w.edition : w \in out}

\* When nothing is committed while a request is served, GET and HEAD give the
\* status, and GET the rows, that the call promises: the queries of the
\* responder, in its order, compute the definition above.
AnswersTheCall ==
    Answered /\ db = found =>
        /\ status = StatusOf(found, req)
        /\ Complete => EditionsOut = Answer(found, req)

\* A way in the answer to a map or full call has all its nodes in the answer,
\* unless a new version of the way was committed while the request was served:
\* select_nodes_from_way_nodes and write_ways are separate queries.
WaysHaveTheirNodes ==
    Complete /\ req.kind \in {"map", "full"} =>
        \A w \in out :
            w.edition[1][1] = "Way" /\ Recorded(found, w.edition) =>
                \A n \in w.refs : \E m \in out : m.edition[1] = n

\* Only the multi fetch and the calls that name versions answer with a deleted
\* element, or one that was deleted while the request was served.  The queries
\* that follow memberships do not look at visible: it is the uploads that keep
\* deleted elements out of member lists.
DeletedNotShown ==
    req.kind \notin {"multi", "version", "history", "download"} =>
        \A w \in out : w.visible \/ ~Recorded(found, w.edition)

\* A redacted version is shown to a moderator who asks for it, and otherwise
\* only if it was redacted while the request was served.
RedactedNotShown ==
    \A w \in out :
        w.redacted /\ Recorded(found, w.edition) /\ RowOf(found, w.edition).redacted =>
            req.token = "moderator" /\ req.show_redactions

\* A history or a changeset download misses nothing that was committed, and not
\* redacted, before the request.
NoEditionMissed ==
    Complete /\ req.kind \in {"history", "download"} =>
        \A ed \in Answer(found, req) : ed \in EditionsOut \/ RowOf(db, ed).redacted

\* An answer shows one author for all elements of a changeset, also if the user
\* is renamed while it is written: cc outlives the queries for nodes, ways and
\* relations.
AuthorsAgree ==
    \A v, w \in out : v.changeset = w.changeset => v.author = w.author
=============================================================================
