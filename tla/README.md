# A TLA+ model of openstreetmap-cgimap

cgimap serves the performance-critical calls of the OpenStreetMap API 0.6 from
FastCGI worker processes in front of a PostgreSQL database.  This directory
holds TLA+ modules for the whole way of a request through it: the daemon and its
workers, routing and content negotiation, the rate limiter, the parsing of
payloads, changeset uploads alone and side by side, the life of a changeset, the
calls that read elements, and the documents that are sent back.  TLC models
check them on small instances, and TLAPS proofs show most of the safety
properties of uploads, changesets, read calls, answers, the rate limiter and the
daemon for instances of every size.  Paths below are relative to the root of the
repository.

## 1. Inventory

| Component | Code | State it keeps | Operations |
|---|---|---|---|
| Element updaters | `src/backend/apidb/changeset_upload/{node,way,relation}_updater.cpp` | buffers of elements to create, modify, delete; placeholder ids seen; bounding box; the `current_*` and history tables through SQL | `add_*`, `modify_*`, `delete_*`, `process_new_*`, `process_modify_*`, `process_delete_*` |
| osmChange handler | `src/api06/changeset_upload/osmchange_handler.cpp` | `current_state` | `process_node/way/relation`, `handle_new_state`, `end_document` |
| Change tracking | `src/api06/changeset_upload/osmchange_tracking.cpp` | what was created, modified, deleted, skipped; order of the document | `assemble_diffresult` |
| Upload responder | `src/api06/changeset_upload_handler.cpp` | one transaction | its constructor: lock, parse, limits, commit |
| Changeset updater | `src/backend/apidb/changeset_upload/changeset_updater.cpp` | rows of `changesets`, `changeset_tags`, `changesets_subscribers`, `users.changesets_count`; `cs_num_changes` and `cs_bbox` read with the lock | `api_create/update/close_changeset`, `lock_current_changeset`, `update_changeset` |
| Payload parsers | `include/cgimap/api06/changeset_upload/osmchange_xml_input_format.hpp`, `.../changeset_input_format.hpp` | stack of contexts, operation, `if-unused`, the element under construction, a caught exception | SAX callbacks |
| Request processing | `src/process_request.cpp`, `src/request.cpp`, `src/fcgi_request.cpp` | the workflow of one answer | authenticate, check rate, dispatch, answer |
| Routing and negotiation | `src/routes.cpp`, `include/cgimap/router.hpp`, `src/choose_formatter.cpp`, `src/http.cpp` | none | path to handler; Accept to type; Accept-Encoding to encoding |
| Formatters and writers | `src/{xml,json,text}_formatter.cpp`, `src/{xml,json,text}_writer.cpp`, `src/osm*_responder.cpp`, `src/osmchange_responder.cpp` | the document written so far | the `write_*` and `start_*`/`end_*` calls |
| Rate limiter | `src/rate_limiter.cpp` | one memcached entry per client | `check`, `update` |
| Daemon | `src/main.cpp` | signal flags, set of children, pid file | fork, wait, forward signals, serve |
| Read API | `src/backend/apidb/*_selection.cpp`, `src/api06/*_handler.cpp` | sets of selected ids and versions, the users of changesets met so far | the `select_*` queries, `write_nodes/ways/relations` |
| OAuth 2 and users | `src/oauth2.cpp`, `src/backend/apidb/*` | none | token look-up, roles |
| Compression, options, logging, API 0.7 | the rest of `src/` | none that matters here | I/O and configuration |

How they interact.  The parent process forks workers.  A worker takes a request
from the FastCGI socket, finds its handler, authenticates the user, asks the
rate limiter, reads the payload, opens a transaction and constructs a responder.
For an upload the responder locks the changeset row, then runs the SAX parser,
which calls the handler once per element; the handler buffers elements in the
updaters and, whenever the kind of element changes, has them written to the
database.  At the end of the document the diffResult is put together, the limits
are checked, the changeset row is updated and the transaction is committed.  Any
exception on the way destroys the transaction, which rolls it back.

What is hard to get right.  Within an upload: the order of batches, several
versions of one element in a batch, placeholders, deletes that are skipped
(`if-unused`), elements that refer to each other, a check that fails after
everything has been written, an exception that must not cross libxml2.  Between
requests: values read with a row lock and written back much later, `now()`
frozen at the start of a transaction, rows locked in opposite orders, a rate
limiter without compare-and-swap, and read calls whose queries each see another
state of the database.  Around them: signals between any two steps of a parent
or a worker, and errors after the status line has been sent.  The list with its
places in the code is `hazards` in `PROJECT.json`.

What makes the components correct: references never dangle; the history is
complete and only grows; the diffResult tells what happened; counters, boxes and
limits are exact; each write call is atomic, uploads are serializable; a read
call answers with what it promises, and with nothing hidden; the handler is told
what the document says; an error answer means nothing was changed, and the
document sent is well-formed; a client is not charged too much; workers are
replaced and the daemon goes down; every request ends.

## 2. Modules

| Module | Models |
|---|---|
| `BBox` | `bbox_t` of `util.hpp`, one coordinate instead of two |
| `ApiDB` | the tables, and the SQL statements the three updaters have in common, with the element type as a parameter |
| `ChangesetUpdater` | the `changesets` row and the arithmetic of `changeset_updater.cpp` |
| `UploadSession` | the variables of an upload: committed tables `db`, `cs`; the transaction's tables `tx`; the C++ objects that live as long as the request |
| `NodeUpdater`, `WayUpdater`, `RelationUpdater` | one operator per C++ function, under its name, and one action per `process_*` call |
| `OSMChangeTracking` | `assemble_diffresult` |
| `ChangesetUpload` | handler and responder; the specification of uploads one after the other |
| `UploadBatches` | what the checks and writes of one `process_*` call do, reduced to versions, visibility and references |
| `SerialUploads` | abstract specification: uploads that happen at once |
| `ConcurrentUploads` | uploads in several workers, row lock by row lock; refines `SerialUploads` |
| `Changesets` | abstract specification: changeset calls that happen at once |
| `ChangesetLifecycle` | the same calls as several workers make them, statement by statement, with row locks; refines `Changesets` |
| `DataSelection` | the queries of `readonly_pgsql_selection.cpp`, on elements and their versions |
| `ReadRequests` | the GET and HEAD calls that read elements, query by query, under concurrent commits |
| `SaxParser` | libxml2 and the C++ wrapper that carries exceptions past it |
| `OSMChangeXMLParser`, `ChangesetXMLParser` | the callbacks of the two XML parsers |
| `Payloads` | both, on any document; the specification of parsing |
| `Router` | the rules of API 0.6, methods, suffixes |
| `Negotiation` | Accept, Accept-Encoding, and the choices made from them |
| `OutputDocuments` | responders as formatter calls, the three formatters and writers |
| `Requests` | one worker's answer to a request, from the route to the last byte; composes the three above |
| `RateLimiter` | the memcached rate limiter with several workers |
| `Daemon` | the parent and its workers |
| `*Proofs` | theorems about the module they are named after: `ChangesetUpload` (`DiffResultProofs` continues it), `ConcurrentUploads`, `ChangesetLifecycle`, `ReadRequests`, `Payloads`, `Requests`; `ServerProofs` is about `RateLimiter` and `Daemon` |
| `MC*` | instances for TLC |

### The upload (`ChangesetUpload`)

State and code: `buffer[op][type]` are the nine vectors of the updaters, `ct` is
`OSMChange_Tracking`, `current_state` that of the handler, `todo` what
`handle_new_state` still has to call.  `packages` and `package` are the loop of
`process_modify_*`: the packages of one call are processed by separate steps.  A
behaviour begins in one of the constant `Scenarios`: the tables, the elements
documents are made of, and the limits.  The document is chosen element by
element: `process_element(e)` is the SAX callback of the next element, for any
`e` of the scenario, and `end_document` may come at any time, so that a run
covers every document of up to `max_elements` elements.  `parse_error` stands
for a document that the parser refuses (the parser itself is in `Payloads`),
`upload_fails` for an error of the database or the death of the worker at any
point: as no COMMIT has been sent, the transaction is undone.

A check of the code is the HTTP status it throws, or `OK`; `Then(a, b)` is `b`
once `a` has not thrown, so the order of the checks, and therefore the status of
the response, is that of the source.  A statement that writes maps tables to
tables.  `tx` is the transaction's view, `db` what is committed; `finish_upload`
copies one to the other and `Throw` the other way.

Abstracted: a tag is one value; roles, tiles, timestamps are left out; a way's
nodes are members of type Node; whether an element names the changeset of the
request is the Boolean `same_changeset`; the id sequence is finite (`MaxId`),
and `process_element` does not take a creation it has no id for.  Uploads run
one after the other here; the locks of `lock_current_*` are therefore only
checks for existence.

### Uploads side by side (`UploadBatches`, `SerialUploads`, `ConcurrentUploads`)

An upload of `ConcurrentUploads` is a transaction: `stage[u]` is the statement
it is at, `queue[u]` the rows a locking statement has still to lock, in the
order of its scan, which may be any; `missing[u]` are those it did not find,
`own[u]` the rows it has written, `locks` the row locks of all of them.
`lock_current` begins `lock_current_*` (FOR UPDATE), `start_lock_future`
`lock_future_nodes` or `lock_future_members` (FOR SHARE; its statements for nodes,
ways and relations are taken as one, which sees what was committed when the first
began), `check` and `referenced` are the checks between them, `write` the writing
statements.  Another
upload may run between any two statements and between any two rows of one.
PostgreSQL is external: `LockRow` grants a lock when no conflicting one is held
and reads the row again as it is then, a statement sees what was committed when
it began, and `deadlock_detected` fails one of those that wait in a circle.

`UploadBatches` holds the checks as operators on rows (version, visible, refs),
so that `SerialUploads` can say what an upload alone would do (`RunAlone`) by
the same checks in one step.  The refinement `Serializable` says: an upload
takes effect at once or not at all, with the answer it would get alone at some
moment between its start and its answer.  A refusal that a locking statement has
settled before it has tried all rows is the abstract `verdict`.

Abstracted: tags, locations, history and packages, which are in
`ChangesetUpload`.

### The life of a changeset (`ChangesetLifecycle`)

`request[w]` is what worker `w` is doing: `begun` (the transaction has a
`now()`), `locked` (with the `cs_num_changes` and `cs_bbox` that `lock_cs` has
read), `inserted` and `ready` (its statements are executed).  `commit` makes
them visible and releases the locks.  `RowLocked` is the effect of `FOR UPDATE
NOWAIT`, which refuses; `UserRowLocked` that of a plain `UPDATE`, which waits.
`rollback` is possible in every state.  `closed` is a history variable: the
changesets that a close call has closed.

The clock counts in units that make the timeouts small.  A real timestamp has
microseconds, so two transactions hardly ever begin at the same instant; where
this matters the property says so (`ClosedStaysClosed`).

### Read calls (`DataSelection`, `ReadRequests`)

The constructor of a responder runs queries that fill the selection, and the
`write_*` functions then fetch and write the selected rows.  A responder is
modelled as the list of its queries (`map_responder`, `way_full_responder`,
...), `todo` as what is left of it, and every query is an action of its own,
because the transaction is a `pqxx::read_transaction`, whose isolation level is
READ COMMITTED: between two queries other workers may commit (`upload`), the
website may redact an old version (`redact`) or rename a user (`rename`).
`upload` commits one element at a time and only what `ChangesetUpload`
guarantees of uploads: members are visible, deleted elements have no members and
no parents, the current row is the latest version.  An upload of several
elements is a run of such steps, so its atomicity is not assumed.

`lookup` and `fetch` are the two queries of a `write_*` function, `write` is
`fetch_changesets` and the output.  `query_fails` is an exception from the
database: a 500 before the response has begun, a document cut short after that.
`found` is a history variable, the database when the request began; a row is
known to have been committed before the request if `found` has it.

Abstracted: tags, coordinates (whether a node lies in the box of the call is a
field of the row), the order of rows and members, the text of ids and boxes, the
bearer token (only what the look-up says of it counts).  The row of a changeset
and its user always exist (foreign keys).  What surrounds the queries is in
`Requests` and `RateLimiter`.

### Payloads (`SaxParser`, `OSMChangeXMLParser`, `ChangesetXMLParser`, `Payloads`)

A document is chosen tag by tag: `start_element` opens any element with any of
the attributes of the instance, `end_element` closes the last one,
`document_breaks` makes it not well-formed.  `on_start_element` and
`on_end_element` are the callbacks, with the stack `m_context`, `m_operation`,
`m_if_unused` and the object under construction; what they throw goes to
`exception` (`handle_exception`) in place of what was there, libxml2 is stopped
(`stopped`), and `parse_ends` throws it again.  `calls` are the calls the handler
gets.  Two history variables: `doc` has the elements as a reader of the document
understands them, against which `calls` is compared; `first` the first problem
there was, an exception or an error in the document.

An attribute is missing, a number, `text` (not a number) or `huge` (out of
range); `Word` stands for 2^32, as a version is read as int64 and kept as
uint32.  Of a position only whether it is there and valid is kept.  The
changeset parser's variables begin with `cs_`.

### Answering (`Router`, `Negotiation`, `OutputDocuments`, `Requests`)

`pc` follows `process_request` and the functions it calls; `m_workflow_status`
is the guard that `request.cpp` keeps against sending a head twice; `head` is
what was sent, `db` whether the transaction was committed.  What the database
says of a request is a choice of outcomes here.  A responder is the list of its
formatter calls (`Responder(outside, try, rest)`: before the try block, in it,
after it).  A call that only writes is `WriteCall`; one that queries writes any
number of rows (`WriteRow`) and returns (`Fetch`) or fails (`FetchFails`).  A
download sorts its editions and writes them one by one (`WriteSorted`).  `writer`
has what the XML writer or the JSON generator has open and, for the properties,
how far a reader who takes the document token by token has come (`XmlStep`,
`JsonStep`) and which names were shown; `IsDocument` says that the reader has seen
one complete document.  The JSON generator refuses calls in a wrong state, as YAJL
does; the XML writer does not (libxml2 closes open elements at the end).

`Negotiation` works on items with qualities; the splitting of header text into
items is left out, but an item that cannot be parsed is one of the items.
Qualities are 0 to `MaxQuality` or, out of range, above it.  An Accept-Encoding
header that is empty counts as `*` (`encodings`), one that is missing as
`identity` (`Identity`).

### The rate limiter (`RateLimiter`)

`check` and `update` of `rate_limiter.cpp`, as requests of one client in several
workers make them: `get`, then `replace` or `add`, steps of their own.  `entry`
is what memcached keeps.  It may `expire`, be evicted (`evict`) or not answer
(`unavailable`).  Sums are taken modulo `Word`.  `served` and `settled` are
history variables: the exact debt, counted when bytes are sent and when they
have been recorded; `promise` is the time a refused client was told to come
back.

### The daemon (`Daemon`)

`parent` is the place in `daemon_mode`, `worker[p]` that in `process_requests`.
A signal sets a flag and makes a blocked `wait` or `accept` return, but not one
about to be called; these two moments are states of their own (`before_wait`,
`accepting`).  Pids are used again once waited for.  `Throw` is an exception
from a worker's start, from `accept_r` (an error other than EINTR) or from a
request, `ForkFails` that of the parent.  Of a reload only the flags are modelled;
the log file is not.

## 3. Runs

| Run | Checks | On |
|---|---|---|
| `uploads` | `MembersVisible`, `RelationMembersVisible`, `HistoryComplete`, `BoxCoversNodesAndWays`, `BoxCoversAddedMembers`, `BoxCoversReplacedMembers`, `NumChangesExact`, `DiffResultTruthful`, `HistoryAppendOnly`, `LimitsRespected` | four scenarios: all documents of up to 4 of 11 elements on nodes and ways; up to 4 of 12 on a chain of nested relations; up to 2 uploads of up to 2 elements with one for every refusal; up to 3 uploads of up to 3 elements with all three limits in reach |
| `concurrent_uploads` | `RefsVisible`, `NoLostUpdate`, `Serializable`, `UploadsEnd` | 3 uploads to 2 changesets, 5 elements, 6 documents for each of the first two, 2 for the third |
| `lifecycle` | `LocksProtect`, `WithinLimits`, `ClosedForGood`, `AtomicCalls` | 2 workers, 2 users, 1 changeset, 4 ticks |
| `lifecycle_creates` | `CountsExact`, `RequestEnds` | 2 workers, 2 users, 2 changesets |
| `read_requests` | `AnswersTheCall`, `WaysHaveTheirNodes`, `DeletedNotShown`, `RedactedNotShown`, `NoEditionMissed`, `AuthorsAgree` | 61 requests of all kinds, 2 databases of 2 nodes, a way and 3 relations, 2 commits at any time |
| `payloads` | `CallsAsInDocument`, `AcceptedIsComplete`, `FirstErrorReported` | every document of up to 7 elements with valid and invalid attributes, limits of 1 tag, node and member |
| `requests` | `ErrorsUndone`, `WellFormed`, `AcceptableAnswer`, `HeadOnce` | every method at 13 paths; every Accept and Accept-Encoding header of up to 2 items; every type and encoding of a body; any number of rows per query; 3 editions |
| `rate_limiter` | `DebtRight` (`NeverOvercharged` and `ChargedInFull`), `RetryAfterHonoured`, `ExpiryIrrelevant` | 2 workers, 3 requests of up to 6 bytes, words of 9, a debt limit of 4, 2 bytes a second, 5 seconds, 1 fault |
| `daemon` | `WorkersInSight` (`ChildrenExact` and `CleanShutdown`), `WorkersReplaced`, `WorkerLeaves`, `GoesDown` | 2 instances, 3 pids, 2 reloads, 2 failures |
| `mixed_deletes`, `removed_members`, `reopen` | expected to fail, see section 4 | |

`read_requests` compares the queries with a definition of each call's answer
(`Answer`, `StatusOf`) when nothing is committed meanwhile, and says what is
left of it otherwise: an answer is not a snapshot, and a way whose nodes are
missing, or a deleted node, can be in the answer to a `map` call, but only if
its row was committed while the call was served.

What the properties do not say is as telling.  `ErrorsUndone` leaves out 406 and
500, and 400 for an Accept header that cannot be parsed: the commit comes before
the answer is negotiated.  `ChargedInFull` holds only while requests do not
overlap, because one update overwrites the other; a client gains by it, and
`NeverOvercharged` says that it never loses.  `BoxCoversReplacedMembers` leaves out
relations without any node or way left, `DiffResultTruthful` whether an executed
delete is reported as such; section 4 shows why.

A SIGTERM may come when parent or worker has just looked at its flag and is about
to block.  The parent then sits in `wait` until a worker ends, but passes the
signal on as soon as one does (`WorkersReplaced`).  A worker then sits in `accept`
until the next request, and is not signalled again: hence `GoesDown` needs requests
to go on arriving.  `WorkerLeaves` says without that premise that the worker leaves
after this one request, and one that is anywhere else at once.

Bounds.  Four elements are enough for every pair of batches in both orders with
an element before and after, for two versions of one element in a batch, and for
a chain of three deletes; the database of each scenario has an element in every
state that a statement tells apart (live, used, deleted, absent).  Two elements
suffice for refusals, since a document ends with the element that is refused.
Uploads conflict in pairs; the third meets what the first two have left, or
finds its changeset locked.  Two commits are enough to change a way and one of
its nodes, or to outdate a version and redact it, between any two queries; three
relations are the least for a grandparent that a `map` call must not include.
Two workers are enough for every conflict over one row.  Four ticks pass the
maximum age (3) of a changeset.  Seven elements are a root, two blocks, and two
objects with a child each, so that something can be carried over from one to the
next; a limit of 1 is passed by the second tag.  In `rate_limiter` two responses
pass the debt limit and wrap a word, and five seconds outlive an entry.  With
three pids one is used again while the other two are workers.

Deadlock is not checked in `daemon`, `rate_limiter`, `payloads` and
`concurrent_uploads`: a daemon exits, a document ends, every upload ends, and
the clock and the requests of the rate limiter are bounded.  That nobody waits
forever is said by `GoesDown`, `WorkerLeaves`, `WorkersReplaced`,
`UploadsEnd` and `RequestEnds`.

Fairness.  `lifecycle_creates` assumes weak fairness of the steps a worker takes
with a request it has (`Serve`), `concurrent_uploads` of the steps of an upload.
The payload is read completely before the transaction begins
(`process_post_put_request`), and all statements are synchronous calls, so a
worker never waits for the client.  A row lock is held by a transaction that
gets on in the same way, PostgreSQL wakes its waiters, and its deadlock detector
runs after a second of waiting.  `daemon` assumes that the parent and each
worker run on, as processes do; a worker blocked in `accept` and a parent
blocked in `wait` take no step.  Nothing is assumed of clients, failures,
signals or the clock, except in the premise of `GoesDown`.

Every property of a passing run has a mutant: a definition named `*_mutant` (or
`UserRowLocked_shared`) next to the one it changes, with which TLC refutes the
property.  The `TypeOK` definitions are part of the inductive invariants of
section 5 where a module has a proof.

## 4. Where code and comments disagree

Three runs are expected to fail; each checks what a comment of the source says.

* `mixed_deletes`: relation 1 is a member of 2, and 2 of 3.  A document deletes
  1 without and 2 with `if-unused` in one batch.  2 is skipped since 3 uses it,
  1 is deleted although 2 still has it as a member.
* `removed_members`: a relation is modified to have no node or way as a member any
  more.  Those it loses are not added to the box of the changeset, because they are
  looked for among relations that still have one.  `BoxCoversReplacedMembers` holds
  of all others.
* `reopen`: an update or upload that began before a close call, and locks the
  row after it, is admitted and opens the changeset again.

Met on the way, without a run of their own:

* A node that is to be deleted with `if-unused` while a way uses it, and once more
  when the way has been deleted, is deleted, but both entries of the diffResult say
  that it was skipped: skipped and executed deletes are told apart by the old id
  alone (`osmchange_tracking.cpp:129`).
* The answer to a successful changeset update is an empty document, as its responder
  writes only nodes, ways and relations (`changeset_update_handler.cpp:41`; the
  comment at `process_request.cpp:286` promises "all changeset details").
* A parent relation is refused because its child, although created earlier in the
  document, is not in the same batch (`relation_updater.cpp:456`, comment at 438).
* A relation that loses its last tag does not expand the box of the changeset
  (`relation_updater.cpp:964`).
* `update_changeset` decides by the `closed_at` the row has, not by the one it is
  about to get, whether to clip to the maximum age: a changeset within the idle
  timeout of the maximum jumps to it, even when "one hour in the future" would be
  earlier (`changeset_updater.cpp:85-106`).  `WithinLimits` holds all the same.
* 406 for a close or create call with a suffix comes after the commit; an
  upload to a path with `.json` is not parsed and answers 200.
* With `X-Error-Format: xml` the answer to a HEAD request for a deleted element has
  a body (`process_request.cpp:324` says it is empty), the error of a `map` call has
  its Content-Disposition, as the status line says 200 (`request.hpp:65-67`), and
  the message is not escaped.
* The comment of `rate_limiter.hpp:22` has the two results of `check` the wrong
  way round.  An entry's expiry is not "guaranteed to be irrelevant" when three
  requests overlap and an old sum is written back late.  The size of a response is
  narrowed to 32 bits (`process_request.cpp:529`).
* A version is read with 64 bits and kept with 32 (`osmobject.hpp:52`), and
  `from_chars` takes the number a text begins with (`1x` is 1).
* An element nested in a `<tag>` of a changeset payload makes the parser lose its
  place (`AcceptedIsComplete` leaves these documents out).
* A SIGHUP that reaches a worker between the opening of its log and the reset of
  its flag is lost (`main.cpp:235`).

## 5. Proofs

The theorems hold for every value of the constants that satisfies the named
assumptions.  Each proof module states an inductive invariant as a conjunction
of named parts, shows what each action does to each part, and derives the
properties the runs check.

### Uploads (`ChangesetUploadProofs`, `DiffResultProofs`)

For every database in order, every set of elements and every number of uploads:

* `MembersAlwaysVisible`: no committed way or relation refers to a deleted node or
  way.
* `HistoryAlwaysComplete`: the history of an element has each version once, and its
  last row is the current one with its tags and members.
* `HistoryAlwaysAppendOnly`: history only grows, by newer versions, and only with
  a 200.
* `NumChangesAlwaysExact`: `num_changes` of the changeset is the number of rows its
  uploads have added to the history.
* `LimitsAlwaysRespected`: an upload that is committed is within the rate limit and
  leaves the whole box of the changeset within the size limit.
* `BoxAlwaysCoversNodesAndWays`, `BoxAlwaysCoversAddedMembers`: the box of the
  changeset covers the old and the new place of every node, the nodes of every way
  and the members a version of a relation added, wherever they are afterwards.
* `RelationMembersAlwaysVisible`: a relation that is a member of a committed relation
  is visible, if no document mixes deletes of relations with and without
  `if-unused` (`UnmixedDeletes`; `mixed_deletes` shows why).
* `DiffResultAlwaysTruthful`: the diffResult of a committed upload tells, element by
  element, what was stored and under which id and version, leaves out no visible
  version and names none twice.

The first three are facts about `db`, which changes only when `tx` is copied to it,
so they need to hold of `tx` between any two `process_*` calls.  The invariant
`UploadInv` says so (`TablesInv`: both tables are `Sane`, and `tx` extends `db`),
and has what a write must find for this: buffered elements are of the buffer's
type and operation (`BufferInv`), what `ct.created` maps are placeholders of the
document (`PlaceholderInv`), the pending element is one the handler accepts
(`PendingInv`), the id sequence has room (`RoomInv`), and the elements of a package
are of the type of the call and have rows (`PackageInv`).  The lemmas go from
statements (`TagsInserted`, `HistorySaved`, ...) over the three kinds of write
(`Created`, `Updated`, `Deleted`, which all rewrite some elements of one type) to
what such a rewrite keeps (`GoodWrite`), so that histories and references are argued
once for three types.  A delete keeps references because the elements that
`is_*_still_referenced` excludes are the least set closed under "referenced by a
remaining one".

Counting needs the reports, because `num_changes` is computed from them: in
`CountingInv`, `tx` has as many rows more than `db` as `ct` has reports of each type
(`CountInv`), which holds because every report names a version that is not newer
than the current one, so that a new report is another one, also when an element is
written twice.

The boxes need that nothing covered is lost on the way: in `BoxingInv`, everything
added to `db` is covered by `cs.bbox`, and everything added to `tx` by that box
joined with those of the three updaters (`CoveredInv`).  A place is covered whatever
is moved later, because a node that moves adds both of its places.

References between relations do not hold inside the loop over the packages of a
modification: `lock_future_members` leaves out the ids of all packages, so a relation
may refer to one that a later package undeletes.  `LoopInv` allows just these, and
says that the earlier packages are visible and the packages numbered without a gap,
so that after the last one nothing is left.

The diffResult is put together from what the updaters reported, long after they
worked, so its truth is followed from the document on.  In `DiffInv` an element of
the document is still in its buffer, behind the packages already written, or it is
stored and reported (`DocumentInv`); only buffers whose calls are still to be made
hold anything (`FlushInv`), so at the commit all are empty.  A report names the id
the placeholder stands for (`CreatedReports`, `OtherReports`), and every visible
version written is what some element asked for (`AskedInv`).  That no two entries
share a version needs the elements in pairs: of two creations with one placeholder
one is left in a buffer, where it will be refused (`CreatesInv`), and two
modifications of one version are of different elements unless one still waits
(`ModifiesInv`), since the version check refuses the second.

Assumed: the tables an upload starts from are in order (`ScenariosAssumption`
with `Regular`), ids are 1 to `MaxId`, placeholders are negative.

### Uploads side by side (`ConcurrentUploadsProofs`)

For any number of uploads, rows and documents:

* `NoLostUpdateAlways`: the version that a modification or deletion names is, at the
  commit, still the committed one, counted on by what the same document did to the
  element before.  It rests on two invariants.  `LocksInv`: exclusive locks exclude,
  new ids are nobody else's, an upload has locked what it has written, and every row
  of a batch that its queue no longer holds.  `VersionsInv`: the version an upload
  sees is the committed one plus its own writes, so are those its earlier calls have
  named (`Counted`), and the comparison of `check_current_*_versions` still holds
  while the upload goes on to write (`Checked`).
* `RefsAlwaysVisible`: no committed element refers to a deleted one, if no batch
  mixes deletes of relations with and without `if-unused` (`NoMixedDeletes`;
  `mixed_deletes` shows why).  `RefsVisible` alone is not inductive: `RefsInv` adds
  that what an upload sees is closed under references, that the rows it is about to
  refer to are share-locked and visible, and that nothing committed refers to what
  it is about to delete.

Assumed: the rows at the beginning refer to visible ones and the documents are
those the parser lets through (`InitialRowsAssumption`, `DocumentsAssumption`,
`ElementsAssumption`).  The constant `Ways` says which elements are ways.

### The life of a changeset (`ChangesetLifecycleProofs`)

For every set of workers, users, changesets and uploads, and every value of the
limits:

* `LocksProtectAlways`: `Spec => [](TypeOK /\ LocksProtect)`.  This is the
  inductive invariant.  `AtomicCalls` is not inductive: that a commit writes the
  effect of its call on the row of this moment follows only if nobody else can
  have written it since it was read, hence the parts of `LocksProtect`: locks
  are exclusive, what a holder has read and is about to write agrees with the
  committed row, inserted ids are fresh, counters are those of the locked user.
* `WithinLimitsAlways`: number of changes and age of a changeset stay within
  the configured maximum.
* `Atomicity`: `Spec` implements `Changesets!Spec`; a commit is one abstract
  call, a tick a tick, everything else a stuttering step.
* `ClosedIsFinal`: a changeset whose `closed_at` has passed is not changed by
  requests that began later.
* `CountsAlwaysExact`: `changesets_count` of a user is the number of changesets the
  user has created; a create adds one changeset to a finite set and one to the
  counter that it has locked.

Assumed: the limits are natural numbers, and the idle timeout is not longer than
the maximum age (`TimeoutAssumption`; the options do not enforce it); changeset
ids are a finite set of naturals; a changeset without tags is possible.

### Read calls (`ReadRequestsProofs`)

For every database, every request and any commits between the queries:
`RedactedNeverShown`, `AuthorsAlwaysAgree`, `DeletedNeverShown`,
`NoEditionEverMissed`, `WaysAlwaysHaveTheirNodes`, `CallsAlwaysAnswered`.  The properties are about the
answer that was sent; the invariant `ReadInv` follows the selection that leads to
it.  Queries have a rank and are made in its order (`TodoInv`); the database only
grows (`DatabaseInv`); what is selected was committed, and shown to this user
(`SelectionInv`, `RowsInv`); a selected element is visible or has a new version
since the request came (`DeletedInv`); a version that was there at the beginning
is written or on its way, selected or with a query still to come (`HistoryInv`);
so are the nodes of a selected way (`NodesInv`); names are looked up once per
changeset (`AuthorsInv`).

`CallsAlwaysAnswered` compares a dozen queries, run in the order of each responder,
with the one-line definition of what the call promises (`Answer`, `StatusOf`).  Its
invariant `CallInv` speaks of a request during which nothing was committed and no
query failed.  `Cleared` is what is known of the status once a query has been made
and has not thrown; `Before` is what the selection holds when a query is the next
one; once the last query of the constructor is made the selected editions are the
answer (`Chosen`), and from then on each of them is selected, fetched or written.
There is one lemma per query.  A commit makes the database differ from the one the
request found for good, since the database only grows.

Assumed: the databases at the beginning are such as uploads leave them
(`DatabasesAssumption`); requests and reference sets are of their types, and a
request lists finitely many ids, of which `num_selected` is compared with the count
(`RequestsAssumption`).

### Payloads (`PayloadsProofs`)

For documents of any length and depth, with any names and attributes, read by the
osmChange parser or the changeset parser:

* `CallsAlwaysAsInDocument`: the handler is called once per element of the document,
  in its order, with the operation and `if-unused` of the block around it and the
  attributes, tags and references inside it.
* `AcceptedAlwaysComplete`: a document that is accepted has been handed over whole,
  and its changeset has the last value of each tag.
* `FirstErrorAlwaysReported`: what reaches the caller is the first problem there was.
  `handle_exception` overwrites what was kept before, so this rests on libxml2 being
  stopped at the first exception.

The parsers keep a stack of contexts and never look at the document again, so the
invariant `PayloadsInv` ties that state to the elements that are open.  For
osmChange (`ContextInv`, `DocumentInv`) the contexts are those the open elements
stand for at their depth, operation and `if-unused` are those of the open block or
reset, the calls are `start_document` and one per complete element, and the object
under construction is what the open element describes so far.  For a changeset
(`TagsInv`) `m_tags` has one entry per key read, with its last value.  `SaxInv` says
that a document that was accepted is closed and nothing was thrown in it, and
(`KeptInv`) that the exception kept is the one that stopped libxml2 and the first
problem of the document.  Nothing is assumed of the constants.

### Answers (`RequestsProofs`)

For every set of requests, every header and every outcome:

* `ErrorsAlwaysUndone` and `HeadSentOnce`.
* `AnswerAlwaysAcceptable`: type and encoding are what the request asked for.
* `DocumentsAlwaysWellFormed`: after however many rows, and whichever query fails, a
  client that stays gets a complete document, with an error exactly if there was one.

`WorkerInv` adds to `ErrorsUndone` that before the write nothing is committed, that
the method fits the responder, and that type and encoding in the head are those
negotiated.  `choose_encoding` folds the header, or `*` in place of an empty one, into
qualities: `QualitiesFit` says what they are after a prefix of it, and the least prefix for which it would fail
gives a contradiction.

`BodyInv` ties what is written to what is left to be called.  A document goes through
phases (before its start, in its root object, in the array of elements, before the
value of a member, after the elements, ended); `XmlPhase` and `JsonPhase` say what
writer and reader have open in each, and `XmlCall` and `JsonCall` to which phase each
formatter call leads (`Moves`).  `Point` lists the calls that a responder may have
left in a phase; `PointNext` shows that the next of them is always one that may come
there, and that after a failed query the catch block calls `fmt.error` where a value
may come.  With no call left the phase is the last one (`NothingLeftToCall`).

### The rate limiter (`ServerProofs`)

For any number of workers, requests, faults and every limit:

* `DebtAlwaysRight`, from the next two.
* `NeverOverchargedAlways`: needs that a sum about to be written, taken at its time,
  is covered by what was served (`Covered`); wrapping only makes it smaller.
* `AlwaysChargedInFull`: `Sequential`, that while requests do not overlap exactly
  one is in progress and the record is what was settled.
* `RetryAfterAlwaysHonoured`: needs `PromiseKept`, that the entry is below the limit
  at the promised time however the division is rounded.
* `ExpiryAlwaysIrrelevant`: assumes `NotCut`, that no expiration reaches memcached's
  30 days (beyond which it would be a date), and needs `ExpiresLate`.

Assumed of the constants: `RateAssumption`, `SizesAssumption`, `DeltaAssumption`,
`BoundsAssumption`.

### The daemon (`ServerProofs`)

For any number of instances and pids: `WorkersAlwaysInSight`, which joins
`ChildrenAlwaysExact` and `ShutdownIsClean`, from `DaemonInv`: the parent forks only with room
(`RoomToFork`), and no process is left when it removes the pid file
(`GoneAtTheEnd`).  Assumed of the constants: `InstancesAssumption`,
`ReloadsAssumption`.

### Only model-checked

* `Serializable`: the order of the uploads is that of their commits, but a refusal
  takes effect before its answer, which needs a history variable.
* `BoxCoversReplacedMembers`: unlike the added members, those a version has lost are
  in the old rows only, which the invariant of the boxes does not follow.
* Liveness (`RequestEnds`, `UploadsEnd`, `WorkersReplaced`, `WorkerLeaves`,
  `GoesDown`), which is out of the prover's reach.

## 6. Not modelled

* Vendored code (`contrib/`: Catch2 and sjparser).  It is third-party, most of it a
  test framework, and takes no part in answering a request.
* Options and the command line: their values are the constants of the modules.
* Logging; API 0.7, an experiment that is compiled in on request; the streams of
  the compression libraries (only whether an encoder passes on a failed write is
  modelled).
* Text: header splitting, the parsing of ids and boxes, escaping, numbers and
  timestamps.
* The reading of changesets and their discussions: one changeset and its comments
  per id, without choices that others could disturb.
* Code that cannot be reached: the `std::exception` branch of
  `generate_response` and the `process_not_allowed` overload for a handler.

The repository has 52 471 lines of implementation by a plain count, of which
more than half are the vendored libraries.  All `.cpp` files of cgimap's own
have about 13 100 lines; the modules cover about two thirds of these and the
headers that hold the parsers.  The rest is options, logging, text conversion,
declarations and the boilerplate of prepared statements.
