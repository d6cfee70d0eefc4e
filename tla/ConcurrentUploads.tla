-------------------------- MODULE ConcurrentUploads --------------------------
(***************************************************************************)
(* Uploads that run at the same time, each in a worker and a pqxx::work    *)
(* (READ COMMITTED) of its own.  An upload locks its changeset, then makes *)
(* the process_* calls of its document.  A call locks the rows it changes  *)
(* (lock_current_*, FOR UPDATE), reads them, locks the rows they will      *)
(* refer to (lock_future_nodes, lock_future_members, FOR SHARE) and        *)
(* writes; other transactions run between any two statements, and between  *)
(* two rows of a locking statement.  PostgreSQL (external) grants and      *)
(* queues the locks, lets a statement see what was committed when it       *)
(* began, reads a row again once it got its lock, and breaks deadlocks.    *)
(* The lists of a call hold an element once: packages are in ChangesetUpload. *)
(***************************************************************************)
EXTENDS UploadBatches, FiniteSets, SequencesExt

CONSTANTS
    Ways,       \* the elements that are ways: what is no relation either is a node
    Uploads,
    Changesets,
    Documents,  \* sequences of batches each upload may consist of
    InitialRows \* rows before the first upload

ASSUME ElementsAssumption ==
    /\ IsFiniteSet(Elements)
    /\ Relations \subseteq Elements
    /\ Ways \subseteq Elements \ Relations

\* Ways refer to nodes, relations to anything.
RefsTyped(e, refs) ==
    /\ e \in Ways => refs \cap (Ways \cup Relations) = {}
    /\ e \notin Ways \cup Relations => refs = {}

\* There is a process_* function for each kind of element.
OneKind(items) ==
    \/ Ids(items) \subseteq Relations
    \/ Ids(items) \subseteq Ways
    \/ Ids(items) \cap (Ways \cup Relations) = {}

RefsClosed(rows) ==
    \A p \in Elements : rows[p].visible => \A e \in rows[p].refs : rows[e].visible

ASSUME InitialRowsAssumption ==
    /\ InitialRows \in [Elements -> Row]
    /\ \A e \in Elements : /\ InitialRows[e].visible => Exists(InitialRows, e)
                           /\ RefsTyped(e, InitialRows[e].refs)
    /\ RefsClosed(InitialRows)

\* The ids of new elements come from sequences: nobody has them already.
ASSUME DocumentsAssumption ==
    /\ Documents \in [Uploads -> SUBSET Seq(Batch)]
    /\ \A u \in Uploads : \A d \in Documents[u] : \A k \in DOMAIN d :
          /\ OneKind(d[k].items)
          /\ \A i \in d[k].items :
                /\ RefsTyped(i.id, i.refs)
                /\ d[k].op = "create" => ~Exists(InitialRows, i.id)

VARIABLES
    db,         \* committed rows
    changeset,  \* changeset each upload holds the lock of
    doc,        \* its batches, without the items it has skipped
    at,         \* the batch it is at
    stage,      \* the statement it is at
    queue,      \* rows its locking statement still has to lock, in its order
    missing,    \* rows that statement did not find
    locks,      \* row locks: who, which row, and the mode
    own,        \* rows as the transaction sees them where it has written them
    answer

progress == <<doc, at, stage, queue, missing, own>>
vars == <<db, changeset, locks, answer, progress>>

Stages == {"idle", "batch", "lock_current", "check", "referenced", "lock_future", "write", "end"}
Modes == {"update", "share"}
Answers == {"none", "running", "ok", "not_found", "conflict", "gone",
            "precondition_failed", "server_error"}
NoChangeset == "none"

\* One type per variable; rows a transaction has written are a function on
\* the elements it wrote.
TypeOK ==
    /\ db \in [Elements -> Row]
    /\ changeset \in [Uploads -> Changesets \cup {NoChangeset}]
    /\ doc \in [Uploads -> Seq(Batch)]
    /\ at \in [Uploads -> Nat \ {0}]
    /\ stage \in [Uploads -> Stages]
    /\ queue \in [Uploads -> Seq(Elements)]
    /\ missing \in [Uploads -> SUBSET Elements]
    /\ locks \subseteq [by: Uploads, row: Elements, mode: Modes]
    /\ DOMAIN own = Uploads
    /\ \A u \in Uploads :
         DOMAIN own[u] \in SUBSET Elements /\ own[u] \in [DOMAIN own[u] -> Row]
    /\ answer \in [Uploads -> Answers]

Init ==
    /\ db = InitialRows
    /\ changeset = [u \in Uploads |-> NoChangeset]
    /\ doc = [u \in Uploads |-> <<>>]
    /\ at = [u \in Uploads |-> 1]
    /\ stage = [u \in Uploads |-> "idle"]
    /\ queue = [u \in Uploads |-> <<>>]
    /\ missing = [u \in Uploads |-> {}]
    /\ locks = {}
    /\ own = [u \in Uploads |-> <<>>]
    /\ answer = [u \in Uploads |-> "none"]

(***************************************************************************)
(* Transactions                                                            *)
(***************************************************************************)
\* What a statement that starts now sees.
Seen(u) == [e \in Elements |-> IF e \in DOMAIN own[u] THEN own[u][e] ELSE db[e]]

batch(u) == doc[u][at[u]]

GoTo(u, s) == stage' = [stage EXCEPT ![u] = s]

\* The transaction ends and its locks with it.
End(u, code) ==
    /\ GoTo(u, "end")
    /\ answer' = [answer EXCEPT ![u] = code]
    /\ locks' = {l \in locks : l.by # u}
    /\ changeset' = [changeset EXCEPT ![u] = NoChangeset]
    /\ queue' = [queue EXCEPT ![u] = <<>>]
    /\ missing' = [missing EXCEPT ![u] = {}]
    /\ own' = [own EXCEPT ![u] = <<>>]
    /\ UNCHANGED <<doc, at>>

\* Mutant: the exception is answered and the transaction stays open.
Throw_mutant(u, code) ==
    /\ GoTo(u, "end")
    /\ answer' = [answer EXCEPT ![u] = code]
    /\ UNCHANGED <<db, changeset, doc, at, queue, missing, locks, own>>

\* An exception leaves the responder and the transaction is rolled back.
Throw(u, code) == End(u, code) /\ UNCHANGED db

\* The locks u has to wait for before it gets the row in this mode.
Blocking(u, e, mode) ==
    {l \in locks : l.by # u /\ l.row = e /\ "update" \in {l.mode, mode}}

ModeOf(s) == IF s = "lock_current" THEN "update" ELSE "share"

Waiting(u) == stage[u] \in {"lock_current", "lock_future"} /\ queue[u] # <<>>
WaitsFor(u) ==
    IF Waiting(u)
    THEN {l.by : l \in Blocking(u, Head(queue[u]), ModeOf(stage[u]))}
    ELSE {}

(***************************************************************************)
(* The upload                                                              *)
(***************************************************************************)
\* The ids of new elements come from sequences: nobody gets the same one.
Created(d) == UNION {Ids(d[k].items) : k \in {j \in DOMAIN d : d[j].op = "create"}}
NewIds(u, d) == \A v \in Uploads \ {u} : Created(d) \cap Created(doc[v]) = {}

\* lock_current_changeset: FOR UPDATE NOWAIT.
lock_current_changeset(u) ==
    /\ stage[u] = "idle"
    /\ \E c \in Changesets :
         \/ /\ \E v \in Uploads : changeset[v] = c
            /\ Throw(u, "conflict")
         \/ /\ \A v \in Uploads : changeset[v] # c
            /\ changeset' = [changeset EXCEPT ![u] = c]
            /\ \E d \in Documents[u] : NewIds(u, d) /\ doc' = [doc EXCEPT ![u] = d]
            /\ GoTo(u, "batch")
            /\ answer' = [answer EXCEPT ![u] = "running"]
            /\ UNCHANGED <<db, at, queue, missing, locks, own>>

\* A locking statement starts: the rows of its WHERE clause, as it sees them,
\* are locked one after the other in the order of the scan.
StartLocking(u, s, wanted, notfound) ==
    /\ GoTo(u, s)
    /\ missing' = [missing EXCEPT ![u] = notfound]
    /\ \E order \in SetToSeqs(wanted \ notfound) : queue' = [queue EXCEPT ![u] = order]
    /\ UNCHANGED <<db, changeset, doc, at, locks, own, answer>>

\* Mutant: the rows are read without FOR UPDATE.
start_lock_current_mutant(u) ==
    StartLocking(u, "lock_current", {}, MissingCurrent(Seen(u), batch(u)))

start_lock_current(u) ==
    StartLocking(u, "lock_current", Ids(batch(u).items), MissingCurrent(Seen(u), batch(u)))

lock_current(u) ==
    /\ stage[u] = "batch"
    /\ at[u] \in DOMAIN doc[u]
    /\ batch(u).op # "create"
    /\ start_lock_current(u)

\* lock_future_nodes, or lock_future_members with its statements for nodes, ways
\* and relations, which are taken as one: what the later ones see was committed
\* when the first began.
\* Mutant: nothing is locked.
start_lock_future_mutant(u) ==
    StartLocking(u, "lock_future", {}, MissingFuture(Seen(u), batch(u)))

start_lock_future(u) ==
    StartLocking(u, "lock_future", FutureMembers(batch(u)), MissingFuture(Seen(u), batch(u)))

create(u) ==
    /\ stage[u] = "batch"
    /\ at[u] \in DOMAIN doc[u]
    /\ batch(u).op = "create"
    /\ start_lock_future(u)

\* Mutant: the row is not read again.
StillThere_mutant(u, e) == TRUE

\* visible = true is checked again once the row is locked.
StillThere(u, e) == stage[u] = "lock_current" \/ Seen(u)[e].visible

Free(u, e) == Blocking(u, e, ModeOf(stage[u])) = {}

\* The next row of the statement is locked, after a wait if need be.
LockRow(u) ==
    LET e == Head(queue[u])
    IN
    /\ Waiting(u)
    /\ Free(u, e)
    /\ locks' = locks \cup {[by |-> u, row |-> e, mode |-> ModeOf(stage[u])]}
    /\ queue' = [queue EXCEPT ![u] = Tail(@)]
    /\ missing' = [missing EXCEPT ![u] = IF StillThere(u, e) THEN @ ELSE @ \cup {e}]
    /\ UNCHANGED <<db, changeset, doc, at, stage, own, answer>>

\* lock_current_* and lock_future_* throw if a row was missing.
Locked(u) ==
    /\ stage[u] \in {"lock_current", "lock_future"}
    /\ queue[u] = <<>>
    /\ \/ /\ missing[u] # {}
          /\ Throw(u, IF stage[u] = "lock_current" THEN "not_found" ELSE "precondition_failed")
       \/ /\ missing[u] = {}
          /\ GoTo(u, IF stage[u] = "lock_current" THEN "check" ELSE "write")
          /\ UNCHANGED <<db, changeset, doc, at, queue, missing, locks, own, answer>>

\* Items that are skipped leave the document.
Drop(u, items) == doc' = [doc EXCEPT ![u][at[u]].items = @ \ items]

\* determine_already_deleted_* and check_current_*_versions.
check(u) ==
    LET deleted == IF batch(u).op = "delete" THEN AlreadyDeleted(Seen(u), batch(u)) ELSE {}
    IN
    /\ stage[u] = "check"
    /\ \/ /\ \E i \in deleted : ~i.if_unused
          /\ Throw(u, "gone")
       \/ /\ \A i \in deleted : i.if_unused
          /\ VersionsDiffer(Seen(u), batch(u).items \ deleted)
          /\ Throw(u, "conflict")
       \/ /\ \A i \in deleted : i.if_unused
          /\ ~VersionsDiffer(Seen(u), batch(u).items \ deleted)
          /\ \/ /\ batch(u).op = "modify"
                /\ start_lock_future(u)
             \/ /\ batch(u).op = "delete"
                /\ GoTo(u, "referenced")
                /\ Drop(u, deleted)
                /\ UNCHANGED <<db, changeset, at, queue, missing, locks, own, answer>>

referenced(u) ==
    LET in_use == StillReferenced(Seen(u), batch(u).items)
    IN
    /\ stage[u] = "referenced"
    /\ \/ /\ \E i \in in_use : ~i.if_unused
          /\ Throw(u, "precondition_failed")
       \/ /\ \A i \in in_use : i.if_unused
          /\ Drop(u, in_use)
          /\ GoTo(u, "write")
          /\ UNCHANGED <<db, changeset, at, queue, missing, locks, own, answer>>

write(u) ==
    LET ids == Ids(batch(u).items)
    IN
    /\ stage[u] = "write"
    /\ own' = [own EXCEPT ![u] =
           [e \in DOMAIN own[u] \cup ids |-> WriteBatch(Seen(u), batch(u))[e]]]
    /\ at' = [at EXCEPT ![u] = @ + 1]
    /\ GoTo(u, "batch")
    /\ UNCHANGED <<db, changeset, doc, queue, missing, locks, answer>>

commit(u) ==
    /\ stage[u] = "batch"
    /\ at[u] \notin DOMAIN doc[u]
    /\ db' = Seen(u)
    /\ End(u, "ok")

(***************************************************************************)
(* Failures                                                                *)
(***************************************************************************)
\* u waits, through others, for itself.
Deadlocked(u) ==
    \A S \in SUBSET Uploads :
        (WaitsFor(u) \subseteq S /\ \A v \in S : WaitsFor(v) \subseteq S) => u \in S

\* PostgreSQL makes the statement of one of them fail.
deadlock_detected(u) ==
    /\ Deadlocked(u)
    /\ Throw(u, "server_error")

\* The connection or the worker is lost: PostgreSQL rolls back.
connection_lost(u) ==
    /\ stage[u] \notin {"idle", "end"}
    /\ Throw(u, "server_error")

Step(u) ==
    \/ lock_current_changeset(u)
    \/ lock_current(u)
    \/ create(u)
    \/ LockRow(u)
    \/ Locked(u)
    \/ check(u)
    \/ referenced(u)
    \/ write(u)
    \/ commit(u)
    \/ deadlock_detected(u)

Next == \E u \in Uploads : Step(u) \/ connection_lost(u)

\* A worker runs on, a lock that is free is granted and a deadlock is found.
Fairness == \A u \in Uploads : WF_vars(Step(u))

Spec == Init /\ [][Next]_vars /\ Fairness

(***************************************************************************)
(* Properties                                                              *)
(***************************************************************************)
\* What is committed is never left with a visible way or relation that
\* refers to a deleted or unknown element, whatever uploads run side by side
\* (is_*_still_referenced against lock_future_*).
RefsVisible == RefsClosed(db)

\* The calls before the k-th that have written an element.
WrittenBefore(u, k, e) == {j \in DOMAIN doc[u] : j < k /\ e \in Ids(doc[u][j].items)}

\* No update is lost: as long as an upload runs, the version that each of its
\* modifications and deletions names is the committed one, counted on by what
\* the same document did to the element before.  check_current_*_versions
\* compares it once, when others may be about to commit the same row; that it
\* still holds at the commit is up to lock_current_*.  Elements the upload
\* creates are nobody else's.
NoLostUpdate ==
    \A u \in Uploads : \A k \in DOMAIN doc[u] :
        stage[u] # "end" /\ k < at[u] =>
            \A i \in doc[u][k].items : i.id \notin Created(doc[u]) =>
                i.version = db[i.id].version + Cardinality(WrittenBefore(u, k, i.id))

\* Every upload ends, the ones that wait for each other's rows too.
UploadsEnd == \A u \in Uploads : <>(stage[u] = "end")

\* Every upload takes effect at once or not at all, and its answer is the
\* one it would get alone at some moment (pqxx::work, the row locks and the
\* order of checks and locks in the process_* functions).
Verdict(u) ==
    IF missing[u] = {} THEN "none"
    ELSE IF stage[u] = "lock_current" THEN "not_found" ELSE "precondition_failed"
Serial == INSTANCE SerialUploads WITH
    db <- db,
    doc <- doc,
    verdict <- [u \in Uploads |-> Verdict(u)],
    answer <- answer
Serializable == Serial!Spec
=============================================================================
