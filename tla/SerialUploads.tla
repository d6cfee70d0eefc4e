---------------------------- MODULE SerialUploads ----------------------------
(***************************************************************************)
(* What uploads promise each other: every one takes effect in one step, as *)
(* if it were alone, or not at all, and is refused only with the status it *)
(* would get if it were run alone at some moment between its start and its *)
(* answer.  A delete with the if-unused flag may be skipped when its       *)
(* element is in use, or already deleted, at such a moment.                *)
(***************************************************************************)
EXTENDS UploadBatches, SequencesExt

CONSTANTS Uploads, Documents

VARIABLES
    db,         \* committed rows
    doc,        \* document of each upload, without the items it skips
    verdict,    \* refusal that is decided but not answered
    answer

vars == <<db, doc, verdict, answer>>

BatchVerdict(rows, batch) ==
    LET deleted == AlreadyDeleted(rows, batch)
        in_use == StillReferenced(rows, batch.items \ deleted)
    IN  CASE batch.op = "create" ->
               IF MissingFuture(rows, batch) # {} THEN "precondition_failed" ELSE "ok"
          [] batch.op = "modify" ->
               IF MissingCurrent(rows, batch) # {} THEN "not_found"
               ELSE IF VersionsDiffer(rows, batch.items) THEN "conflict"
               ELSE IF MissingFuture(rows, batch) # {} THEN "precondition_failed"
               ELSE "ok"
          [] batch.op = "delete" ->
               IF MissingCurrent(rows, batch) # {} THEN "not_found"
               ELSE IF \E i \in deleted : ~i.if_unused THEN "gone"
               ELSE IF VersionsDiffer(rows, batch.items \ deleted) THEN "conflict"
               ELSE IF \E i \in in_use : ~i.if_unused THEN "precondition_failed"
               ELSE IF deleted \cup in_use # {} THEN "skip"
               ELSE "ok"

\* The batches one after the other, up to the first that is not "ok".
RunBatch(state, batch) ==
    LET code == BatchVerdict(state.rows, batch)
    IN  IF state.code # "ok" THEN state
        ELSE IF code = "ok" THEN [state EXCEPT !.rows = WriteBatch(@, batch)]
        ELSE [state EXCEPT !.code = code]
RunAlone(rows, d) == FoldLeft(RunBatch, [rows |-> rows, code |-> "ok"], d)

Running(u) == answer[u] = "running"

Init ==
    /\ db \in [Elements -> Row]
    /\ doc = [u \in Uploads |-> <<>>]
    /\ verdict = [u \in Uploads |-> "none"]
    /\ answer = [u \in Uploads |-> "none"]

Start(u) ==
    /\ answer[u] = "none"
    /\ \E d \in Documents[u] : doc' = [doc EXCEPT ![u] = d]
    /\ answer' = [answer EXCEPT ![u] = "running"]
    /\ UNCHANGED <<db, verdict>>

\* Another upload holds the changeset.
Locked(u) ==
    /\ answer[u] = "none"
    /\ \E v \in Uploads \ {u} : Running(v)
    /\ answer' = [answer EXCEPT ![u] = "conflict"]
    /\ UNCHANGED <<db, doc, verdict>>

Skip(u) ==
    /\ Running(u)
    /\ \E k \in DOMAIN doc[u] :
         LET before == RunAlone(db, SubSeq(doc[u], 1, k - 1))
             batch == doc[u][k]
             deleted == AlreadyDeleted(before.rows, batch)
             unused == StillReferenced(before.rows, batch.items \ deleted)
         IN /\ before.code = "ok"
            /\ batch.op = "delete"
            /\ \E S \in SUBSET {i \in deleted \cup unused : i.if_unused} :
                 doc' = [doc EXCEPT ![u][k].items = @ \ S]
    /\ UNCHANGED <<db, verdict, answer>>

Decide(u) ==
    /\ Running(u)
    /\ verdict[u] = "none"
    /\ RunAlone(db, doc[u]).code \notin {"ok", "skip"}
    /\ verdict' = [verdict EXCEPT ![u] = RunAlone(db, doc[u]).code]
    /\ UNCHANGED <<db, doc, answer>>

Refuse(u) ==
    /\ Running(u)
    /\ answer' = [answer EXCEPT ![u] =
           IF verdict[u] # "none" THEN verdict[u] ELSE RunAlone(db, doc[u]).code]
    /\ answer'[u] \notin {"ok", "skip"}
    /\ verdict' = [verdict EXCEPT ![u] = "none"]
    /\ UNCHANGED <<db, doc>>

Commit(u) ==
    /\ Running(u)
    /\ verdict[u] = "none"
    /\ RunAlone(db, doc[u]).code = "ok"
    /\ db' = RunAlone(db, doc[u]).rows
    /\ answer' = [answer EXCEPT ![u] = "ok"]
    /\ UNCHANGED <<doc, verdict>>

\* The transaction is lost: a deadlock, a broken connection, a killed worker.
Fail(u) ==
    /\ Running(u)
    /\ answer' = [answer EXCEPT ![u] = "server_error"]
    /\ verdict' = [verdict EXCEPT ![u] = "none"]
    /\ UNCHANGED <<db, doc>>

Next ==
    \E u \in Uploads :
        \/ Start(u)
        \/ Locked(u)
        \/ Skip(u)
        \/ Decide(u)
        \/ Refuse(u)
        \/ Commit(u)
        \/ Fail(u)

Spec == Init /\ [][Next]_vars
=============================================================================
