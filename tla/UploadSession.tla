---------------------------- MODULE UploadSession ----------------------------
(***************************************************************************)
(* The state of one changeset upload: the committed tables, the working    *)
(* tables of the transaction that runs in it, and the C++ objects that     *)
(* live as long as it does (the three updaters, the change tracking and    *)
(* the OSMChange_Handler with its buffers).                                *)
(***************************************************************************)
EXTENDS ApiDB, ChangesetUpdater

VARIABLES
    db,         \* committed tables
    cs,         \* committed changesets row of the changeset
    tx,         \* tables as the transaction sees them
    ct,         \* OSMChange_Tracking
    buffer,     \* create_*, modify_* and delete_* lists of the updaters
    create_placeholder_ids, \* of each updater
    m_bbox,     \* of each updater
    packages,   \* of the process_modify_* that is running
    package,    \* the package it processes next
    current_state, \* OSMChange_Handler::current_state
    todo,       \* calls handle_new_state still has to make
    pending,    \* the element (or end) that caused the transition
    phase,
    response,   \* of the last request that ended
    uploads     \* number of uploads so far

sessionVars == <<ct, buffer, create_placeholder_ids, m_bbox, packages, package,
                 current_state, todo, pending, phase>>
vars == <<db, cs, tx, response, uploads, sessionVars>>

States == {"st_initial", "st_create_node", "st_create_way", "st_create_relation",
           "st_modify", "st_delete_node", "st_delete_way", "st_delete_relation",
           "st_finished"}

\* A call of process_new_*, process_modify_* or process_delete_*; "package"
\* is the loop over the packages inside a process_modify_*.
Call == [op: Ops \cup {"package"}, type: Types]

\* What caused a transition: an element, or the end of the document.
EndOfDocument == [op |-> "end"]

DiffResult ==
    [op: Ops, type: Types, old_id: Int, new_id: Nat, new_version: Nat,
     deletion_skipped: BOOLEAN]

NoTracking ==
    [created |-> [t \in Types |-> {}], modified |-> [t \in Types |-> {}],
     deleted |-> [t \in Types |-> {}], skip_deleted |-> [t \in Types |-> {}],
     orig_sequence |-> <<>>]

EmptyBuffer == [op \in Ops |-> [t \in Types |-> <<>>]]

\* The objects are constructed with the request and destroyed with it.
FreshSession ==
    /\ ct' = NoTracking
    /\ buffer' = EmptyBuffer
    /\ create_placeholder_ids' = [t \in Types |-> {}]
    /\ m_bbox' = [t \in Types |-> undefined_bbox]
    /\ packages' = <<>>
    /\ package' = 1
    /\ current_state' = "st_initial"
    /\ todo' = <<>>
    /\ pending' = EndOfDocument

\* An exception leaves the responder: the transaction is rolled back.
Throw(code) ==
    /\ tx' = db
    /\ FreshSession
    /\ phase' = "idle"
    /\ response' = [code |-> code, diffresult |-> <<>>]
    /\ UNCHANGED <<db, cs, uploads>>

\* handle_new_state is about to make this call.
Calling(op, t) ==
    /\ phase = "flushing"
    /\ todo # <<>>
    /\ Head(todo) = [op |-> op, type |-> t]

\* The call has returned, its buffer is cleared.
Return(op, t) ==
    /\ todo' = Tail(todo)
    /\ buffer' = [buffer EXCEPT ![op][t] = <<>>]

\* What no process_* function changes.
handlerVars == <<db, cs, current_state, pending, phase, response, uploads>>
=============================================================================
