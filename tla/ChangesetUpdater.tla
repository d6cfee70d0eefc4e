-------------------------- MODULE ChangesetUpdater --------------------------
(***************************************************************************)
(* The changesets row of one changeset and what ApiDB_Changeset_Updater    *)
(* (changeset_updater.cpp) reads and writes of it.  now is the value of    *)
(* the SQL function now(): the time at which the transaction began.        *)
(***************************************************************************)
EXTENDS BBox

CONSTANTS
    changeset_max_elements,     \* --max-changeset-elements
    changeset_timeout_open_max, \* --changeset-timeout-open
    changeset_timeout_idle      \* --changeset-timeout-idle

ASSUME MaxElementsAssumption == changeset_max_elements \in Nat \ {0}

\* The options are validated one by one; nothing relates the two timeouts.
\* The defaults are 1 day and 1 hour, and the CASE expression of
\* update_changeset is written for an idle timeout that is the shorter one.
ASSUME TimeoutAssumption ==
    /\ changeset_timeout_open_max \in Nat
    /\ changeset_timeout_idle \in Nat
    /\ changeset_timeout_idle <= changeset_timeout_open_max

Changeset ==
    [created_at: Int, closed_at: Int, num_changes: Nat, bbox: bbox_t]

\* changeset_insert_cs
changeset_insert_cs(now) ==
    [created_at |-> now, closed_at |-> now + changeset_timeout_idle,
     num_changes |-> 0, bbox |-> undefined_bbox]

\* is_closed as lock_cs selects it.
is_closed(cs, now) == now > cs.closed_at

\* The check lock_current_changeset(true) makes before any upload is parsed.
max_elements_reached(cs) == cs.num_changes >= changeset_max_elements

\* Mutant: always extended, never clipped.
update_closed_at_mutant(cs, now) == now + changeset_timeout_idle

\* The closed_at of update_changeset: extended by the idle timeout, clipped
\* to the maximum once the present closed_at is within the idle timeout of it.
update_closed_at(cs, now) ==
    IF cs.closed_at - cs.created_at > changeset_timeout_open_max - changeset_timeout_idle
    THEN cs.created_at + changeset_timeout_open_max
    ELSE now + changeset_timeout_idle

\* update_changeset throws a conflict if this does not hold.
within_max_elements(cs, num_new_changes) ==
    cs.num_changes + num_new_changes <= changeset_max_elements

update_changeset(cs, num_new_changes, bbox, now) ==
    [cs EXCEPT !.num_changes = @ + num_new_changes,
               !.bbox = expand(@, bbox),
               !.closed_at = update_closed_at(cs, now)]

\* api_close_changeset
close_changeset(cs, now) == [cs EXCEPT !.closed_at = now]
=============================================================================
