---------------------------- MODULE DataSelection ----------------------------
(***************************************************************************)
(* The queries of the read API (readonly_pgsql_selection.cpp).             *)
(*                                                                         *)
(* A selection is two sets: elements (sel_nodes, sel_ways, sel_relations)  *)
(* and editions, elements with a version (sel_historic_...).  A query      *)
(* reads the database and adds to one of them.  Selected ids are looked up *)
(* only at the end, when the write_ functions fetch their rows.            *)
(*                                                                         *)
(* An element is a pair of a type and an id, db[e] the sequence of its     *)
(* rows in the history tables, empty when there is no such element.  The   *)
(* current row is the last one, which is what uploads guarantee            *)
(* (HistoryComplete of ChangesetUpload).  Tags, authors and coordinates    *)
(* are left out of rows: of a location only counts whether it lies in the  *)
(* box of a map call.                                                      *)
(***************************************************************************)
EXTENDS Naturals, Sequences, FiniteSets

CONSTANTS
    Elements,       \* pairs of a type and an id
    Changesets      \* the changesets there are

ASSUME ElementsAssumption ==
    \A e \in Elements : e[1] \in {"Node", "Way", "Relation"}

OfType(t, S) == {e \in S : e[1] = t}

Row == [visible: BOOLEAN, in_bbox: BOOLEAN, refs: SUBSET Elements,
        changeset: Changesets, redacted: BOOLEAN]
Editions == Elements \X (Nat \ {0})

Exists(db, e) == db[e] # <<>>
Version(db, e) == Len(db[e])
Current(db, e) == db[e][Len(db[e])]
Visible(db, e) == Exists(db, e) /\ Current(db, e).visible
Recorded(db, ed) == ed[2] \in DOMAIN db[ed[1]]
RowOf(db, ed) == db[ed[1]][ed[2]]

\* current_way_nodes and current_relation_members hold the members of current
\* elements; a deleted element has none.
Members(db, e) == IF Exists(db, e) THEN Current(db, e).refs ELSE {}
ParentsOf(db, t, S) == {e \in OfType(t, Elements) : Members(db, e) \cap S # {}}
MembersOf(db, t, S) == OfType(t, UNION {Members(db, e) : e \in S})

\* redactions is m_redactions_visible, cc the users of the changesets met so far.
EmptySelection == [elements |-> {}, editions |-> {}, redactions |-> FALSE, cc |-> <<>>]

insert_results(sel, S) == [sel EXCEPT !.elements = @ \cup S]
insert_editions(sel, S) == [sel EXCEPT !.editions = @ \cup S]
sel_of(sel, t) == OfType(t, sel.elements)
sel_historic_of(sel, t) == {ed \in sel.editions : ed[1][1] = t}

(***************************************************************************)
(* Queries for current elements.                                           *)
(***************************************************************************)
\* select_nodes, select_ways, select_relations
select_ids(db, sel, ids) ==
    insert_results(sel, {e \in ids : Exists(db, e)})

\* check_node_visibility, check_way_visibility, check_relation_visibility
deleted(db, e) == Exists(db, e) /\ ~Visible(db, e)

\* The visible nodes in the box, without the LIMIT.
visible_node_in_bbox(db) ==
    {e \in OfType("Node", Elements) : Visible(db, e) /\ Current(db, e).in_bbox}

select_nodes_from_relations(db, sel) ==
    insert_results(sel, MembersOf(db, "Node", sel_of(sel, "Relation")))

select_ways_from_nodes(db, sel) ==
    insert_results(sel, ParentsOf(db, "Way", sel_of(sel, "Node")))

select_ways_from_relations(db, sel) ==
    insert_results(sel, MembersOf(db, "Way", sel_of(sel, "Relation")))

select_relations_from_ways(db, sel) ==
    insert_results(sel, ParentsOf(db, "Relation", sel_of(sel, "Way")))

select_nodes_from_way_nodes_mutant(db, sel) == sel

select_nodes_from_way_nodes(db, sel) ==
    insert_results(sel, MembersOf(db, "Node", sel_of(sel, "Way")))

select_relations_from_nodes(db, sel) ==
    insert_results(sel, ParentsOf(db, "Relation", sel_of(sel, "Node")))

\* drop: the selected relations themselves are not part of the result.
select_relations_from_relations(db, sel, drop) ==
    LET S == sel_of(sel, "Relation")
        rest == IF drop THEN [sel EXCEPT !.elements = @ \ S] ELSE sel
    IN  insert_results(rest, ParentsOf(db, "Relation", S))

select_relations_members_of_relations(db, sel) ==
    insert_results(sel, MembersOf(db, "Relation", sel_of(sel, "Relation")))

\* drop_nodes, drop_ways, drop_relations
drop(sel, t) == [sel EXCEPT !.elements = @ \ OfType(t, Elements)]

(***************************************************************************)
(* Queries for editions.                                                   *)
(***************************************************************************)
\* redaction_id IS NULL OR $n = TRUE
Readable(db, sel, ed) == sel.redactions \/ ~RowOf(db, ed).redacted

\* select_historical_nodes, select_historical_ways, select_historical_relations
select_historical(db, sel, eds) ==
    insert_editions(sel, {ed \in eds : Recorded(db, ed) /\ Readable(db, sel, ed)})

\* select_nodes_with_history, select_ways_with_history, ...
select_with_history(db, sel, e) ==
    insert_editions(sel,
        {ed \in {e} \X DOMAIN db[e] : Readable(db, sel, ed)})

select_by_changeset_mutant(db, sel, t, cs) ==
    insert_results(sel,
        {e \in OfType(t, Elements) : Exists(db, e) /\ Current(db, e).changeset = cs})

\* One of the three queries of select_historical_by_changesets.
select_by_changeset(db, sel, t, cs) ==
    insert_editions(sel,
        {ed \in UNION {{e} \X DOMAIN db[e] : e \in OfType(t, Elements)} :
             /\ RowOf(db, ed).changeset = cs
             /\ Readable(db, sel, ed)})

(***************************************************************************)
(* write_nodes, write_ways and write_relations                             *)
(***************************************************************************)
\* Elements and editions are both selected: the elements become editions,
\* their current ones.
is_mixed(sel, t) == sel_of(sel, t) # {} /\ sel_historic_of(sel, t) # {}

lookup_versions(db, sel, t) ==
    [drop(sel, t) EXCEPT
        !.editions = @ \cup {<<e, Version(db, e)>> : e \in sel_of(sel, t)}]

\* What is written of a row, but for the author: the edition and what the
\* properties look at.
Extracted(db, ed) == [edition |-> ed, visible |-> RowOf(db, ed).visible,
                      refs |-> RowOf(db, ed).refs, changeset |-> RowOf(db, ed).changeset,
                      redacted |-> RowOf(db, ed).redacted]

\* Selected elements that have a row, or else the selected editions.
extract(db, sel, t) ==
    IF sel_of(sel, t) # {}
    THEN {Extracted(db, <<e, Version(db, e)>>) : e \in {d \in sel_of(sel, t) : Exists(db, d)}}
    ELSE {Extracted(db, ed) : ed \in {d \in sel_historic_of(sel, t) : Recorded(db, d)}}

fetch_changesets_mutant(sel, names, ids) ==
    [sel EXCEPT !.cc = [c \in DOMAIN sel.cc \cup ids |-> IF c \in ids THEN names[c] ELSE sel.cc[c]]]

\* names[c] is the display name of the user of changeset c; only changesets
\* that are not yet in cc are looked up.  That a changeset and its user exist
\* is a foreign key of the schema.
fetch_changesets(sel, names, ids) ==
    [sel EXCEPT !.cc = [c \in DOMAIN sel.cc \cup ids |->
                            IF c \in DOMAIN sel.cc THEN sel.cc[c] ELSE names[c]]]

Written(rows, cc) ==
    {[edition |-> r.edition, visible |-> r.visible, refs |-> r.refs,
      changeset |-> r.changeset, redacted |-> r.redacted, author |-> cc[r.changeset]] : r \in rows}
=============================================================================
