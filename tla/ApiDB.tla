-------------------------------- MODULE ApiDB --------------------------------
(***************************************************************************)
(* The tables an upload writes, and the statements the three element       *)
(* updaters (node_updater.cpp, way_updater.cpp, relation_updater.cpp) run  *)
(* on them.  The updaters repeat the same statements on tables of their    *)
(* own: here a table is indexed by the element type, and a statement takes *)
(* the type t as a parameter.  The modules NodeUpdater, WayUpdater and     *)
(* RelationUpdater put them together under the names of the source.        *)
(*                                                                         *)
(* Abstractions: a tag is one value (key and value are only ever compared  *)
(* together); roles, tiles and timestamps are left out; a way's node list  *)
(* is a member list all of whose members are nodes.  Primary and foreign   *)
(* keys of the schema are not enforced: that the statements respect them   *)
(* is a property (see ChangesetUpload).                                    *)
(***************************************************************************)
EXTENDS BBox, Sequences, FiniteSets

CONSTANTS
    MaxId,          \* the last id of the id sequences the model follows
    Placeholders,   \* negative ids clients use for the elements they create
    Tags

ASSUME MaxIdAssumption == MaxId \in Nat

\* OSM ids are positive and placeholders negative: the code tells them apart
\* by sign.
ASSUME PlaceholdersAssumption == \A p \in Placeholders : p \in Int /\ p < 0

Types == {"Node", "Way", "Relation"}
Ops == {"create", "modify", "delete"}
Ids == 1..MaxId

(***************************************************************************)
(* Results: OK, or the HTTP status of the exception that is thrown.        *)
(***************************************************************************)
OK == 200
bad_request == 400
not_found == 404
conflict == 409
gone == 410
precondition_failed == 412
payload_too_large == 413
too_many_requests == 429
server_error == 500

\* A check, and what is done when it does not throw.
Then(check, next) == IF check = OK THEN next ELSE check

(***************************************************************************)
(* Tables                                                                  *)
(***************************************************************************)
\* A row of current_nodes, current_ways or current_relations.  Version 0: no
\* row with that id.  Only nodes have a location.
Row == [version: Nat, visible: BOOLEAN, loc: Coord]
NoRow == [version |-> 0, visible |-> FALSE, loc |-> 0]

TagRow == [id: Ids, tag: Tags]
MemberRow == [id: Ids, seq: Nat, type: Types, ref: Ids]
HistoryRow == [id: Ids, version: Nat, visible: BOOLEAN, loc: Coord]
HistoryTagRow == [id: Ids, version: Nat, tag: Tags]
HistoryMemberRow == [id: Ids, version: Nat, seq: Nat, type: Types, ref: Ids]

\* members["Way"] is current_way_nodes, members["Relation"] is
\* current_relation_members; nodes have none.
Tables ==
    [current: [Types -> [Ids -> Row]],
     tags: [Types -> SUBSET TagRow],
     members: [Types -> SUBSET MemberRow],
     history: [Types -> SUBSET HistoryRow],
     history_tags: [Types -> SUBSET HistoryTagRow],
     history_members: [Types -> SUBSET HistoryMemberRow],
     id_seq: [Types -> 0..MaxId]]

Exists(tb, t, id) == tb.current[t][id].version > 0
Visible(tb, t, id) == tb.current[t][id].visible

(***************************************************************************)
(* Elements: node_t, way_t and relation_t, and lists (std::vector) of them *)
(***************************************************************************)
Element ==
    [op: Ops, type: Types, old_id: Ids \cup Placeholders, id: Ids \cup {0},
     version: Nat, loc: Coord, tags: SUBSET Tags,
     members: Seq([type: Types, ref: Ids \cup Placeholders]),
     if_unused: BOOLEAN, same_changeset: BOOLEAN]

\* An element whose placeholders have been replaced by ids.
Resolved ==
    [op: Ops, type: Types, old_id: Ids \cup Placeholders, id: Ids,
     version: Nat, loc: Coord, tags: SUBSET Tags,
     members: Seq([type: Types, ref: Ids]),
     if_unused: BOOLEAN, same_changeset: BOOLEAN]

(***************************************************************************)
(* A list of elements is a function from a set of positions: a sequence,   *)
(* or what is left of one when some positions are dropped.                 *)
(***************************************************************************)
IdsOf(l) == {l[i].id : i \in DOMAIN l}
ids_if_unused(l) == {l[i].id : i \in {j \in DOMAIN l : l[j].if_unused}}
ids_without_if_unused(l) == {l[i].id : i \in {j \in DOMAIN l : ~l[j].if_unused}}

\* std::erase_if(): the elements whose id is not in ids.
Without(l, ids) == [i \in {j \in DOMAIN l : l[j].id \notin ids} |-> l[i]]

\* The last element of the list with that id, the one whose old_id a map
\* id_to_old_id holds in the end.
LastOf(l, id) ==
    l[CHOOSE i \in DOMAIN l : /\ l[i].id = id
                              /\ \A j \in DOMAIN l : l[j].id = id => j <= i]

Unique(l) == \A i, j \in DOMAIN l : l[i].id = l[j].id => i = j

\* Elements with the same id cannot be updated by one statement: the k-th
\* element with an id goes to package k.
Occurrence(l, i) == Cardinality({j \in DOMAIN l : j <= i /\ l[j].id = l[i].id})

BuildPackages(l) ==
    [k \in {Occurrence(l, i) : i \in DOMAIN l} |->
        [i \in {j \in DOMAIN l : Occurrence(l, j) = k} |-> l[i]]]

Mapping == [old_id: Ids \cup Placeholders, new_id: Ids, new_version: Nat]

\* skip_deleted_*_ids ends up in a std::map, where the first entry for an
\* old_id stays.
AddSkipped(old, new) == old \cup {m \in new : \A o \in old : o.old_id # m.old_id}

\* What is reported for the ids of a list: (old_id, id, current version).
Mappings(tb, t, l, ids) ==
    {[old_id |-> LastOf(l, id).old_id, new_id |-> id,
      new_version |-> tb.current[t][id].version] : id \in ids}

(***************************************************************************)
(* Placeholders (replace_old_ids_in_*, check_unique_placeholder_ids).      *)
(* created[t] maps the placeholders of created elements to their ids.      *)
(***************************************************************************)
Known(created, t, ref) == ref < 0 => \E m \in created[t] : m.old_id = ref

Resolve(created, t, ref) ==
    IF ref < 0 THEN (CHOOSE m \in created[t] : m.old_id = ref).new_id ELSE ref

PlaceholdersKnown(created, t, l) ==
    \A i \in DOMAIN l :
        /\ Known(created, t, l[i].old_id)
        /\ \A k \in DOMAIN l[i].members :
               Known(created, l[i].members[k].type, l[i].members[k].ref)

ResolveAll(created, t, l) ==
    [i \in DOMAIN l |->
        [l[i] EXCEPT !.id = Resolve(created, t, l[i].old_id),
                     !.members = [k \in DOMAIN l[i].members |->
                         [type |-> l[i].members[k].type,
                          ref |-> Resolve(created, l[i].members[k].type,
                                          l[i].members[k].ref)]]]]

PlaceholdersUnique(seen, l) ==
    /\ \A i \in DOMAIN l : l[i].old_id \notin seen
    /\ \A i, j \in DOMAIN l : l[i].old_id = l[j].old_id => i = j

(***************************************************************************)
(* Statements that read                                                    *)
(***************************************************************************)
\* SELECT ... FOR UPDATE on the ids of the list, EXCEPT the ones locked.
LockCurrent(tb, t, ids) ==
    IF \A id \in ids : Exists(tb, t, id) THEN OK ELSE not_found

\* Mutant: the version of the database may be the newer one.
CheckVersions_mutant(tb, t, l) ==
    IF \A i \in DOMAIN l : l[i].version <= tb.current[t][l[i].id].version
    THEN OK ELSE conflict

\* The elements must name the version the database has.
CheckVersions(tb, t, l) ==
    IF \A i \in DOMAIN l : l[i].version = tb.current[t][l[i].id].version
    THEN OK ELSE conflict

AlreadyDeleted(tb, t, l) == {id \in IdsOf(l) : ~Visible(tb, t, id)}

\* SELECT ... WHERE visible = true FOR SHARE on members of type t.
LockFuture(tb, t, l, exempt) ==
    IF \A i \in DOMAIN l : \A k \in DOMAIN l[i].members :
           \/ l[i].members[k].type # t
           \/ l[i].members[k].ref \in exempt
           \/ Visible(tb, t, l[i].members[k].ref)
    THEN OK ELSE precondition_failed

\* The ids among ids that a row of the member table of type p refers to.
ReferencedBy(tb, p, t, ids) ==
    {id \in ids : \E m \in tb.members[p] : m.type = t /\ m.ref = id}

NodeCoords(tb, ids) ==
    {tb.current["Node"][id].loc : id \in {n \in ids : Exists(tb, "Node", n)}}

\* The nodes and the ways that are members of type-t elements with these ids.
MemberRefs(tb, t, ids, mt) ==
    {m.ref : m \in {r \in tb.members[t] : r.id \in ids /\ r.type = mt}}

(***************************************************************************)
(* Statements that write                                                   *)
(***************************************************************************)
\* INSERT INTO current_*: version 1 and visible, under the ids the sequence
\* hands out (the id of the i-th element of the list is id_seq + i).
InsertCurrent(tb, t, l) ==
    [tb EXCEPT
        !.current[t] = [id \in Ids |->
            IF id - tb.id_seq[t] \in DOMAIN l
            THEN [version |-> 1, visible |-> TRUE, loc |-> l[id - tb.id_seq[t]].loc]
            ELSE tb.current[t][id]],
        !.id_seq[t] = @ + Len(l)]

CreatedMappings(tb, t, l) ==
    {[old_id |-> l[i].old_id, new_id |-> tb.id_seq[t] + i, new_version |-> 1] :
        i \in DOMAIN l}

\* UPDATE current_*: every element has to hit a row of its own, else the
\* number of affected rows differs from the size of the list.
AllHit(tb, t, l) ==
    IF CheckVersions(tb, t, l) = OK /\ Unique(l) THEN OK ELSE server_error

UpdateCurrent(tb, t, l, visible) ==
    [tb EXCEPT !.current[t] = [id \in Ids |->
        IF id \in IdsOf(l)
        THEN [version |-> LastOf(l, id).version + 1,
              visible |-> visible,
              loc |-> IF visible THEN LastOf(l, id).loc ELSE tb.current[t][id].loc]
        ELSE tb.current[t][id]]]

DeleteTags(tb, t, ids) ==
    [tb EXCEPT !.tags[t] = {r \in @ : r.id \notin ids}]

DeleteMembers(tb, t, ids) ==
    [tb EXCEPT !.members[t] = {r \in @ : r.id \notin ids}]

InsertTags(tb, t, l) ==
    [tb EXCEPT !.tags[t] =
        @ \cup UNION {{[id |-> l[i].id, tag |-> g] : g \in l[i].tags} : i \in DOMAIN l}]

IdsWithTags(l) == {l[i].id : i \in {j \in DOMAIN l : l[j].tags # {}}}

InsertMembers(tb, t, l) ==
    [tb EXCEPT !.members[t] =
        @ \cup UNION {{[id |-> l[i].id, seq |-> k, type |-> l[i].members[k].type,
                        ref |-> l[i].members[k].ref] : k \in DOMAIN l[i].members} :
                      i \in DOMAIN l}]

\* INSERT INTO nodes, ways, relations SELECT ... FROM current_*
SaveHistory(tb, t, ids) ==
    [tb EXCEPT !.history[t] =
        @ \cup {[id |-> id, version |-> tb.current[t][id].version,
                 visible |-> tb.current[t][id].visible,
                 loc |-> tb.current[t][id].loc] : id \in ids}]

SaveTagsHistory(tb, t, ids) ==
    [tb EXCEPT !.history_tags[t] =
        @ \cup {[id |-> r.id, version |-> tb.current[t][r.id].version, tag |-> r.tag] :
                r \in {x \in tb.tags[t] : x.id \in ids}}]

SaveMembersHistory(tb, t, ids) ==
    [tb EXCEPT !.history_members[t] =
        @ \cup {[id |-> r.id, version |-> tb.current[t][r.id].version, seq |-> r.seq,
                 type |-> r.type, ref |-> r.ref] :
                r \in {x \in tb.members[t] : x.id \in ids}}]
=============================================================================
