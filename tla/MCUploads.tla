----------------------------- MODULE MCUploads -------------------------------
(***************************************************************************)
(* A small database and the elements of the documents uploaded to it.      *)
(***************************************************************************)
EXTENDS ChangesetUpload

MCPlaceholders == {-1, -2}
MCTags == {"a", "b"}

Rows(f) == [id \in Ids |-> IF id \in DOMAIN f THEN f[id] ELSE NoRow]
Live(v, loc) == [version |-> v, visible |-> TRUE, loc |-> loc]
Dead(v, loc) == [version |-> v, visible |-> FALSE, loc |-> loc]
MemberRows(id, seq) ==
    {[id |-> id, seq |-> k, type |-> seq[k].type, ref |-> seq[k].ref] : k \in DOMAIN seq}
N(ref) == [type |-> "Node", ref |-> ref]
W(ref) == [type |-> "Way", ref |-> ref]
R(ref) == [type |-> "Relation", ref |-> ref]

\* Tables whose history holds the current rows, all of them at version 1
\* except deleted ones, which have been created and deleted.
Database(current, tags, members, id_seq) ==
    [current |-> current, tags |-> tags, members |-> members,
     history |-> [t \in Types |->
         UNION {{[id |-> id, version |-> v,
                  visible |-> current[t][id].visible \/ v < current[t][id].version,
                  loc |-> current[t][id].loc] : v \in 1..current[t][id].version} : id \in Ids}],
     history_tags |-> [t \in Types |->
         {[id |-> r.id, version |-> 1, tag |-> r.tag] : r \in tags[t]}],
     history_members |-> [t \in Types |->
         {[id |-> r.id, version |-> 1, seq |-> r.seq, type |-> r.type, ref |-> r.ref] :
             r \in members[t]}],
     id_seq |-> id_seq]

ByType(n, w, r) == [t \in Types |-> CASE t = "Node" -> n [] t = "Way" -> w [] t = "Relation" -> r]

E(op, t, id, v, loc, tags, members, if_unused) ==
    [op |-> op, type |-> t, old_id |-> id, id |-> IF id > 0 THEN id ELSE 0, version |-> v,
     loc |-> loc, tags |-> tags, members |-> members, if_unused |-> if_unused,
     same_changeset |-> TRUE]
Create(t, id, loc, tags, members) == E("create", t, id, 0, loc, tags, members, FALSE)
Modify(t, id, v, loc, tags, members) == E("modify", t, id, v, loc, tags, members, FALSE)
Delete(t, id, v, if_unused) == E("delete", t, id, v, 0, {}, <<>>, if_unused)

InSituation(tables, elements, max_elements, max_uploads, rate_limit, bbox_size_limit) ==
    [tables |-> tables, elements |-> elements, max_elements |-> max_elements,
     max_uploads |-> max_uploads, rate_limit |-> rate_limit, bbox_size_limit |-> bbox_size_limit]

-----------------------------------------------------------------------------
(* Nodes and ways: node 1 is used by way 1, node 2 by relation 1, node 3 is
   deleted. *)

WaysDB ==
    Database(ByType(Rows(<<Live(1, 10), Live(1, 20), Dead(2, 30)>>),
                    Rows(<<Live(1, 0)>>), Rows(<<Live(1, 0)>>)),
             ByType({[id |-> 1, tag |-> "a"]}, {[id |-> 1, tag |-> "a"]}, {}),
             ByType({}, MemberRows(1, <<N(1)>>), MemberRows(1, <<N(2)>>)),
             ByType(3, 1, 1))

WaysElements ==
    {Create("Node", -1, 40, {"a"}, <<>>),
     Modify("Node", 1, 1, 15, {"b"}, <<>>), Modify("Node", 1, 2, 16, {}, <<>>),
     Modify("Node", 3, 2, 35, {"a"}, <<>>),
     Delete("Node", 1, 1, FALSE), Delete("Node", 2, 1, TRUE), Delete("Node", 3, 3, FALSE),
     Create("Way", -1, 0, {"b"}, <<N(-1), N(1)>>),
     Modify("Way", 1, 1, 0, {}, <<N(2), N(3)>>),
     Delete("Way", 1, 1, TRUE), Delete("Way", -1, 1, FALSE)}

Ways == InSituation(WaysDB, WaysElements, 4, 1, 10, 100)

-----------------------------------------------------------------------------
(* Relations in relations: 1 is a member of 2, and 2 of 3; 4 is deleted.
   Way 1 is a member of relation 2.  All deletes carry if-unused. *)

RelationsDB ==
    Database(ByType(Rows(<<Live(1, 10), Live(1, 20)>>), Rows(<<Live(1, 0)>>),
                    Rows(<<Live(1, 0), Live(1, 0), Live(1, 0), Dead(2, 0)>>)),
             ByType({}, {}, {[id |-> 1, tag |-> "a"]}),
             ByType({}, MemberRows(1, <<N(2)>>),
                    MemberRows(1, <<N(1)>>) \cup MemberRows(2, <<R(1), W(1)>>)
                        \cup MemberRows(3, <<R(2)>>)),
             ByType(2, 1, 4))

RelationsElements ==
    {Create("Relation", -1, 0, {"a"}, <<N(1)>>),
     Create("Relation", -2, 0, {}, <<R(-1), R(4)>>),
     Modify("Relation", 1, 1, 0, {"a"}, <<N(1), R(4)>>),
     Modify("Relation", 1, 2, 0, {"a", "b"}, <<N(1), N(2)>>),
     Modify("Relation", 2, 1, 0, {}, <<R(1), N(1)>>),
     Modify("Relation", 3, 1, 0, {}, <<N(1), R(4)>>),
     Modify("Relation", 4, 2, 0, {"b"}, <<W(1), R(3)>>),
     Delete("Relation", 1, 1, TRUE), Delete("Relation", 2, 1, TRUE),
     Delete("Relation", 3, 1, TRUE), Delete("Relation", 4, 2, TRUE),
     Delete("Way", 1, 1, TRUE)}

Relations == InSituation(RelationsDB, RelationsElements, 4, 1, 10, 100)

-----------------------------------------------------------------------------
(* Documents that are refused, for every reason an updater, the handler or the
   parser can have. *)

RefusedDB ==
    Database(ByType(Rows(<<Live(1, 10), Live(1, 20)>>), Rows(<<Live(1, 0)>>),
                    Rows(<<Live(1, 0)>>)),
             ByType({}, {}, {}),
             ByType({}, MemberRows(1, <<N(1)>>), MemberRows(1, <<W(1)>>)),
             ByType(2, 1, 1))

OtherChangeset(e) == [e EXCEPT !.same_changeset = FALSE]

RefusedElements ==
    {Create("Node", -1, 20, {}, <<>>), Create("Node", 2, 20, {}, <<>>),
     Modify("Node", 2, 1, 60, {}, <<>>), Modify("Node", 4, 1, 60, {}, <<>>),
     OtherChangeset(Delete("Node", 2, 1, FALSE)), Delete("Node", 2, 2, FALSE),
     Create("Way", -1, 0, {}, <<>>), Create("Way", -1, 0, {}, <<N(-1)>>),
     Modify("Way", 1, 1, 0, {}, <<N(2)>>), Modify("Way", 2, 1, 0, {}, <<N(1)>>),
     Delete("Way", 1, 1, FALSE),
     Create("Relation", -1, 0, {}, <<R(-1)>>), Create("Relation", -2, 0, {}, <<W(1)>>),
     Modify("Relation", 1, 1, 0, {}, <<N(1)>>), Modify("Relation", 2, 1, 0, {}, <<>>),
     Delete("Relation", 1, 1, FALSE), Delete("Relation", 1, 2, FALSE)}

Refused == InSituation(RefusedDB, RefusedElements, 2, 2, 10, 100)

-----------------------------------------------------------------------------
(* Several uploads to one changeset, with the rate limit, the number of
   changes of a changeset and the size of its box within reach. *)

LimitsDB ==
    Database(ByType(Rows(<<Live(1, 10), Live(1, 20)>>), Rows(<<>>), Rows(<<>>)),
             ByType({}, {}, {}), ByType({}, {}, {}), ByType(2, 0, 0))

LimitsElements ==
    {Create("Node", -1, 30, {}, <<>>),
     Modify("Node", 1, 1, 30, {}, <<>>), Modify("Node", 1, 2, 55, {}, <<>>),
     Delete("Node", 2, 1, TRUE)}

Limits == InSituation(LimitsDB, LimitsElements, 3, 3, 2, 30)

-----------------------------------------------------------------------------
(* Relation 1 is a member of 2, and 2 of 3; node 1 is used by way 1, node 2
   by relation 1. *)

FindingsDB ==
    Database(ByType(Rows(<<Live(1, 10), Live(1, 20)>>), Rows(<<Live(1, 0)>>),
                    Rows(<<Live(1, 0), Live(1, 0), Live(1, 0)>>)),
             ByType({}, {}, {[id |-> 1, tag |-> "a"]}),
             ByType({}, MemberRows(1, <<N(1)>>),
                    MemberRows(1, <<N(2)>>) \cup MemberRows(2, <<R(1)>>)
                        \cup MemberRows(3, <<R(2)>>)),
             ByType(2, 1, 3))

\* Some of the deletes carry if-unused, some do not.
MixedDeletes == {Delete("Relation", 1, 1, FALSE), Delete("Relation", 2, 1, TRUE)}

\* Relation 1 loses its node and keeps no other.
LastMemberRemoved == {Modify("Relation", 1, 1, 0, {"a"}, <<>>)}

Finding(elements) == InSituation(FindingsDB, elements, 3, 1, 10, 100)

-----------------------------------------------------------------------------
MCScenarios == {Ways, Relations, Refused, Limits}
MixedDeletesOnly == {Finding(MixedDeletes)}
LastMemberRemovedOnly == {Finding(LastMemberRemoved)}
=============================================================================
