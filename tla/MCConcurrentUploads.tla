------------------------- MODULE MCConcurrentUploads -------------------------
(***************************************************************************)
(* Uploads over two nodes, a way of n1, a relation of that way and a way   *)
(* that is still to be created.  The documents are the ones that meet: the *)
(* same node modified, a node deleted while it becomes part of a way, rows *)
(* locked in opposite orders, a deleted node brought back.                 *)
(***************************************************************************)
EXTENDS ConcurrentUploads, TLC

CONSTANTS n1, n2, w1, w2, r1, u3

MCElements == {n1, n2, w1, w2, r1}
MCRelations == {r1}
MCWays == {w1, w2}

VisibleRow(refs) == [version |-> 1, visible |-> TRUE, refs |-> refs]
MCInitialRows ==
    n1 :> VisibleRow({}) @@ n2 :> VisibleRow({}) @@ w1 :> VisibleRow({n1})
        @@ w2 :> NoRow @@ r1 :> VisibleRow({w1})

To(e, version, refs) == [id |-> e, version |-> version, refs |-> refs, if_unused |-> FALSE]
IfUnused(e, version) == [id |-> e, version |-> version, refs |-> {}, if_unused |-> TRUE]
Create(items) == [op |-> "create", items |-> items]
Modify(items) == [op |-> "modify", items |-> items]
Delete(items) == [op |-> "delete", items |-> items]

\* The third upload runs into what the first two have left.
Late ==
    {<<Modify({To(n2, 2, {})}), Modify({To(n2, 3, {})})>>, <<Delete({IfUnused(n1, 1), IfUnused(n2, 1)})>>}
MCDocuments == [u \in Uploads |->
    IF u = u3 THEN Late ELSE
    {<<Modify({To(n1, 1, {}), To(n2, 1, {})})>>,
     <<Create({To(w2, 0, {n1, n2})})>>,
     <<Modify({To(w1, 1, {n2})}), Delete({IfUnused(n1, 1)})>>,
     <<Delete({To(n2, 1, {})})>>,
     <<Delete({To(r1, 1, {})}), Delete({To(w1, 1, {})}), Delete({To(n1, 1, {})})>>,
     <<Modify({To(r1, 1, {n2, w1})})>>}]
=============================================================================
