------------------------- MODULE ReadRequestsProofs -------------------------
(***************************************************************************)
(* Theorems about ReadRequests: what an answer may show and may not miss,  *)
(* for any database, requests and number of commits between the queries,   *)
(* and what it is when there are none.                                     *)
(***************************************************************************)
EXTENDS ReadRequests, SequenceTheorems, FiniteSetTheorems, TLAPS

(***************************************************************************)
(* The queries of a request run in one order, whatever the responder.      *)
(***************************************************************************)
Rank(q) ==
    CASE q = "authenticate" -> 1
      [] q = "get_roles_for_user" -> 2
      [] q = "select" -> 3
      [] q = "check_visibility" -> 4
      [] q = "nodes_from_bbox" -> 5
      [] q = "ways_from_nodes" -> 6
      [] q = "nodes_from_relations" -> 7
      [] q = "ways_from_relations" -> 8
      [] q = "nodes_from_way_nodes" -> 9
      [] q = "members_of_relations" -> 10
      [] q = "relations_from_ways" -> 11
      [] q = "relations_from_nodes" -> 12
      [] q = "relations_from_relations" -> 13
      [] q = "parents_only" -> 14
      [] q = "drop" -> 15
      [] q = "historical" -> 16
      [] q = "with_history" -> 17
      [] q = "changeset" -> 18
      [] q = "nodes_by_changeset" -> 19
      [] q = "ways_by_changeset" -> 20
      [] q = "relations_by_changeset" -> 21
      [] q = "users" -> 22
      [] q = "write_nodes" -> 23
      [] q = "write_ways" -> 24
      [] q = "write_relations" -> 25
      [] OTHER -> 26

WriteQueries == {"write_nodes", "write_ways", "write_relations"}
EditionQueries ==
    {"historical", "with_history", "nodes_by_changeset", "ways_by_changeset",
     "relations_by_changeset"}
Queries ==
    {"authenticate", "get_roles_for_user", "select", "check_visibility", "nodes_from_bbox",
     "ways_from_nodes", "nodes_from_relations", "ways_from_relations", "nodes_from_way_nodes",
     "members_of_relations", "relations_from_ways", "relations_from_nodes",
     "relations_from_relations", "parents_only", "drop", "changeset", "users"}
    \cup EditionQueries \cup WriteQueries

Ordered(s) == \A j, k \in DOMAIN s : j < k => Rank(s[j]) < Rank(s[k])
QueriesIn(s) == {s[k] : k \in DOMAIN s}

InOrder(s, lo, hi) ==
    /\ s \in Seq(Queries) /\ Ordered(s)
    /\ \A q \in QueriesIn(s) : lo <= Rank(q) /\ Rank(q) <= hi

LEMMA RankType == \A q : Rank(q) \in Nat
BY DEF Rank

LEMMA RankValues ==
    /\ Rank("authenticate") = 1
    /\ Rank("get_roles_for_user") = 2
    /\ Rank("select") = 3
    /\ Rank("check_visibility") = 4
    /\ Rank("nodes_from_bbox") = 5
    /\ Rank("ways_from_nodes") = 6
    /\ Rank("nodes_from_relations") = 7
    /\ Rank("ways_from_relations") = 8
    /\ Rank("nodes_from_way_nodes") = 9
    /\ Rank("members_of_relations") = 10
    /\ Rank("relations_from_ways") = 11
    /\ Rank("relations_from_nodes") = 12
    /\ Rank("relations_from_relations") = 13
    /\ Rank("parents_only") = 14
    /\ Rank("drop") = 15
    /\ Rank("historical") = 16
    /\ Rank("with_history") = 17
    /\ Rank("changeset") = 18
    /\ Rank("nodes_by_changeset") = 19
    /\ Rank("ways_by_changeset") = 20
    /\ Rank("relations_by_changeset") = 21
    /\ Rank("users") = 22
    /\ Rank("write_nodes") = 23
    /\ Rank("write_ways") = 24
    /\ Rank("write_relations") = 25
BY DEF Rank

\* What is left when the first query has run.
LEMMA TailFacts ==
    ASSUME NEW s \in Seq(Queries), Ordered(s), s # <<>>
    PROVE  /\ Tail(s) \in Seq(Queries) /\ Ordered(Tail(s))
           /\ Head(s) \in QueriesIn(s)
           /\ QueriesIn(Tail(s)) = QueriesIn(s) \ {Head(s)}
           /\ \A q \in QueriesIn(s) : q = Head(s) \/ Rank(Head(s)) < Rank(q)
<1>1. /\ Tail(s) \in Seq(Queries) /\ Len(s) \in Nat \ {0} /\ Len(Tail(s)) = Len(s) - 1
      /\ DOMAIN s = 1..Len(s) /\ DOMAIN Tail(s) = 1..Len(Tail(s)) /\ Head(s) = s[1]
      /\ \A i \in 1..Len(Tail(s)) : Tail(s)[i] = s[i + 1]
  BY HeadTailProperties, LenProperties, EmptySeq
<1>2. \A k \in DOMAIN Tail(s) : k + 1 \in DOMAIN s /\ Tail(s)[k] = s[k + 1]
  BY <1>1
<1>3. \A j \in DOMAIN s : j = 1 \/ (1 < j /\ j - 1 \in DOMAIN Tail(s) /\ Tail(s)[j - 1] = s[j])
  BY <1>1
<1>4. 1 \in DOMAIN s /\ DOMAIN s \subseteq Nat
  BY <1>1
<1>5. Ordered(Tail(s))
  BY <1>1, <1>2 DEF Ordered
<1>6. \A j \in DOMAIN s : j = 1 \/ Rank(s[1]) < Rank(s[j])
  BY <1>3, <1>4 DEF Ordered
<1>7. \A q \in QueriesIn(s) : q = Head(s) \/ Rank(Head(s)) < Rank(q)
  BY <1>1, <1>6 DEF QueriesIn
<1>8. \A k \in DOMAIN Tail(s) : Tail(s)[k] # s[1]
  <2> TAKE k \in DOMAIN Tail(s)
  <2>1. k + 1 # 1 /\ k + 1 \in DOMAIN s
    BY <1>1, <1>2
  <2>2. Rank(s[1]) < Rank(s[k + 1])
    BY <1>6, <2>1
  <2>3. Rank(s[1]) \in Nat
    BY RankType
  <2>4. QED
    BY <1>2, <2>2, <2>3
<1>9. QueriesIn(Tail(s)) = QueriesIn(s) \ {Head(s)}
  <2>1. \A q : q \in QueriesIn(Tail(s)) => q \in QueriesIn(s) /\ q # Head(s)
    BY <1>1, <1>2, <1>8 DEF QueriesIn
  <2>2. ASSUME NEW q \in QueriesIn(s), q # Head(s) PROVE q \in QueriesIn(Tail(s))
    <3>1. PICK j \in DOMAIN s : q = s[j]
      BY DEF QueriesIn
    <3>2. j - 1 \in DOMAIN Tail(s) /\ Tail(s)[j - 1] = q
      BY <1>1, <1>3, <2>2, <3>1
    <3>3. QED
      BY <3>2 DEF QueriesIn
  <2>3. QED
    BY <2>1, <2>2
<1>10. QED
  BY <1>1, <1>4, <1>5, <1>7, <1>9 DEF QueriesIn

LEMMA ConcatFacts ==
    ASSUME NEW s \in Seq(Queries), NEW t \in Seq(Queries), Ordered(s), Ordered(t),
           \A a \in QueriesIn(s), b \in QueriesIn(t) : Rank(a) < Rank(b)
    PROVE  /\ s \o t \in Seq(Queries) /\ Ordered(s \o t)
           /\ QueriesIn(s \o t) = QueriesIn(s) \cup QueriesIn(t)
<1> DEFINE m == Len(s)
           n == Len(t)
           c == s \o t
<1>1. /\ c \in Seq(Queries) /\ m \in Nat /\ n \in Nat /\ DOMAIN s = 1..m /\ DOMAIN t = 1..n
      /\ DOMAIN c = 1..(m + n)
      /\ \A i \in 1..(m + n) : c[i] = IF i <= m THEN s[i] ELSE t[i - m]
  BY ConcatProperties, LenProperties
<1> HIDE DEF m, n, c
<1>2. \A i \in DOMAIN c : \/ i <= m /\ i \in DOMAIN s /\ c[i] = s[i]
                          \/ i > m /\ i - m \in DOMAIN t /\ c[i] = t[i - m]
  BY <1>1
<1>3. ASSUME NEW j \in DOMAIN c, NEW k \in DOMAIN c, j < k PROVE Rank(c[j]) < Rank(c[k])
  <2>1. CASE k <= m
    BY <1>1, <1>2, <1>3, <2>1 DEF Ordered
  <2>2. CASE j <= m /\ k > m
    <3>1. c[j] \in QueriesIn(s) /\ c[k] \in QueriesIn(t)
      BY <1>1, <1>2, <2>2 DEF QueriesIn
    <3>2. QED
      BY <3>1
  <2>3. CASE j > m /\ k > m
    <3>1. j - m \in DOMAIN t /\ k - m \in DOMAIN t /\ j - m < k - m /\ c[j] = t[j - m] /\ c[k] = t[k - m]
      BY <1>1, <1>2, <1>3, <2>3
    <3>2. QED
      BY <3>1 DEF Ordered
  <2>4. QED
    BY <1>1, <1>3, <2>1, <2>2, <2>3
<1>4. QueriesIn(c) \subseteq QueriesIn(s) \cup QueriesIn(t)
  BY <1>2 DEF QueriesIn
<1>5. \A i \in DOMAIN s : i \in DOMAIN c /\ c[i] = s[i]
  BY <1>1
<1>6. \A i \in DOMAIN t : i + m \in DOMAIN c /\ c[i + m] = t[i]
  BY <1>1
<1>7. QueriesIn(s) \cup QueriesIn(t) \subseteq QueriesIn(c)
  BY <1>5, <1>6 DEF QueriesIn
<1>8. QED
  BY <1>1, <1>3, <1>4, <1>7 DEF Ordered, c

\* The queries of each responder are in that order.
LEMMA IdentifyOrder ==
    InOrder(Identify, 1, 2) /\ QueriesIn(Identify) = {"authenticate", "get_roles_for_user"}
<1>1. Identify \in Seq(Queries)
  BY DEF Identify, Queries, EditionQueries, WriteQueries
<1>2. Ordered(Identify)
  BY RankValues DEF Ordered, Identify
<1>3. QueriesIn(Identify) = {"authenticate", "get_roles_for_user"}
  BY DEF QueriesIn, Identify
<1>4. QED
  BY <1>1, <1>2, <1>3, RankValues DEF InOrder

LEMMA WritesOrder ==
    InOrder(Writes, 23, 25) /\ QueriesIn(Writes) = {"write_nodes", "write_ways", "write_relations"}
<1>1. Writes \in Seq(Queries)
  BY DEF Writes, Queries, EditionQueries, WriteQueries
<1>2. Ordered(Writes)
  BY RankValues DEF Ordered, Writes
<1>3. QueriesIn(Writes) = {"write_nodes", "write_ways", "write_relations"}
  BY DEF QueriesIn, Writes
<1>4. QED
  BY <1>1, <1>2, <1>3, RankValues DEF InOrder

LEMMA ElementOrder ==
    InOrder(element_responder, 3, 21) /\ QueriesIn(element_responder) = {"select", "check_visibility"}
<1>1. element_responder \in Seq(Queries)
  BY DEF element_responder, Queries, EditionQueries, WriteQueries
<1>2. Ordered(element_responder)
  BY RankValues DEF Ordered, element_responder
<1>3. QueriesIn(element_responder) = {"select", "check_visibility"}
  BY DEF QueriesIn, element_responder
<1>4. QED
  BY <1>1, <1>2, <1>3, RankValues DEF InOrder

LEMMA WayFullOrder ==
    InOrder(way_full_responder, 3, 21) /\ QueriesIn(way_full_responder) = {"select", "check_visibility", "nodes_from_way_nodes"}
<1>1. way_full_responder \in Seq(Queries)
  BY DEF way_full_responder, Queries, EditionQueries, WriteQueries
<1>2. Ordered(way_full_responder)
  BY RankValues DEF Ordered, way_full_responder
<1>3. QueriesIn(way_full_responder) = {"select", "check_visibility", "nodes_from_way_nodes"}
  BY DEF QueriesIn, way_full_responder
<1>4. QED
  BY <1>1, <1>2, <1>3, RankValues DEF InOrder

LEMMA RelationFullOrder ==
    InOrder(relation_full_responder, 3, 21) /\ QueriesIn(relation_full_responder) = {"select", "check_visibility", "nodes_from_relations",
        "ways_from_relations", "nodes_from_way_nodes", "members_of_relations"}
<1>1. relation_full_responder \in Seq(Queries)
  BY DEF relation_full_responder, Queries, EditionQueries, WriteQueries
<1>2. Ordered(relation_full_responder)
  BY RankValues DEF Ordered, relation_full_responder
<1>3. QueriesIn(relation_full_responder) = {"select", "check_visibility", "nodes_from_relations",
        "ways_from_relations", "nodes_from_way_nodes", "members_of_relations"}
  BY DEF QueriesIn, relation_full_responder
<1>4. QED
  BY <1>1, <1>2, <1>3, RankValues DEF InOrder

LEMMA NodeWaysOrder ==
    InOrder(node_ways_responder, 3, 21) /\ QueriesIn(node_ways_responder) = {"select", "check_visibility", "ways_from_nodes", "drop"}
<1>1. node_ways_responder \in Seq(Queries)
  BY DEF node_ways_responder, Queries, EditionQueries, WriteQueries
<1>2. Ordered(node_ways_responder)
  BY RankValues DEF Ordered, node_ways_responder
<1>3. QueriesIn(node_ways_responder) = {"select", "check_visibility", "ways_from_nodes", "drop"}
  BY DEF QueriesIn, node_ways_responder
<1>4. QED
  BY <1>1, <1>2, <1>3, RankValues DEF InOrder

LEMMA NodeRelationsOrder ==
    InOrder(node_relations_responder, 3, 21) /\ QueriesIn(node_relations_responder) = {"select", "check_visibility", "relations_from_nodes", "drop"}
<1>1. node_relations_responder \in Seq(Queries)
  BY DEF node_relations_responder, Queries, EditionQueries, WriteQueries
<1>2. Ordered(node_relations_responder)
  BY RankValues DEF Ordered, node_relations_responder
<1>3. QueriesIn(node_relations_responder) = {"select", "check_visibility", "relations_from_nodes", "drop"}
  BY DEF QueriesIn, node_relations_responder
<1>4. QED
  BY <1>1, <1>2, <1>3, RankValues DEF InOrder

LEMMA WayRelationsOrder ==
    InOrder(way_relations_responder, 3, 21) /\ QueriesIn(way_relations_responder) = {"select", "check_visibility", "relations_from_ways", "drop"}
<1>1. way_relations_responder \in Seq(Queries)
  BY DEF way_relations_responder, Queries, EditionQueries, WriteQueries
<1>2. Ordered(way_relations_responder)
  BY RankValues DEF Ordered, way_relations_responder
<1>3. QueriesIn(way_relations_responder) = {"select", "check_visibility", "relations_from_ways", "drop"}
  BY DEF QueriesIn, way_relations_responder
<1>4. QED
  BY <1>1, <1>2, <1>3, RankValues DEF InOrder

LEMMA RelationRelationsOrder ==
    InOrder(relation_relations_responder, 3, 21) /\ QueriesIn(relation_relations_responder) = {"select", "check_visibility", "parents_only"}
<1>1. relation_relations_responder \in Seq(Queries)
  BY DEF relation_relations_responder, Queries, EditionQueries, WriteQueries
<1>2. Ordered(relation_relations_responder)
  BY RankValues DEF Ordered, relation_relations_responder
<1>3. QueriesIn(relation_relations_responder) = {"select", "check_visibility", "parents_only"}
  BY DEF QueriesIn, relation_relations_responder
<1>4. QED
  BY <1>1, <1>2, <1>3, RankValues DEF InOrder

LEMMA ListOrder ==
    InOrder(list_responder, 3, 21) /\ QueriesIn(list_responder) = {"select", "historical"}
<1>1. list_responder \in Seq(Queries)
  BY DEF list_responder, Queries, EditionQueries, WriteQueries
<1>2. Ordered(list_responder)
  BY RankValues DEF Ordered, list_responder
<1>3. QueriesIn(list_responder) = {"select", "historical"}
  BY DEF QueriesIn, list_responder
<1>4. QED
  BY <1>1, <1>2, <1>3, RankValues DEF InOrder

LEMMA VersionOrder ==
    InOrder(version_responder, 3, 21) /\ QueriesIn(version_responder) = {"historical"}
<1>1. version_responder \in Seq(Queries)
  BY DEF version_responder, Queries, EditionQueries, WriteQueries
<1>2. Ordered(version_responder)
  BY RankValues DEF Ordered, version_responder
<1>3. QueriesIn(version_responder) = {"historical"}
  BY DEF QueriesIn, version_responder
<1>4. QED
  BY <1>1, <1>2, <1>3, RankValues DEF InOrder

LEMMA HistoryOrder ==
    InOrder(history_responder, 3, 21) /\ QueriesIn(history_responder) = {"with_history"}
<1>1. history_responder \in Seq(Queries)
  BY DEF history_responder, Queries, EditionQueries, WriteQueries
<1>2. Ordered(history_responder)
  BY RankValues DEF Ordered, history_responder
<1>3. QueriesIn(history_responder) = {"with_history"}
  BY DEF QueriesIn, history_responder
<1>4. QED
  BY <1>1, <1>2, <1>3, RankValues DEF InOrder

LEMMA ChangesetDownloadOrder ==
    InOrder(changeset_download_responder, 3, 21) /\ QueriesIn(changeset_download_responder) = {"changeset", "nodes_by_changeset", "ways_by_changeset",
        "relations_by_changeset"}
<1>1. changeset_download_responder \in Seq(Queries)
  BY DEF changeset_download_responder, Queries, EditionQueries, WriteQueries
<1>2. Ordered(changeset_download_responder)
  BY RankValues DEF Ordered, changeset_download_responder
<1>3. QueriesIn(changeset_download_responder) = {"changeset", "nodes_by_changeset", "ways_by_changeset",
        "relations_by_changeset"}
  BY DEF QueriesIn, changeset_download_responder
<1>4. QED
  BY <1>1, <1>2, <1>3, RankValues DEF InOrder

LEMMA MapOrder ==
    InOrder(map_responder, 3, 21) /\ QueriesIn(map_responder) = {"nodes_from_bbox", "ways_from_nodes", "nodes_from_way_nodes",
        "relations_from_ways", "relations_from_nodes", "relations_from_relations"}
<1>1. map_responder \in Seq(Queries)
  BY DEF map_responder, Queries, EditionQueries, WriteQueries
<1>2. Ordered(map_responder)
  BY RankValues DEF Ordered, map_responder
<1>3. QueriesIn(map_responder) = {"nodes_from_bbox", "ways_from_nodes", "nodes_from_way_nodes",
        "relations_from_ways", "relations_from_nodes", "relations_from_relations"}
  BY DEF QueriesIn, map_responder
<1>4. QED
  BY <1>1, <1>2, <1>3, RankValues DEF InOrder

(***************************************************************************)
(* The inductive invariant                                                 *)
(***************************************************************************)
Plan(r) == QueriesIn(Identify \o responder(r) \o Body(r))
Todo == QueriesIn(todo)

\* The queries still to run are an end of the plan of the request.
TodoInv ==
    /\ req \in Requests
    /\ todo \in Seq(Queries) /\ Ordered(todo)
    /\ Todo \subseteq Plan(req) \cup {"users"}
    /\ \A a \in Todo \ {"users"} : \A b \in Plan(req) : Rank(a) <= Rank(b) => b \in Todo
    /\ status # 0 => todo = <<>>
    /\ rows # {} => "users" \in Todo
    /\ "users" \in Todo => \A a \in Todo : 22 <= Rank(a)

\* Elements get more versions; old ones stay, or are redacted.
Extends(d, c) ==
    \A e \in Elements :
        /\ Len(c[e]) <= Len(d[e])
        /\ \A v \in DOMAIN c[e] :
              /\ d[e][v].visible = c[e][v].visible
              /\ d[e][v].refs = c[e][v].refs
              /\ d[e][v].changeset = c[e][v].changeset
              /\ c[e][v].redacted => d[e][v].redacted
DatabaseInv == Sound(db) /\ found \in [Elements -> Seq(Row)] /\ Extends(db, found)

Privileged == req.token = "moderator" /\ req.show_redactions
MayShow(ed) == (Recorded(found, ed) /\ RowOf(found, ed).redacted) => Privileged

\* A selection holds no edition that the client may not see.
SelectionInv ==
    /\ sel = [elements |-> sel.elements, editions |-> sel.editions,
              redactions |-> sel.redactions, cc |-> sel.cc]
    /\ sel.elements \subseteq Elements /\ \A e \in sel.elements : Exists(db, e)
    /\ sel.editions \subseteq Editions
    /\ \A ed \in sel.editions : Recorded(db, ed) /\ MayShow(ed)
    /\ sel.redactions => Privileged

RowsInv ==
    /\ \A r \in rows : r.edition \in Editions /\ (r.redacted => MayShow(r.edition))
    /\ \A w \in out : w.edition \in Editions /\ (w.redacted => MayShow(w.edition))

\* Elements that were renewed while the request was served may be deleted.
Renewed(e) == Len(found[e]) < Len(db[e])
Presentable(e) == Visible(db, e) \/ Renewed(e)
Shown(w) == w.visible \/ ~Recorded(found, w.edition)

EditionCalls == {"multi", "version", "history", "download"}
DeletedInv ==
    req.kind \notin EditionCalls =>
        /\ sel.editions = {}
        /\ (status = 0 /\ "nodes_from_bbox" \in Todo) => sel.elements = {}
        /\ (status = 0 /\ "check_visibility" \in Todo) => sel.elements \subseteq req.ids
        /\ (status = 0 /\ "check_visibility" \notin Todo) =>
              \A e \in sel.elements : Presentable(e)
        /\ (\A r \in rows : Shown(r)) /\ \A w \in out : Shown(w)

\* An edition that belongs into the answer is on its way.
SelectorOf(ed) ==
    IF req.kind = "history" THEN "with_history"
    ELSE IF ed[1][1] = "Node" THEN "nodes_by_changeset"
    ELSE IF ed[1][1] = "Way" THEN "ways_by_changeset" ELSE "relations_by_changeset"
WriterOf(t) ==
    IF t = "Node" THEN "write_nodes" ELSE IF t = "Way" THEN "write_ways" ELSE "write_relations"
OnItsWay(ed) ==
    \/ RowOf(db, ed).redacted
    \/ SelectorOf(ed) \in Todo
    \/ ed \in sel.editions /\ WriterOf(ed[1][1]) \in Todo
    \/ \E r \in rows : r.edition = ed
    \/ \E w \in out : w.edition = ed
HistoryInv ==
    req.kind \in {"history", "download"} =>
        /\ sel.elements = {}
        /\ (req.method = "GET" /\ status \in {0, OK} /\ ~failed) =>
              \A ed \in Answer(found, req) : OnItsWay(ed)

\* Ways bring their nodes, and nodes are written first.
NodesInv ==
    (req.kind \in {"map", "full"} /\ req.method = "GET" /\ status \in {0, OK} /\ ~failed) =>
        /\ (status = 0 /\ "nodes_from_way_nodes" \notin Todo) =>
              \A w \in OfType("Way", sel.elements) : Renewed(w) \/ Members(db, w) \subseteq sel.elements
        /\ "write_nodes" \notin Todo =>
              \A n \in OfType("Node", sel.elements) : \E m \in rows \cup out : m.edition[1] = n
        /\ \A w \in rows \cup out :
              (w.edition[1][1] = "Way" /\ Recorded(found, w.edition)) =>
                  w.refs \subseteq OfType("Node", sel.elements) /\ "write_nodes" \notin Todo

\* cc holds the author that was written for each changeset.
AuthorsInv ==
    \A w \in out : w.changeset \in DOMAIN sel.cc /\ w.author = sel.cc[w.changeset]

ReadInv == /\ TodoInv /\ DatabaseInv /\ SelectionInv /\ RowsInv
           /\ DeletedInv /\ HistoryInv /\ NodesInv /\ AuthorsInv

(***************************************************************************)
(* The plans                                                               *)
(***************************************************************************)
LEMMA TypeOfOne ==
    ASSUME NEW r \in Requests, r.kind \in {"element", "full", "ways", "relations", "history"}
    PROVE  /\ the(r.ids) \in Elements /\ r.ids = {the(r.ids)}
           /\ TypeOf(r) = the(r.ids)[1]
           /\ TypeOf(r) \in {"Node", "Way", "Relation"}
           /\ r.kind = "full" => TypeOf(r) # "Node"
<1>1. r \in Request /\ r.eds = {} /\ r.ids \subseteq Elements
  BY RequestsAssumption DEF Request
<1>2. PICK e \in r.ids : r.ids = {e}
  BY RequestsAssumption
<1>3. the(r.ids) = e
  BY <1>2 DEF the
<1>4. r.ids \cup {ed[1] : ed \in r.eds} = r.ids
  BY <1>1
<1>5. TypeOf(r) = e[1]
  BY <1>3, <1>4 DEF TypeOf
<1>6. QED
  BY <1>1, <1>2, <1>3, <1>5, ElementsAssumption, RequestsAssumption

LEMMA ResponderOfKind ==
    ASSUME NEW r \in Requests
    PROVE  /\ r.kind = "element" => responder(r) = element_responder
           /\ r.kind = "full" => responder(r) \in {way_full_responder, relation_full_responder}
           /\ r.kind = "ways" => responder(r) = node_ways_responder
           /\ r.kind = "relations" =>
                responder(r) \in {node_relations_responder, way_relations_responder,
                                  relation_relations_responder}
           /\ r.kind = "multi" => responder(r) = list_responder
           /\ r.kind = "version" => responder(r) = version_responder
           /\ r.kind = "history" => responder(r) = history_responder
           /\ r.kind = "map" => responder(r) = map_responder
           /\ r.kind = "download" => responder(r) = changeset_download_responder
           /\ r.kind \in Kinds
<1>1. r.kind \in Kinds
  BY RequestsAssumption DEF Request
<1>2. r.kind = "full" => TypeOf(r) \in {"Way", "Relation"}
  BY TypeOfOne
<1>3. r.kind = "relations" => TypeOf(r) \in {"Node", "Way", "Relation"}
  BY TypeOfOne
<1>4. QED
  BY <1>1, <1>2, <1>3 DEF responder

LEMMA ResponderFacts ==
    ASSUME NEW r \in Requests
    PROVE  /\ InOrder(responder(r), 3, 21)
           /\ r.kind \notin EditionCalls => QueriesIn(responder(r)) \cap EditionQueries = {}
           /\ r.kind \in {"element", "full", "ways", "relations"} =>
                 "check_visibility" \in QueriesIn(responder(r))
           /\ r.kind \in {"map", "full"} =>
                 /\ "nodes_from_way_nodes" \in QueriesIn(responder(r))
                 /\ {"drop", "parents_only"} \cap QueriesIn(responder(r)) = {}
           /\ r.kind = "map" => {"select", "check_visibility"} \cap QueriesIn(responder(r)) = {}
           /\ r.kind # "history" => "with_history" \notin QueriesIn(responder(r))
           /\ r.kind \in EditionCalls => "check_visibility" \notin QueriesIn(responder(r))
           /\ r.kind # "map" => "nodes_from_bbox" \notin QueriesIn(responder(r))
           /\ r.kind = "history" => QueriesIn(responder(r)) = {"with_history"}
           /\ r.kind = "download" =>
                 QueriesIn(responder(r)) = {"changeset", "nodes_by_changeset", "ways_by_changeset",
                                            "relations_by_changeset"}
<1> USE ResponderOfKind DEF EditionCalls, EditionQueries
<1>1. CASE r.kind = "element"
  BY <1>1, ElementOrder
<1>2. CASE r.kind = "full"
  BY <1>2, WayFullOrder, RelationFullOrder
<1>3. CASE r.kind = "ways"
  BY <1>3, NodeWaysOrder
<1>4. CASE r.kind = "relations"
  BY <1>4, NodeRelationsOrder, WayRelationsOrder, RelationRelationsOrder
<1>5. CASE r.kind = "multi"
  BY <1>5, ListOrder
<1>6. CASE r.kind = "version"
  BY <1>6, VersionOrder
<1>7. CASE r.kind = "history"
  BY <1>7, HistoryOrder
<1>8. CASE r.kind = "map"
  BY <1>8, MapOrder
<1>9. CASE r.kind = "download"
  BY <1>9, ChangesetDownloadOrder
<1>10. QED
  BY <1>1, <1>2, <1>3, <1>4, <1>5, <1>6, <1>7, <1>8, <1>9 DEF Kinds

LEMMA BodyFacts ==
    ASSUME NEW r
    PROVE  /\ InOrder(Body(r), 23, 25)
           /\ QueriesIn(Body(r)) = IF r.method = "GET" THEN WriteQueries ELSE {}
<1>1. InOrder(<<>>, 23, 25) /\ QueriesIn(<<>>) = {}
  BY DEF InOrder, Ordered, QueriesIn
<1>2. QED
  BY <1>1, WritesOrder DEF Body, WriteQueries

LEMMA PlanFacts ==
    ASSUME NEW r \in Requests
    PROVE  /\ Identify \o responder(r) \o Body(r) \in Seq(Queries)
           /\ Ordered(Identify \o responder(r) \o Body(r))
           /\ Plan(r) = {"authenticate", "get_roles_for_user"}
                            \cup QueriesIn(responder(r)) \cup QueriesIn(Body(r))
<1> DEFINE front == Identify \o responder(r)
<1>n. \A q : Rank(q) \in Nat
  BY RankType
<1>1. /\ front \in Seq(Queries) /\ Ordered(front)
      /\ QueriesIn(front) = {"authenticate", "get_roles_for_user"} \cup QueriesIn(responder(r))
  <2>1. \A a \in QueriesIn(Identify), b \in QueriesIn(responder(r)) : Rank(a) < Rank(b)
    BY <1>n, IdentifyOrder, ResponderFacts DEF InOrder
  <2>2. QED
    BY <2>1, IdentifyOrder, ResponderFacts, ConcatFacts DEF InOrder
<1>2. \A a \in QueriesIn(front) : Rank(a) <= 21
  BY <1>n, <1>1, IdentifyOrder, ResponderFacts DEF InOrder
<1>3. \A a \in QueriesIn(front), b \in QueriesIn(Body(r)) : Rank(a) < Rank(b)
  BY <1>n, <1>2, BodyFacts DEF InOrder
<1>4. QED
  BY <1>1, <1>3, BodyFacts, ConcatFacts DEF Plan, InOrder

(***************************************************************************)
(* Queries that are still to run                                           *)
(***************************************************************************)
\* The first query comes before the others, and what was fetched is written
\* before the next query.
LEMMA AtFacts ==
    ASSUME TodoInv, NEW q, At(q)
    PROVE  /\ q \in Todo /\ Todo \subseteq Queries
           /\ \A a \in Todo : a = q \/ Rank(q) < Rank(a)
           /\ q # "users" => rows = {} /\ "users" \notin Todo
           /\ QueriesIn(Tail(todo)) = Todo \ {q}
<1>1. todo \in Seq(Queries) /\ Ordered(todo) /\ todo # <<>> /\ Head(todo) = q
  BY DEF TodoInv, At
<1>2. /\ q \in Todo /\ \A a \in Todo : a = q \/ Rank(q) < Rank(a)
      /\ QueriesIn(Tail(todo)) = Todo \ {q}
  BY <1>1, TailFacts DEF Todo
<1>3. Todo \subseteq Queries
  BY <1>1, ElementOfSeq, LenProperties DEF Todo, QueriesIn
<1>4. q # "users" => "users" \notin Todo
  <2>1. Rank("users") = 22 /\ Rank(q) \in Nat
    BY RankValues, RankType
  <2>2. QED
    BY <1>2, <2>1 DEF TodoInv
<1>5. QED
  BY <1>2, <1>3, <1>4 DEF TodoInv

LEMMA PlanRanks ==
    ASSUME NEW r \in Requests
    PROVE  /\ \A q \in Plan(r) : (q \in QueriesIn(Body(r)) /\ 23 <= Rank(q)) \/ Rank(q) <= 21
           /\ \A q \in Plan(r) : q \in {"authenticate", "get_roles_for_user"} \/ 3 <= Rank(q)
<1>1. Rank("authenticate") = 1 /\ Rank("get_roles_for_user") = 2
  BY RankValues
<1>2. \A q \in QueriesIn(responder(r)) : 3 <= Rank(q) /\ Rank(q) <= 21
  BY ResponderFacts DEF InOrder
<1>3. \A q \in QueriesIn(Body(r)) : 23 <= Rank(q)
  BY BodyFacts DEF InOrder
<1>4. Plan(r) = {"authenticate", "get_roles_for_user"}
                    \cup QueriesIn(responder(r)) \cup QueriesIn(Body(r))
  BY PlanFacts
<1>5. QED
  BY <1>1, <1>2, <1>3, <1>4, RankType

LEMMA TodoTail ==
    ASSUME TodoInv, NEW q, At(q), todo' = Tail(todo), req' = req, status' = 0,
           rows' = {} \/ (q # "users" /\ rows' = rows)
    PROVE  TodoInv' /\ Todo' = Todo \ {q}
<1>1. todo \in Seq(Queries) /\ Ordered(todo) /\ todo # <<>> /\ Head(todo) = q
  BY DEF TodoInv, At
<1>2. Tail(todo) \in Seq(Queries) /\ Ordered(Tail(todo))
  BY <1>1, TailFacts
<1>3. Todo' = Todo \ {q}
  BY AtFacts DEF Todo
<1>4. \A a \in Todo : a = q \/ Rank(q) < Rank(a)
  BY AtFacts
<1>5. rows' = {}
  BY AtFacts
<1>6. \A a \in Todo' \ {"users"} : \A b \in Plan(req) : Rank(a) <= Rank(b) => b \in Todo'
  BY <1>3, <1>4, RankType DEF TodoInv
<1>7. QED
  BY <1>2, <1>3, <1>5, <1>6 DEF TodoInv

\* authenticate without a token leaves out the query for the roles.
LEMMA TodoTailTail ==
    ASSUME TodoInv, At("authenticate"), todo' = Tail(Tail(todo)), req' = req, status' = 0,
           rows' = rows
    PROVE  TodoInv' /\ Todo' = Todo \ {"authenticate", "get_roles_for_user"}
<1>1. todo \in Seq(Queries) /\ Ordered(todo) /\ todo # <<>> /\ Head(todo) = "authenticate"
  BY DEF TodoInv, At
<1> DEFINE t == Tail(todo)
<1>2. t \in Seq(Queries) /\ Ordered(t) /\ QueriesIn(t) = Todo \ {"authenticate"}
  BY <1>1, TailFacts DEF Todo
<1>3. /\ \A a \in Todo : a = "authenticate" \/ Rank("authenticate") < Rank(a)
      /\ rows = {} /\ "authenticate" \in Todo /\ "users" \notin Todo
  BY AtFacts
<1>4. "get_roles_for_user" \in Todo /\ Todo \subseteq Plan(req)
  <2>1. "get_roles_for_user" \in Plan(req)
    BY PlanFacts DEF TodoInv
  <2>2. Rank("authenticate") <= Rank("get_roles_for_user")
    BY RankValues
  <2>3. QED
    BY <1>3, <2>1, <2>2 DEF TodoInv
<1>5. t # <<>> /\ "get_roles_for_user" \in QueriesIn(t)
  BY <1>2, <1>4 DEF QueriesIn
<1>6. /\ Tail(t) \in Seq(Queries) /\ Ordered(Tail(t))
      /\ QueriesIn(Tail(t)) = QueriesIn(t) \ {Head(t)} /\ Head(t) \in QueriesIn(t)
      /\ \A a \in QueriesIn(t) : a = Head(t) \/ Rank(Head(t)) < Rank(a)
  BY <1>2, <1>5, TailFacts
<1> HIDE DEF t
<1>7. Head(t) = "get_roles_for_user"
  <2>1. Head(t) \in Plan(req) /\ Head(t) # "authenticate"
    BY <1>2, <1>4, <1>6
  <2>2. Head(t) = "get_roles_for_user" \/ 3 <= Rank(Head(t))
    BY <2>1, PlanRanks DEF TodoInv
  <2>3. Rank("get_roles_for_user") = 2
    BY RankValues
  <2>4. QED
    BY <1>5, <1>6, <2>2, <2>3, RankType
<1>8. Todo' = Todo \ {"authenticate", "get_roles_for_user"}
  BY <1>2, <1>6, <1>7 DEF Todo, t
<1>9. \A a \in Todo' \ {"users"} : \A b \in Plan(req) : Rank(a) <= Rank(b) => b \in Todo'
  <2>1. \A a \in Todo' : Rank("authenticate") < Rank(a) /\ Rank("get_roles_for_user") < Rank(a)
    BY <1>2, <1>3, <1>6, <1>7, <1>8
  <2>2. QED
    BY <1>8, <2>1, RankType DEF TodoInv
<1>10. QED
  BY <1>3, <1>6, <1>8, <1>9 DEF TodoInv, t

LEMMA TodoBody ==
    ASSUME TodoInv, NEW q, At(q), q # "users", todo' = Body(req), req' = req, status' = status,
           rows' = rows
    PROVE  TodoInv' /\ Todo' = QueriesIn(Body(req))
<1>1. status = 0 /\ rows = {} /\ req \in Requests
  BY AtFacts DEF At, TodoInv
<1>2. /\ todo' \in Seq(Queries) /\ Ordered(todo')
      /\ Todo' = QueriesIn(Body(req)) /\ \A a \in Todo' : 23 <= Rank(a)
  BY BodyFacts DEF InOrder, Todo
<1>3. Todo' \subseteq Plan(req)
  BY <1>1, <1>2, PlanFacts
<1>4. \A a \in Todo' : \A b \in Plan(req) : Rank(a) <= Rank(b) => b \in Todo'
  BY <1>1, <1>2, PlanRanks, RankType
<1>5. "users" \notin Todo'
  BY <1>2, RankValues
<1>6. QED
  BY <1>1, <1>2, <1>3, <1>4, <1>5 DEF TodoInv

LEMMA TodoUsers ==
    ASSUME TodoInv, NEW q \in WriteQueries, At(q), todo' = <<"users">> \o Tail(todo), req' = req,
           status' = status
    PROVE  TodoInv' /\ Todo' = (Todo \ {q}) \cup {"users"}
<1>1. todo \in Seq(Queries) /\ Ordered(todo) /\ todo # <<>> /\ Head(todo) = q /\ status = 0
  BY DEF TodoInv, At
<1>2. Tail(todo) \in Seq(Queries) /\ Ordered(Tail(todo)) /\ QueriesIn(Tail(todo)) = Todo \ {q}
  BY <1>1, TailFacts DEF Todo
<1>3. <<"users">> \in Seq(Queries) /\ Ordered(<<"users">>) /\ QueriesIn(<<"users">>) = {"users"}
  <2>1. <<"users">> \in Seq(Queries)
    BY DEF Queries
  <2>2. Ordered(<<"users">>)
    BY DEF Ordered
  <2>3. QED
    BY <2>1, <2>2 DEF QueriesIn
<1>4. Rank("users") = 22 /\ 23 <= Rank(q)
  BY RankValues DEF WriteQueries
<1>5. /\ \A a \in Todo \ {q} : Rank(q) < Rank(a)
      /\ "users" \notin Todo
  BY <1>4, AtFacts
<1>6. \A a \in Todo \ {q} : 22 < Rank(a)
  BY <1>4, <1>5, RankType
<1>7. /\ todo' \in Seq(Queries) /\ Ordered(todo')
      /\ Todo' = {"users"} \cup (Todo \ {q})
  <2>1. \A a \in QueriesIn(<<"users">>), b \in QueriesIn(Tail(todo)) : Rank(a) < Rank(b)
    BY <1>2, <1>3, <1>4, <1>6
  <2>2. QED
    BY <1>2, <1>3, <2>1, ConcatFacts DEF Todo
<1>8. \A a \in Todo' \ {"users"} : \A b \in Plan(req) : Rank(a) <= Rank(b) => b \in Todo'
  BY <1>5, <1>7, RankType DEF TodoInv
<1>9. \A a \in Todo' : 22 <= Rank(a)
  BY <1>4, <1>6, <1>7, RankType
<1>10. QED
  BY <1>1, <1>7, <1>8, <1>9 DEF TodoInv

LEMMA TodoEmpty ==
    ASSUME TodoInv, todo' = <<>>, req' = req, rows' = {}
    PROVE  TodoInv' /\ Todo' = {}
<1>1. <<>> \in Seq(Queries) /\ Ordered(<<>>) /\ Todo' = {}
  BY DEF Ordered, QueriesIn, Todo
<1>2. QED
  BY <1>1 DEF TodoInv

LEMMA TodoStart ==
    ASSUME NEW r \in Requests
    PROVE  LET s == Identify \o responder(r) \o Body(r) IN
           /\ s \in Seq(Queries) /\ Ordered(s) /\ QueriesIn(s) = Plan(r)
           /\ "users" \notin Plan(r)
<1>1. "users" \notin Plan(r)
  BY PlanRanks, RankValues
<1>2. QED
  BY <1>1, PlanFacts DEF Plan

(***************************************************************************)
(* The database                                                            *)
(***************************************************************************)
Databases == [Elements -> Seq(Row)]

LEMMA RowsOf ==
    ASSUME NEW d \in Databases, NEW e \in Elements
    PROVE  /\ d[e] \in Seq(Row) /\ Len(d[e]) \in Nat /\ DOMAIN d[e] = 1..Len(d[e])
           /\ \A v \in DOMAIN d[e] : d[e][v] \in Row
           /\ Exists(d, e) <=> Len(d[e]) > 0
           /\ Exists(d, e) => Len(d[e]) \in DOMAIN d[e] /\ Current(d, e) \in Row
<1>1. d[e] \in Seq(Row)
  BY DEF Databases
<1>2. /\ Len(d[e]) \in Nat /\ DOMAIN d[e] = 1..Len(d[e])
      /\ \A v \in DOMAIN d[e] : d[e][v] \in Row
  BY <1>1, LenProperties, ElementOfSeq
<1>3. d[e] = <<>> <=> Len(d[e]) = 0
  BY <1>1, EmptySeq
<1>4. QED
  BY <1>1, <1>2, <1>3 DEF Exists, Current

LEMMA ExtendsSelf == ASSUME NEW d \in Databases PROVE Extends(d, d)
<1>1. \A e \in Elements : Len(d[e]) \in Nat
  BY RowsOf
<1>2. QED
  BY <1>1 DEF Extends

LEMMA ExtendsOn ==
    ASSUME NEW a \in Databases, NEW b \in Databases, NEW c \in Databases,
           Extends(c, b), Extends(b, a)
    PROVE  Extends(c, a)
<1> SUFFICES ASSUME NEW e \in Elements
             PROVE  /\ Len(a[e]) <= Len(c[e])
                    /\ \A v \in DOMAIN a[e] :
                          /\ c[e][v].visible = a[e][v].visible
                          /\ c[e][v].refs = a[e][v].refs
                          /\ c[e][v].changeset = a[e][v].changeset
                          /\ a[e][v].redacted => c[e][v].redacted
  BY DEF Extends
<1>1. /\ Len(a[e]) \in Nat /\ Len(b[e]) \in Nat /\ Len(c[e]) \in Nat
      /\ DOMAIN a[e] = 1..Len(a[e]) /\ DOMAIN b[e] = 1..Len(b[e])
  BY RowsOf
<1>2. Len(a[e]) <= Len(b[e]) /\ Len(b[e]) <= Len(c[e])
  BY DEF Extends
<1>3. \A v \in DOMAIN a[e] : v \in DOMAIN b[e]
  BY <1>1, <1>2
<1>4. QED
  BY <1>1, <1>2, <1>3 DEF Extends

\* A commit of another worker or of a moderator.
LEMMA UploadFacts ==
    ASSUME Sound(db), NEW e \in Elements, NEW row \in NewRow(e),
           db' = [db EXCEPT ![e] = Append(@, row)]
    PROVE  Sound(db)' /\ Extends(db', db)
<1>1. db \in Databases
  BY DEF Sound, Databases
<1>2. row \in Row /\ row.redacted = FALSE
  BY OpenChangesetsAssumption, RefSetsAssumption DEF NewRow, Row
<1>3. /\ \A m \in row.refs : m \in Elements /\ Visible(db, m) /\ m # e
      /\ e[1] = "Way" => \A m \in row.refs : m[1] = "Node"
      /\ ~row.visible => row.refs = {} /\ ~Referenced(e)
  BY RefSetsAssumption DEF NewRow, OfType
<1>4. db[e] \in Seq(Row) /\ Len(db[e]) \in Nat /\ DOMAIN db[e] = 1..Len(db[e])
  BY <1>1, RowsOf
<1>5. /\ db'[e] \in Seq(Row) /\ Len(db'[e]) = Len(db[e]) + 1
      /\ db'[e][Len(db[e]) + 1] = row
      /\ \A v \in DOMAIN db[e] : db'[e][v] = db[e][v]
      /\ db'[e] # <<>>
  <2>1. db'[e] = Append(db[e], row)
    BY <1>1 DEF Databases
  <2>2. QED
    BY <1>2, <1>4, <2>1, AppendProperties
<1>6. \A p \in Elements : p # e => db'[p] = db[p]
  BY <1>1 DEF Databases
<1>7. db' \in Databases
  BY <1>1, <1>5 DEF Databases
<1>8. Extends(db', db)
  <2>1. ASSUME NEW p \in Elements, p # e PROVE db'[p] = db[p] /\ Len(db[p]) \in Nat
    BY <1>1, <1>6, <2>1, RowsOf
  <2>2. QED
    BY <1>4, <1>5, <2>1 DEF Extends
<1>9. Exists(db', e) /\ Current(db', e) = row
  BY <1>5 DEF Exists, Current
<1>10. \A p \in Elements : p # e => /\ (Exists(db', p) <=> Exists(db, p))
                                   /\ Current(db', p) = Current(db, p)
                                   /\ (Visible(db', p) <=> Visible(db, p))
  BY <1>6 DEF Exists, Current, Visible
<1>11. ASSUME NEW p \in Elements, Exists(db', p)
       PROVE  /\ ~Current(db', p).redacted
              /\ ~Current(db', p).visible => Current(db', p).refs = {}
              /\ \A m \in Current(db', p).refs : Visible(db', m) /\ (p[1] = "Way" => m[1] = "Node")
  <2>1. CASE p = e
    BY <1>2, <1>3, <1>9, <1>10, <2>1
  <2>2. CASE p # e
    <3>1. Exists(db, p) /\ Current(db', p) = Current(db, p)
      BY <1>6, <1>11, <2>2 DEF Exists, Current
    <3>2. Current(db, p) \in Row
      BY <1>1, <3>1, RowsOf
    <3>3. /\ ~Current(db, p).redacted
          /\ ~Current(db, p).visible => Current(db, p).refs = {}
          /\ \A m \in Current(db, p).refs :
                m \in Elements /\ Visible(db, m) /\ (p[1] = "Way" => m[1] = "Node")
      BY <3>1, <3>2 DEF Sound, Row
    <3>4. ASSUME NEW m \in Current(db, p).refs PROVE Visible(db', m)
      <4>1. CASE m # e
        BY <1>10, <3>3, <4>1
      <4>2. CASE m = e
        <5>1. Referenced(e)
          BY <3>1, <4>2 DEF Referenced, Members
        <5>2. QED
          BY <1>3, <1>9, <4>2, <5>1 DEF Visible
      <4>3. QED
        BY <4>1, <4>2
    <3>5. QED
      BY <3>1, <3>3, <3>4
  <2>3. QED
    BY <2>1, <2>2
<1>12. QED
  BY <1>7, <1>8, <1>11 DEF Sound, Databases

LEMMA RedactFacts ==
    ASSUME Sound(db), NEW e \in Elements, NEW v \in 1..(Len(db[e]) - 1),
           db' = [db EXCEPT ![e][v].redacted = TRUE]
    PROVE  Sound(db)' /\ Extends(db', db)
<1>1. db \in Databases
  BY DEF Sound, Databases
<1>2. /\ db[e] \in Seq(Row) /\ Len(db[e]) \in Nat /\ DOMAIN db[e] = 1..Len(db[e])
      /\ v \in DOMAIN db[e] /\ db[e][v] \in Row /\ v # Len(db[e])
  BY <1>1, RowsOf
<1> DEFINE row == [db[e][v] EXCEPT !.redacted = TRUE]
<1>3. /\ row \in Row /\ row.visible = db[e][v].visible /\ row.refs = db[e][v].refs
      /\ row.changeset = db[e][v].changeset /\ row.redacted = TRUE
  BY <1>2 DEF Row
<1>4. db'[e] = [db[e] EXCEPT ![v] = row]
  BY <1>1 DEF Databases
<1> HIDE DEF row
<1>5. /\ db'[e] \in Seq(Row) /\ Len(db'[e]) = Len(db[e])
      /\ db'[e][v] = row /\ \A k \in DOMAIN db[e] : k # v => db'[e][k] = db[e][k]
  <2>1. v \in 1..Len(db[e])
    BY <1>2
  <2>2. /\ [db[e] EXCEPT ![v] = row] \in Seq(Row)
        /\ Len([db[e] EXCEPT ![v] = row]) = Len(db[e])
    BY <1>2, <1>3, <2>1, ExceptSeq
  <2>3. QED
    BY <1>2, <1>4, <2>2
<1>6. \A p \in Elements : p # e => db'[p] = db[p]
  BY <1>1 DEF Databases
<1>7. db' \in Databases
  BY <1>1, <1>5 DEF Databases
<1>8. Extends(db', db)
  <2>1. ASSUME NEW p \in Elements, p # e PROVE db'[p] = db[p] /\ Len(db[p]) \in Nat
    BY <1>1, <1>6, <2>1, RowsOf
  <2>2. QED
    BY <1>2, <1>3, <1>5, <2>1 DEF Extends
<1>9. \A p \in Elements : Len(db'[p]) = Len(db[p]) /\ (Exists(db, p) => Current(db', p) = Current(db, p))
  <2>1. Exists(db, e) => Current(db', e) = Current(db, e)
    BY <1>1, <1>2, <1>5, RowsOf DEF Current
  <2>2. QED
    BY <1>5, <1>6, <2>1 DEF Current
<1>10. \A p \in Elements : (Exists(db', p) <=> Exists(db, p)) /\ (Visible(db', p) <=> Visible(db, p))
  BY <1>1, <1>7, <1>9, RowsOf DEF Visible
<1>11. ASSUME NEW p \in Elements, Exists(db', p)
       PROVE  /\ ~Current(db', p).redacted
              /\ ~Current(db', p).visible => Current(db', p).refs = {}
              /\ \A m \in Current(db', p).refs : Visible(db', m) /\ (p[1] = "Way" => m[1] = "Node")
  <2>1. Exists(db, p) /\ Current(db', p) = Current(db, p) /\ Current(db, p) \in Row
    BY <1>1, <1>9, <1>10, <1>11, RowsOf
  <2>2. Current(db, p).refs \subseteq Elements
    BY <2>1 DEF Row
  <2>3. QED
    BY <1>10, <2>1, <2>2 DEF Sound
<1>12. QED
  BY <1>7, <1>8, <1>11 DEF Sound, Databases

\* What a commit leaves as it was.
LEMMA Growth ==
    ASSUME DatabaseInv, Sound(db)', Extends(db', db), found' = found
    PROVE  /\ DatabaseInv'
           /\ \A e \in Elements :
                 /\ Renewed(e) => Renewed(e)'
                 /\ Presentable(e) => Presentable(e)'
                 /\ Exists(db, e) => Exists(db', e)
                 /\ ~Renewed(e)' => Members(db', e) = Members(db, e)
           /\ \A ed \in Editions :
                 Recorded(db, ed) => /\ Recorded(db', ed)
                                     /\ RowOf(db, ed).redacted => RowOf(db', ed).redacted
<1>1. db \in Databases /\ db' \in Databases /\ found \in Databases
  BY DEF DatabaseInv, Sound, Databases
<1>2. DatabaseInv'
  BY <1>1, ExtendsOn DEF DatabaseInv, Databases
<1>3. ASSUME NEW e \in Elements
      PROVE  /\ Len(found[e]) \in Nat /\ Len(db[e]) \in Nat /\ Len(db'[e]) \in Nat
             /\ Len(found[e]) <= Len(db[e]) /\ Len(db[e]) <= Len(db'[e])
             /\ DOMAIN db[e] = 1..Len(db[e]) /\ DOMAIN db'[e] = 1..Len(db'[e])
             /\ \A v \in DOMAIN db[e] :
                  /\ db'[e][v].visible = db[e][v].visible
                  /\ db'[e][v].refs = db[e][v].refs
                  /\ db[e][v].redacted => db'[e][v].redacted
             /\ (Exists(db, e) <=> Len(db[e]) > 0) /\ (Exists(db', e) <=> Len(db'[e]) > 0)
  BY <1>1, RowsOf DEF DatabaseInv, Extends
<1>4. ASSUME NEW e \in Elements
      PROVE  /\ Renewed(e) => Renewed(e)'
             /\ Exists(db, e) => Exists(db', e)
             /\ ~Renewed(e)' => Len(db'[e]) = Len(db[e]) /\ ~Renewed(e)
  BY <1>3 DEF Renewed
<1>5. ASSUME NEW e \in Elements, ~Renewed(e)'
      PROVE  /\ Members(db', e) = Members(db, e)
             /\ Visible(db, e) => Visible(db', e)
  <2>1. CASE Exists(db, e)
    <3>1. Exists(db', e) /\ Len(db'[e]) = Len(db[e]) /\ Len(db[e]) \in DOMAIN db[e]
      BY <1>3, <1>4, <1>5, <2>1
    <3>2. /\ Current(db', e).refs = Current(db, e).refs
          /\ Current(db', e).visible = Current(db, e).visible
      BY <1>3, <3>1 DEF Current
    <3>3. QED
      BY <2>1, <3>1, <3>2 DEF Members, Visible
  <2>2. CASE ~Exists(db, e)
    BY <1>3, <1>4, <1>5, <2>2 DEF Members, Visible
  <2>3. QED
    BY <2>1, <2>2
<1>6. ASSUME NEW e \in Elements PROVE Presentable(e) => Presentable(e)'
  BY <1>4, <1>5 DEF Presentable
<1>7. ASSUME NEW ed \in Editions, Recorded(db, ed)
      PROVE  Recorded(db', ed) /\ (RowOf(db, ed).redacted => RowOf(db', ed).redacted)
  <2>1. ed[1] \in Elements
    BY DEF Editions
  <2>2. QED
    BY <1>3, <1>7, <2>1 DEF Recorded, RowOf
<1>8. QED
  BY <1>2, <1>4, <1>5, <1>6, <1>7

LEMMA AnswerTyped ==
    ASSUME DatabaseInv, TodoInv, req.kind \in {"history", "download"}, NEW ed \in Answer(found, req)
    PROVE  /\ ed \in Editions /\ Recorded(found, ed) /\ Recorded(db, ed)
           /\ ed[1] \in Elements /\ ed[2] \in DOMAIN db[ed[1]] /\ ed = <<ed[1], ed[2]>>
           /\ req.kind = "history" => ed[1] = the(req.ids)
           /\ req.kind = "download" => RowOf(db, ed).changeset = req.changeset
<1>1. db \in Databases /\ found \in Databases
  BY DEF DatabaseInv, Sound, Databases
<1>2. /\ ed \in ReadableEditions(found, req)
      /\ req.kind = "history" => ed[1] = the(req.ids)
      /\ req.kind = "download" => RowOf(found, ed).changeset = req.changeset
  BY DEF Answer
<1>3. PICK e \in Elements : ed \in {e} \X DOMAIN found[e]
  BY <1>2 DEF ReadableEditions
<1>4. ed[1] = e /\ ed[2] \in DOMAIN found[e] /\ ed = <<e, ed[2]>>
  BY <1>3
<1>5. /\ Len(found[e]) \in Nat /\ Len(db[e]) \in Nat /\ Len(found[e]) <= Len(db[e])
      /\ DOMAIN found[e] = 1..Len(found[e]) /\ DOMAIN db[e] = 1..Len(db[e])
  BY <1>1, RowsOf DEF DatabaseInv, Extends
<1>6. ed[2] \in DOMAIN db[e] /\ ed[2] \in Nat \ {0}
  BY <1>4, <1>5
<1>7. RowOf(db, ed).changeset = RowOf(found, ed).changeset
  BY <1>4 DEF RowOf, DatabaseInv, Extends
<1>8. QED
  BY <1>2, <1>4, <1>6, <1>7 DEF Editions, Recorded

LEMMA CommitStep ==
    ASSUME ReadInv, Sound(db)', Extends(db', db),
           UNCHANGED <<request, todo, sel, rows, out, status, failed>>
    PROVE  ReadInv'
<1> USE DEF request
<1>1. /\ DatabaseInv'
      /\ \A e \in Elements :
            /\ Renewed(e) => Renewed(e)'
            /\ Presentable(e) => Presentable(e)'
            /\ Exists(db, e) => Exists(db', e)
            /\ ~Renewed(e)' => Members(db', e) = Members(db, e)
      /\ \A ed \in Editions :
            Recorded(db, ed) => /\ Recorded(db', ed)
                                /\ RowOf(db, ed).redacted => RowOf(db', ed).redacted
  BY Growth DEF ReadInv
<1>2. TodoInv' /\ Todo' = Todo
  BY DEF ReadInv, TodoInv, Todo
<1>3. SelectionInv' /\ RowsInv' /\ AuthorsInv'
  BY <1>1 DEF ReadInv, SelectionInv, RowsInv, AuthorsInv, MayShow, Privileged
<1>4. DeletedInv'
  BY <1>1, <1>2 DEF ReadInv, DeletedInv, SelectionInv, Shown
<1>5. HistoryInv'
  <2>1. \A ed : SelectorOf(ed)' = SelectorOf(ed)
    BY DEF SelectorOf
  <2>2. ASSUME req.kind \in {"history", "download"}, NEW ed \in Answer(found, req), OnItsWay(ed)
        PROVE  OnItsWay(ed)'
    <3>1. ed \in Editions /\ Recorded(db, ed)
      BY <2>2, AnswerTyped DEF ReadInv
    <3>2. QED
      BY <1>1, <1>2, <2>1, <2>2, <3>1 DEF OnItsWay
  <2>3. QED
    BY <2>2 DEF ReadInv, HistoryInv
<1>6. NodesInv'
  <2>1. \A e \in sel.elements : e \in Elements
    BY DEF ReadInv, SelectionInv
  <2>2. QED
    BY <1>1, <1>2, <2>1 DEF ReadInv, NodesInv, OfType
<1>7. QED
  BY <1>1, <1>2, <1>3, <1>4, <1>5, <1>6 DEF ReadInv

(***************************************************************************)
(* Steps of the request                                                    *)
(***************************************************************************)
LEMMA PlanKinds ==
    ASSUME TodoInv, NEW q \in Todo, q # "users"
    PROVE  /\ q \in EditionQueries => req.kind \in EditionCalls
           /\ q \in {"drop", "parents_only"} => req.kind \notin {"map", "full"}
           /\ q \in {"select", "check_visibility"} => req.kind # "map"
           /\ q = "with_history" => req.kind = "history"
           /\ q = "check_visibility" => req.kind \notin EditionCalls
           /\ q = "nodes_from_bbox" => req.kind = "map"
           /\ req.kind = "history" =>
                 q \in {"authenticate", "get_roles_for_user", "with_history"} \cup WriteQueries
           /\ req.kind = "download" =>
                 q \in {"authenticate", "get_roles_for_user", "changeset", "nodes_by_changeset",
                        "ways_by_changeset", "relations_by_changeset"} \cup WriteQueries
<1>1. q \in Plan(req) /\ req \in Requests
  BY DEF TodoInv
<1>2. /\ q \in {"authenticate", "get_roles_for_user"} \cup QueriesIn(responder(req)) \cup WriteQueries
  BY <1>1, PlanFacts, BodyFacts
<1>3. CASE q \in QueriesIn(responder(req))
  BY <1>1, <1>3, ResponderFacts
<1>4. CASE q \in {"authenticate", "get_roles_for_user"} \cup WriteQueries
  BY <1>4 DEF WriteQueries, EditionQueries
<1>5. QED
  BY <1>2, <1>3, <1>4

LEMMA Pending ==
    ASSUME TodoInv, NEW q \in Todo, q # "users"
    PROVE  /\ (req.kind \in {"element", "full", "ways", "relations"} /\ Rank(q) <= 4) =>
                 "check_visibility" \in Todo
           /\ (req.kind \in {"map", "full"} /\ Rank(q) <= 9) => "nodes_from_way_nodes" \in Todo
           /\ (req.method = "GET" /\ Rank(q) <= 22) => WriteQueries \subseteq Todo
<1>1. req \in Requests /\ \A b \in Plan(req) : Rank(q) <= Rank(b) => b \in Todo
  BY DEF TodoInv
<1>2. /\ req.kind \in {"element", "full", "ways", "relations"} => "check_visibility" \in Plan(req)
      /\ req.kind \in {"map", "full"} => "nodes_from_way_nodes" \in Plan(req)
      /\ req.method = "GET" => WriteQueries \subseteq Plan(req)
  BY <1>1, PlanFacts, ResponderFacts, BodyFacts
<1>3. Rank("check_visibility") = 4 /\ Rank("nodes_from_way_nodes") = 9
  BY RankValues
<1>4. \A w \in WriteQueries : 23 <= Rank(w)
  BY RankValues DEF WriteQueries
<1>5. QED
  BY <1>1, <1>2, <1>3, <1>4, RankType

LEMMA Inserted ==
    ASSUME SelectionInv, NEW N
    PROVE  /\ insert_results(sel, N) =
                [elements |-> sel.elements \cup N, editions |-> sel.editions,
                 redactions |-> sel.redactions, cc |-> sel.cc]
           /\ insert_editions(sel, N) =
                [elements |-> sel.elements, editions |-> sel.editions \cup N,
                 redactions |-> sel.redactions, cc |-> sel.cc]
<1>1. sel = [elements |-> sel.elements, editions |-> sel.editions,
             redactions |-> sel.redactions, cc |-> sel.cc]
  BY DEF SelectionInv
<1>2. QED
  BY <1>1 DEF insert_results, insert_editions

LEMMA Removed ==
    ASSUME SelectionInv, NEW D
    PROVE  [sel EXCEPT !.elements = @ \ D] =
                [elements |-> sel.elements \ D, editions |-> sel.editions,
                 redactions |-> sel.redactions, cc |-> sel.cc]
<1>1. sel = [elements |-> sel.elements, editions |-> sel.editions,
             redactions |-> sel.redactions, cc |-> sel.cc]
  BY DEF SelectionInv
<1>2. QED
  BY <1>1

\* What stays when a query only selects.
LEMMA Kept ==
    ASSUME ReadInv, UNCHANGED <<db, found, req>>
    PROVE  /\ DatabaseInv'
           /\ UNCHANGED <<rows, out>> => RowsInv'
           /\ (out' = out /\ sel'.cc = sel.cc) => AuthorsInv'
           /\ \A e : (Presentable(e)' <=> Presentable(e)) /\ (Renewed(e)' <=> Renewed(e))
           /\ \A ed : (MayShow(ed)' <=> MayShow(ed)) /\ SelectorOf(ed)' = SelectorOf(ed)
           /\ \A w : Shown(w)' <=> Shown(w)
           /\ Privileged' <=> Privileged
<1>1. DatabaseInv'
  BY DEF ReadInv, DatabaseInv, Sound, Extends
<1>2. UNCHANGED <<rows, out>> => RowsInv'
  BY DEF ReadInv, RowsInv, MayShow, Privileged
<1>3. (out' = out /\ sel'.cc = sel.cc) => AuthorsInv'
  BY DEF ReadInv, AuthorsInv
<1>4. QED
  BY <1>1, <1>2, <1>3 DEF Presentable, Renewed, MayShow, SelectorOf, Shown, Privileged

\* A query that looks for elements.
Gathered(q, D, N) ==
    /\ At(q) /\ 5 <= Rank(q) /\ Rank(q) <= 15
    /\ sel' = [elements |-> (sel.elements \ D) \cup N, editions |-> sel.editions,
               redactions |-> sel.redactions, cc |-> sel.cc]
    /\ todo' = Tail(todo)
    /\ UNCHANGED <<database, request, rows, out, status, failed>>
    /\ N \subseteq Elements /\ \A e \in N : Visible(db, e)
    /\ D # {} => q \in {"parents_only", "drop"}
    /\ q = "nodes_from_way_nodes" => N = MembersOf(db, "Node", sel_of(sel, "Way"))
    /\ 9 < Rank(q) => \A e \in N : e[1] = "Relation"

LEMMA GatheredStep ==
    ASSUME ReadInv, NEW q, NEW D, NEW N, Gathered(q, D, N)
    PROVE  ReadInv'
<1> USE DEF database, request
<1>1. /\ At(q) /\ status = 0 /\ 5 <= Rank(q) /\ Rank(q) <= 15 /\ Rank(q) \in Nat
      /\ q # "users" /\ q \notin EditionQueries
  <2>1. At(q) /\ status = 0 /\ 5 <= Rank(q) /\ Rank(q) <= 15
    BY DEF Gathered, At
  <2>2. Rank(q) \in Nat
    BY RankType
  <2>3. QED
    BY <2>1, <2>2, RankValues DEF EditionQueries
<1>2. /\ UNCHANGED <<db, names, req, found, rows, out, status, failed>>
      /\ sel'.elements = (sel.elements \ D) \cup N /\ sel'.editions = sel.editions
      /\ sel'.redactions = sel.redactions /\ sel'.cc = sel.cc
      /\ N \subseteq Elements
  BY DEF Gathered
<1>3. TodoInv' /\ Todo' = Todo \ {q}
  BY <1>1, TodoTail DEF Gathered, ReadInv
<1>4. /\ q \in Todo /\ \A a \in Todo : a = q \/ Rank(q) < Rank(a)
      /\ rows = {} /\ TodoInv
  BY <1>1, AtFacts DEF ReadInv
<1>5. DatabaseInv' /\ RowsInv' /\ AuthorsInv'
  BY <1>2, Kept
<1>6. SelectionInv'
  BY <1>2 DEF Gathered, ReadInv, SelectionInv, MayShow, Privileged, Visible
<1>7. DeletedInv'
  <2>1. "check_visibility" \notin Todo
    BY <1>1, <1>4, RankValues
  <2>2. \A e \in N : Presentable(e)
    BY DEF Gathered, Presentable
  <2>3. req.kind \notin EditionCalls => \A e \in sel'.elements : Presentable(e)
    BY <1>1, <1>2, <2>1, <2>2 DEF ReadInv, DeletedInv
  <2>4. \A e : Presentable(e)' <=> Presentable(e)
    BY <1>2, Kept
  <2>5. "nodes_from_bbox" \notin Todo'
    BY <1>1, <1>3, <1>4, RankValues
  <2>6. QED
    BY <1>2, <1>3, <2>1, <2>3, <2>4, <2>5 DEF ReadInv, DeletedInv, Shown
<1>8. HistoryInv'
  <2>1. req.kind \notin {"history", "download"}
    BY <1>1, <1>4, PlanKinds, RankValues DEF WriteQueries
  <2>2. QED
    BY <1>2, <2>1 DEF HistoryInv
<1>9. NodesInv'
  <2> SUFFICES ASSUME req.kind \in {"map", "full"}, req.method = "GET", ~failed
               PROVE  NodesInv'
    BY <1>2 DEF NodesInv
  <2>1. WriteQueries \subseteq Todo'
    <3>1. WriteQueries \subseteq Todo
      BY <1>1, <1>4, Pending
    <3>2. q \notin WriteQueries
      BY <1>1, RankValues DEF WriteQueries
    <3>3. QED
      BY <1>3, <3>1, <3>2
  <2>3. D = {}
    BY <1>1, <1>4, PlanKinds DEF Gathered
  <2>4. ASSUME "nodes_from_way_nodes" \notin Todo', NEW w \in OfType("Way", sel'.elements)
        PROVE  Renewed(w) \/ Members(db, w) \subseteq sel'.elements
    <3>1. Rank("nodes_from_way_nodes") = 9
      BY RankValues
    <3>2. CASE Rank(q) <= 9
      <4>1. q = "nodes_from_way_nodes"
        BY <1>1, <1>3, <1>4, <2>4, <3>1, <3>2, Pending
      <4>2. N = MembersOf(db, "Node", sel_of(sel, "Way"))
        BY <4>1 DEF Gathered
      <4>3. w \in sel_of(sel, "Way") /\ w \in Elements /\ w[1] = "Way"
        BY <1>2, <2>3, <2>4, <4>2 DEF OfType, MembersOf, sel_of, ReadInv, SelectionInv
      <4>4. ASSUME NEW m \in Members(db, w) PROVE m \in N
        <5>1. m[1] = "Node"
          BY <4>3, <4>4 DEF Members, ReadInv, DatabaseInv, Sound
        <5>2. QED
          BY <4>2, <4>3, <4>4, <5>1 DEF MembersOf, OfType
      <4>5. QED
        BY <1>2, <4>4
    <3>3. CASE Rank(q) > 9
      <4>1. "nodes_from_way_nodes" \notin Todo
        BY <1>1, <1>4, <3>1, <3>3
      <4>2. w \in OfType("Way", sel.elements)
        BY <1>2, <2>4, <3>3 DEF Gathered, OfType
      <4>3. QED
        BY <1>1, <1>2, <2>3, <4>1, <4>2 DEF ReadInv, NodesInv
    <3>4. QED
      BY <1>1, <3>2, <3>3
  <2>5. \A w \in rows \cup out : ~(w.edition[1][1] = "Way" /\ Recorded(found, w.edition))
    BY <1>1, <1>3, <2>1 DEF ReadInv, NodesInv, WriteQueries
  <2>6. \A w : (Renewed(w)' <=> Renewed(w))
    BY <1>2 DEF Renewed
  <2>7. QED
    BY <1>2, <2>1, <2>4, <2>5, <2>6 DEF NodesInv, WriteQueries
<1>10. QED
  BY <1>3, <1>5, <1>6, <1>7, <1>8, <1>9 DEF ReadInv

\* A query that leaves the selected elements and editions alone.
LEMMA PassStep ==
    ASSUME ReadInv, NEW q \in {"authenticate", "get_roles_for_user", "check_visibility", "changeset"},
           At(q), todo' = Tail(todo), NEW b, b => Privileged,
           sel' = [elements |-> sel.elements, editions |-> sel.editions,
                   redactions |-> b, cc |-> sel.cc],
           (q = "check_visibility" /\ req.kind \notin EditionCalls) =>
                \A e \in sel.elements : Presentable(e),
           UNCHANGED <<database, request, rows, out, status, failed>>
    PROVE  ReadInv'
<1> USE DEF database, request
<1>1. /\ UNCHANGED <<db, found, req, rows, out, status, failed>> /\ status = 0
      /\ sel'.elements = sel.elements /\ sel'.editions = sel.editions /\ sel'.cc = sel.cc
      /\ sel'.redactions = b
      /\ q # "users" /\ q \notin EditionQueries /\ q \notin WriteQueries
      /\ q # "nodes_from_way_nodes"
  BY DEF At, EditionQueries, WriteQueries
<1>2. TodoInv' /\ Todo' = Todo \ {q} /\ TodoInv
  BY <1>1, TodoTail DEF ReadInv
<1>3. DatabaseInv' /\ RowsInv' /\ AuthorsInv'
  BY <1>1, Kept
<1>4. SelectionInv'
  <2>1. \A ed : MayShow(ed)' <=> MayShow(ed)
    BY <1>1, Kept
  <2>2. Privileged' <=> Privileged
    BY <1>1, Kept
  <2>3. QED
    BY <1>1, <2>1, <2>2 DEF ReadInv, SelectionInv
<1>5. DeletedInv'
  <2> SUFFICES ASSUME req.kind \notin EditionCalls
               PROVE  DeletedInv'
    BY <1>1 DEF DeletedInv
  <2>1. (\A e : Presentable(e)' <=> Presentable(e)) /\ \A w : Shown(w)' <=> Shown(w)
    BY <1>1, Kept
  <2>2. "check_visibility" \notin Todo' => \A e \in sel.elements : Presentable(e)
    BY <1>1, <1>2 DEF ReadInv, DeletedInv
  <2>3. QED
    BY <1>1, <1>2, <2>1, <2>2 DEF ReadInv, DeletedInv
<1>6. HistoryInv'
  <2>1. ASSUME NEW ed, req.kind \in {"history", "download"}, OnItsWay(ed) PROVE OnItsWay(ed)'
    <3>1. SelectorOf(ed) \in EditionQueries /\ WriterOf(ed[1][1]) \in WriteQueries
      BY DEF SelectorOf, EditionQueries, WriterOf, WriteQueries
    <3>2. SelectorOf(ed)' = SelectorOf(ed)
      BY <1>1, Kept
    <3>3. QED
      BY <1>1, <1>2, <2>1, <3>1, <3>2 DEF OnItsWay
  <2>2. QED
    BY <1>1, <2>1 DEF ReadInv, HistoryInv
<1>7. NodesInv'
  <2>1. \A e : Renewed(e)' <=> Renewed(e)
    BY <1>1, Kept
  <2>2. "write_nodes" \in Todo' <=> "write_nodes" \in Todo
    BY <1>1, <1>2 DEF WriteQueries
  <2>3. "nodes_from_way_nodes" \in Todo' <=> "nodes_from_way_nodes" \in Todo
    BY <1>1, <1>2
  <2>4. QED
    BY <1>1, <1>2, <2>1, <2>2, <2>3 DEF ReadInv, NodesInv
<1>8. QED
  BY <1>2, <1>3, <1>4, <1>5, <1>6, <1>7 DEF ReadInv

\* authenticate without a token.
LEMMA AnonymousStep ==
    ASSUME ReadInv, At("authenticate"), todo' = Tail(Tail(todo)),
           UNCHANGED <<database, request, sel, rows, out, status, failed>>
    PROVE  ReadInv'
<1> USE DEF database, request
<1>1. /\ UNCHANGED <<db, found, req, sel, rows, out, status, failed>> /\ status = 0
  BY DEF At
<1>2. TodoInv' /\ Todo' = Todo \ {"authenticate", "get_roles_for_user"} /\ TodoInv
  BY <1>1, TodoTailTail DEF ReadInv
<1>3. DatabaseInv' /\ RowsInv' /\ AuthorsInv'
  BY <1>1, Kept
<1>4. SelectionInv'
  BY <1>1 DEF ReadInv, SelectionInv, MayShow, Privileged
<1>5. DeletedInv'
  <2>1. (\A e : Presentable(e)' <=> Presentable(e)) /\ \A w : Shown(w)' <=> Shown(w)
    BY <1>1, Kept
  <2>2. QED
    BY <1>1, <1>2, <2>1 DEF ReadInv, DeletedInv
<1>6. HistoryInv'
  <2>1. ASSUME NEW ed, req.kind \in {"history", "download"}, OnItsWay(ed) PROVE OnItsWay(ed)'
    <3>1. SelectorOf(ed) \in EditionQueries /\ WriterOf(ed[1][1]) \in WriteQueries
      BY DEF SelectorOf, EditionQueries, WriterOf, WriteQueries
    <3>2. SelectorOf(ed)' = SelectorOf(ed)
      BY <1>1, Kept
    <3>3. QED
      BY <1>1, <1>2, <2>1, <3>1, <3>2 DEF OnItsWay, EditionQueries, WriteQueries
  <2>2. QED
    BY <1>1, <2>1 DEF ReadInv, HistoryInv
<1>7. NodesInv'
  <2>1. \A e : Renewed(e)' <=> Renewed(e)
    BY <1>1, Kept
  <2>2. QED
    BY <1>1, <1>2, <2>1 DEF ReadInv, NodesInv
<1>8. QED
  BY <1>2, <1>3, <1>4, <1>5, <1>6, <1>7 DEF ReadInv

LEMMA ThrowStep ==
    ASSUME ReadInv, NEW q, At(q), q # "users",
           NEW code \in {bad_request, unauthorized, not_found, gone}, Throw(code)
    PROVE  ReadInv'
<1> USE DEF database, request
<1>1. /\ UNCHANGED <<db, found, req, sel, rows, out, failed>> /\ todo' = <<>> /\ status' = code
      /\ status' \notin {0, OK}
  BY DEF Throw, OK, bad_request, unauthorized, not_found, gone
<1>2. TodoInv' /\ rows' = {}
  BY <1>1, AtFacts, TodoEmpty DEF ReadInv
<1>3. DatabaseInv' /\ RowsInv' /\ AuthorsInv'
  BY <1>1, Kept
<1>4. SelectionInv'
  BY <1>1 DEF ReadInv, SelectionInv, MayShow, Privileged
<1>5. DeletedInv'
  <2>1. \A w : Shown(w)' <=> Shown(w)
    BY <1>1, Kept
  <2>2. QED
    BY <1>1, <2>1 DEF ReadInv, DeletedInv
<1>6. HistoryInv' /\ NodesInv'
  BY <1>1 DEF ReadInv, HistoryInv, NodesInv
<1>7. QED
  BY <1>2, <1>3, <1>4, <1>5, <1>6 DEF ReadInv

\* The queries are skipped: nothing is left to look for.
LEMMA BodyStep ==
    ASSUME ReadInv, NEW q \in {"select", "check_visibility", "nodes_from_bbox"}, At(q),
           NEW s, SkipToBody(s),
           s = [elements |-> s.elements, editions |-> sel.editions,
                redactions |-> sel.redactions, cc |-> sel.cc],
           s.elements = {},
           req.kind \notin {"history", "download"}
    PROVE  ReadInv'
<1> USE DEF database, request
<1>1. /\ UNCHANGED <<db, found, req, rows, out, status, failed>> /\ status = 0 /\ sel' = s
      /\ sel'.elements = {} /\ sel'.editions = sel.editions /\ sel'.cc = sel.cc
      /\ sel'.redactions = sel.redactions /\ todo' = Body(req) /\ q # "users"
  BY DEF SkipToBody, At
<1>2. TodoInv' /\ Todo' = QueriesIn(Body(req)) /\ TodoInv
  BY <1>1, TodoBody DEF ReadInv
<1>3. DatabaseInv' /\ RowsInv' /\ AuthorsInv'
  BY <1>1, Kept
<1>4. SelectionInv'
  <2>1. (\A ed : MayShow(ed)' <=> MayShow(ed)) /\ (Privileged' <=> Privileged)
    BY <1>1, Kept
  <2>2. QED
    BY <1>1, <2>1 DEF ReadInv, SelectionInv
<1>5. DeletedInv'
  <2>1. \A w : Shown(w)' <=> Shown(w)
    BY <1>1, Kept
  <2>2. QED
    BY <1>1, <2>1 DEF ReadInv, DeletedInv
<1>6. HistoryInv'
  BY <1>1 DEF HistoryInv
<1>7. NodesInv'
  <2> SUFFICES ASSUME req.kind \in {"map", "full"}, req.method = "GET", ~failed
               PROVE  NodesInv'
    BY <1>1 DEF NodesInv
  <2>1. "write_nodes" \in Todo
    <3>1. q \in Todo /\ Rank(q) <= 22
      BY AtFacts, RankValues DEF ReadInv
    <3>2. QED
      BY <1>1, <3>1, Pending DEF ReadInv, WriteQueries
  <2>2. \A w \in rows \cup out : ~(w.edition[1][1] = "Way" /\ Recorded(found, w.edition))
    BY <1>1, <2>1 DEF ReadInv, NodesInv
  <2>3. QED
    BY <1>1, <2>2 DEF NodesInv, OfType
<1>8. QED
  BY <1>2, <1>3, <1>4, <1>5, <1>6, <1>7 DEF ReadInv

LEMMA SelectStep ==
    ASSUME ReadInv, At("select"), Selected(select_ids(db, sel, req.ids))
    PROVE  ReadInv'
<1> USE DEF database, request
<1> DEFINE N == {e \in req.ids : Exists(db, e)}
<1>1. /\ UNCHANGED <<db, found, req, rows, out, status, failed>> /\ status = 0
      /\ todo' = Tail(todo)
      /\ sel' = [elements |-> sel.elements \cup N, editions |-> sel.editions,
                 redactions |-> sel.redactions, cc |-> sel.cc]
  BY Inserted DEF Selected, select_ids, At, ReadInv
<1>2. /\ sel'.elements = sel.elements \cup N /\ sel'.editions = sel.editions
      /\ sel'.cc = sel.cc /\ sel'.redactions = sel.redactions
  BY <1>1
<1>3. TodoInv' /\ Todo' = Todo \ {"select"} /\ TodoInv
  BY <1>1, TodoTail DEF ReadInv
<1>4. "select" \in Todo /\ Rank("select") = 3 /\ \A a \in Todo : a = "select" \/ 3 < Rank(a)
  BY AtFacts, RankValues DEF ReadInv
<1>5. N \subseteq Elements
  BY RequestsAssumption DEF ReadInv, TodoInv, Request
<1>6. DatabaseInv' /\ RowsInv' /\ AuthorsInv'
  BY <1>1, <1>2, Kept
<1>7. SelectionInv'
  <2>1. (\A ed : MayShow(ed)' <=> MayShow(ed)) /\ (Privileged' <=> Privileged)
    BY <1>1, Kept
  <2>2. QED
    BY <1>1, <1>2, <1>5, <2>1 DEF ReadInv, SelectionInv
<1>8. DeletedInv'
  <2> SUFFICES ASSUME req.kind \notin EditionCalls
               PROVE  DeletedInv'
    BY <1>1 DEF DeletedInv
  <2>1. req.kind \in {"element", "full", "ways", "relations"}
    <3>1. req.kind \in Kinds /\ req.kind # "map"
      BY <1>3, <1>4, PlanKinds, RequestsAssumption DEF TodoInv, Request
    <3>2. QED
      BY <3>1 DEF Kinds, EditionCalls
  <2>2. "check_visibility" \in Todo /\ "check_visibility" \in Todo'
    BY <1>3, <1>4, <2>1, Pending
  <2>3. \A w : Shown(w)' <=> Shown(w)
    BY <1>1, Kept
  <2>4. \A e \in sel'.elements : e \in req.ids
    BY <1>1, <1>2, <2>2 DEF ReadInv, DeletedInv
  <2>5. "nodes_from_bbox" \notin Todo'
    BY <1>3, <2>1, PlanKinds
  <2>6. QED
    BY <1>1, <1>2, <2>2, <2>3, <2>4, <2>5 DEF ReadInv, DeletedInv
<1>9. HistoryInv'
  <2>1. req.kind \notin {"history", "download"}
    BY <1>3, <1>4, PlanKinds DEF WriteQueries
  <2>2. QED
    BY <1>1, <2>1 DEF HistoryInv
<1>10. NodesInv'
  <2> SUFFICES ASSUME req.kind = "full", req.method = "GET", ~failed
               PROVE  NodesInv'
    BY <1>1, <1>3, <1>4, PlanKinds DEF NodesInv
  <2>1. /\ "write_nodes" \in Todo /\ "write_nodes" \in Todo'
        /\ "nodes_from_way_nodes" \in Todo'
    BY <1>3, <1>4, Pending DEF WriteQueries
  <2>3. \A w \in rows \cup out : ~(w.edition[1][1] = "Way" /\ Recorded(found, w.edition))
    BY <1>1, <2>1 DEF ReadInv, NodesInv
  <2>4. QED
    BY <1>1, <2>1, <2>3 DEF NodesInv
<1>11. QED
  BY <1>3, <1>6, <1>7, <1>8, <1>9, <1>10 DEF ReadInv

\* A query that looks for editions.
LEMMA EditionStep ==
    ASSUME ReadInv, NEW q \in EditionQueries, At(q), NEW N, N \subseteq Editions,
           \A ed \in N : Recorded(db, ed) /\ Readable(db, sel, ed),
           req.kind \in {"history", "download"} =>
               \A ed \in Answer(found, req) :
                   SelectorOf(ed) = q => ed \in N \/ RowOf(db, ed).redacted,
           Selected(insert_editions(sel, N))
    PROVE  ReadInv'
<1> USE DEF database, request
<1>1. /\ UNCHANGED <<db, found, req, rows, out, status, failed>> /\ status = 0
      /\ todo' = Tail(todo)
      /\ sel' = [elements |-> sel.elements, editions |-> sel.editions \cup N,
                 redactions |-> sel.redactions, cc |-> sel.cc]
  BY Inserted DEF Selected, At, ReadInv
<1>2. /\ sel'.elements = sel.elements /\ sel'.editions = sel.editions \cup N
      /\ sel'.cc = sel.cc /\ sel'.redactions = sel.redactions
  BY <1>1
<1>3. q # "users" /\ q \notin WriteQueries /\ Rank(q) <= 21
  BY RankValues DEF EditionQueries, WriteQueries
<1>4. TodoInv' /\ Todo' = Todo \ {q} /\ TodoInv /\ q \in Todo
  BY <1>1, <1>3, TodoTail, AtFacts DEF ReadInv
<1>5. req.kind \in EditionCalls
  BY <1>3, <1>4, PlanKinds
<1>6. DatabaseInv' /\ RowsInv' /\ AuthorsInv'
  BY <1>1, <1>2, Kept
<1>7. SelectionInv'
  <2>1. (\A ed : MayShow(ed)' <=> MayShow(ed)) /\ (Privileged' <=> Privileged)
    BY <1>1, Kept
  <2>2. ASSUME NEW ed \in N PROVE MayShow(ed)
    <3>1. ed[1] \in Elements
      BY DEF Editions
    <3>2. (Recorded(found, ed) /\ RowOf(found, ed).redacted) => RowOf(db, ed).redacted
      BY <3>1 DEF ReadInv, DatabaseInv, Extends, Recorded, RowOf
    <3>3. QED
      BY <3>2 DEF Readable, MayShow, ReadInv, SelectionInv
  <2>3. QED
    BY <1>1, <1>2, <2>1, <2>2 DEF ReadInv, SelectionInv
<1>8. DeletedInv' /\ NodesInv'
  BY <1>1, <1>5 DEF DeletedInv, NodesInv, EditionCalls
<1>9. HistoryInv'
  <2> SUFFICES ASSUME req.kind \in {"history", "download"}, req.method = "GET", ~failed,
                      NEW ed \in Answer(found, req), OnItsWay(ed)
               PROVE  OnItsWay(ed)'
    BY <1>1, <1>2 DEF ReadInv, HistoryInv
  <2>1. WriterOf(ed[1][1]) \in Todo'
    <3>1. WriterOf(ed[1][1]) \in WriteQueries
      BY DEF WriterOf, WriteQueries
    <3>2. WriteQueries \subseteq Todo
      BY <1>3, <1>4, Pending, RankType
    <3>3. QED
      BY <1>3, <1>4, <3>1, <3>2
  <2>2. SelectorOf(ed)' = SelectorOf(ed)
    BY <1>1, Kept
  <2>3. CASE SelectorOf(ed) = q
    BY <1>1, <1>2, <2>1, <2>3 DEF OnItsWay
  <2>4. CASE SelectorOf(ed) # q
    BY <1>1, <1>2, <1>4, <2>1, <2>2, <2>4 DEF OnItsWay
  <2>5. QED
    BY <2>3, <2>4
<1>10. QED
  BY <1>4, <1>6, <1>7, <1>8, <1>9 DEF ReadInv

(***************************************************************************)
(* The queries                                                             *)
(***************************************************************************)
LEMMA Related ==
    ASSUME DatabaseInv, NEW t, NEW S
    PROVE  /\ ParentsOf(db, t, S) \subseteq Elements
           /\ \A e \in ParentsOf(db, t, S) : Visible(db, e) /\ e[1] = t
           /\ S \subseteq Elements =>
                /\ MembersOf(db, t, S) \subseteq Elements
                /\ \A e \in MembersOf(db, t, S) : Visible(db, e) /\ e[1] = t
<1>1. db \in Databases
  BY DEF DatabaseInv, Sound, Databases
<1>2. ASSUME NEW p \in Elements, NEW m \in Members(db, p)
      PROVE  m \in Elements /\ Visible(db, m) /\ Visible(db, p)
  <2>1. Exists(db, p) /\ m \in Current(db, p).refs
    BY <1>2 DEF Members
  <2>2. Current(db, p) \in Row
    BY <1>1, <2>1, RowsOf
  <2>3. m \in Elements
    BY <2>1, <2>2 DEF Row
  <2>4. Visible(db, m) /\ Current(db, p).visible
    BY <2>1 DEF DatabaseInv, Sound
  <2>5. QED
    BY <2>1, <2>3, <2>4 DEF Visible
<1>3. QED
  BY <1>2 DEF ParentsOf, MembersOf, OfType

LEMMA GatherOne ==
    ASSUME ReadInv, NEW q, At(q), 5 <= Rank(q), Rank(q) <= 15, NEW N,
           N \subseteq Elements, \A e \in N : Visible(db, e),
           q = "nodes_from_way_nodes" => N = MembersOf(db, "Node", sel_of(sel, "Way")),
           9 < Rank(q) => \A e \in N : e[1] = "Relation",
           Selected(insert_results(sel, N))
    PROVE  ReadInv'
<1>1. Gathered(q, {}, N)
  <2>1. sel' = [elements |-> sel.elements \cup N, editions |-> sel.editions,
                redactions |-> sel.redactions, cc |-> sel.cc]
    BY Inserted DEF Selected, ReadInv
  <2>2. sel.elements \ {} = sel.elements
    OBVIOUS
  <2>3. QED
    BY <2>1, <2>2 DEF Gathered, Selected
<1>2. QED
  BY <1>1, GatheredStep

LEMMA QueriesStep == ASSUME ReadInv, current_queries PROVE ReadInv'
<1>1. /\ DatabaseInv /\ SelectionInv
      /\ \A t : sel_of(sel, t) \subseteq Elements
  BY DEF ReadInv, SelectionInv, sel_of, OfType
<1>2. CASE At("nodes_from_relations") /\ Selected(select_nodes_from_relations(db, sel))
  <2> DEFINE N == MembersOf(db, "Node", sel_of(sel, "Relation"))
  <2>1. N \subseteq Elements /\ \A e \in N : Visible(db, e)
    BY <1>1, Related
  <2> HIDE DEF N
  <2>2. Selected(insert_results(sel, N))
    BY <1>2 DEF select_nodes_from_relations, N
  <2>3. QED
    BY <1>2, <2>1, <2>2, GatherOne, RankValues
<1>3. CASE At("ways_from_nodes") /\ Selected(select_ways_from_nodes(db, sel))
  <2> DEFINE N == ParentsOf(db, "Way", sel_of(sel, "Node"))
  <2>1. N \subseteq Elements /\ \A e \in N : Visible(db, e)
    BY <1>1, Related
  <2> HIDE DEF N
  <2>2. Selected(insert_results(sel, N))
    BY <1>3 DEF select_ways_from_nodes, N
  <2>3. QED
    BY <1>3, <2>1, <2>2, GatherOne, RankValues
<1>4. CASE At("ways_from_relations") /\ Selected(select_ways_from_relations(db, sel))
  <2> DEFINE N == MembersOf(db, "Way", sel_of(sel, "Relation"))
  <2>1. N \subseteq Elements /\ \A e \in N : Visible(db, e)
    BY <1>1, Related
  <2> HIDE DEF N
  <2>2. Selected(insert_results(sel, N))
    BY <1>4 DEF select_ways_from_relations, N
  <2>3. QED
    BY <1>4, <2>1, <2>2, GatherOne, RankValues
<1>5. CASE At("relations_from_ways") /\ Selected(select_relations_from_ways(db, sel))
  <2> DEFINE N == ParentsOf(db, "Relation", sel_of(sel, "Way"))
  <2>1. N \subseteq Elements /\ \A e \in N : Visible(db, e) /\ e[1] = "Relation"
    BY <1>1, Related
  <2> HIDE DEF N
  <2>2. Selected(insert_results(sel, N))
    BY <1>5 DEF select_relations_from_ways, N
  <2>3. QED
    BY <1>5, <2>1, <2>2, GatherOne, RankValues
<1>6. CASE At("nodes_from_way_nodes") /\ Selected(select_nodes_from_way_nodes(db, sel))
  <2> DEFINE N == MembersOf(db, "Node", sel_of(sel, "Way"))
  <2>1. N \subseteq Elements /\ \A e \in N : Visible(db, e)
    BY <1>1, Related
  <2>2. Selected(insert_results(sel, N))
    BY <1>6 DEF select_nodes_from_way_nodes
  <2>3. Rank("nodes_from_way_nodes") = 9
    BY RankValues
  <2>4. QED
    BY <1>6, <2>1, <2>2, <2>3, GatherOne
<1>7. CASE At("relations_from_nodes") /\ Selected(select_relations_from_nodes(db, sel))
  <2> DEFINE N == ParentsOf(db, "Relation", sel_of(sel, "Node"))
  <2>1. N \subseteq Elements /\ \A e \in N : Visible(db, e) /\ e[1] = "Relation"
    BY <1>1, Related
  <2> HIDE DEF N
  <2>2. Selected(insert_results(sel, N))
    BY <1>7 DEF select_relations_from_nodes, N
  <2>3. QED
    BY <1>7, <2>1, <2>2, GatherOne, RankValues
<1>8. CASE At("relations_from_relations") /\ Selected(select_relations_from_relations(db, sel, FALSE))
  <2> DEFINE N == ParentsOf(db, "Relation", sel_of(sel, "Relation"))
  <2>1. N \subseteq Elements /\ \A e \in N : Visible(db, e) /\ e[1] = "Relation"
    BY <1>1, Related
  <2> HIDE DEF N
  <2>2. Selected(insert_results(sel, N))
    BY <1>8 DEF select_relations_from_relations, N
  <2>3. QED
    BY <1>8, <2>1, <2>2, GatherOne, RankValues
<1>9. CASE At("parents_only") /\ Selected(select_relations_from_relations(db, sel, TRUE))
  <2> DEFINE D == sel_of(sel, "Relation")
             N == ParentsOf(db, "Relation", D)
  <2>1. N \subseteq Elements /\ \A e \in N : Visible(db, e) /\ e[1] = "Relation"
    BY <1>1, Related
  <2>2. select_relations_from_relations(db, sel, TRUE) =
            insert_results([sel EXCEPT !.elements = @ \ D], N)
    BY Zenon DEF select_relations_from_relations
  <2> HIDE DEF D, N
  <2>3. [sel EXCEPT !.elements = @ \ D] =
            [elements |-> sel.elements \ D, editions |-> sel.editions,
             redactions |-> sel.redactions, cc |-> sel.cc]
    BY <1>1, Removed
  <2>4. select_relations_from_relations(db, sel, TRUE) =
            [elements |-> (sel.elements \ D) \cup N, editions |-> sel.editions,
             redactions |-> sel.redactions, cc |-> sel.cc]
    BY <2>2, <2>3 DEF insert_results
  <2>5. Rank("parents_only") = 14
    BY RankValues
  <2> DEFINE s == [elements |-> (sel.elements \ D) \cup N, editions |-> sel.editions,
                   redactions |-> sel.redactions, cc |-> sel.cc]
  <2>6. Gathered("parents_only", D, N)
    <3>1. Selected(s)
      BY <1>9, <2>4
    <3>2. sel' = s
      BY <3>1 DEF Selected
    <3> HIDE DEF s
    <3>3. todo' = Tail(todo) /\ UNCHANGED <<database, request, rows, out, status, failed>>
      BY <3>1 DEF Selected
    <3>4. 5 <= Rank("parents_only") /\ Rank("parents_only") <= 15
      BY <2>5
    <3>5. QED
      BY <1>9, <2>1, <3>2, <3>3, <3>4, Zenon DEF Gathered, s
  <2>7. QED
    BY <2>6, GatheredStep
<1>10. CASE At("members_of_relations") /\ Selected(select_relations_members_of_relations(db, sel))
  <2> DEFINE N == MembersOf(db, "Relation", sel_of(sel, "Relation"))
  <2>1. N \subseteq Elements /\ \A e \in N : Visible(db, e) /\ e[1] = "Relation"
    BY <1>1, Related
  <2> HIDE DEF N
  <2>2. Selected(insert_results(sel, N))
    BY <1>10 DEF select_relations_members_of_relations, N
  <2>3. QED
    BY <1>10, <2>1, <2>2, GatherOne, RankValues
<1>11. QED
  BY <1>2, <1>3, <1>4, <1>5, <1>6, <1>7, <1>8, <1>9, <1>10 DEF current_queries

LEMMA DropStep == ASSUME ReadInv, drop_elements PROVE ReadInv'
<1> DEFINE D == OfType(TypeOf(req), Elements)
<1>1. drop(sel, TypeOf(req)) =
          [elements |-> sel.elements \ D, editions |-> sel.editions,
           redactions |-> sel.redactions, cc |-> sel.cc]
  BY Removed DEF drop, ReadInv
<1>2. (sel.elements \ D) \cup {} = sel.elements \ D
  OBVIOUS
<1> HIDE DEF D
<1>3. Gathered("drop", D, {})
  BY <1>1, <1>2, RankValues DEF drop_elements, Gathered, Selected
<1>4. QED
  BY <1>3, GatheredStep

LEMMA BBoxStep == ASSUME ReadInv, nodes_from_bbox PROVE ReadInv'
<1> DEFINE N == visible_node_in_bbox(db)
<1>1. At("nodes_from_bbox")
  BY DEF nodes_from_bbox
<1>2. CASE Throw(bad_request)
  BY <1>1, <1>2, ThrowStep
<1>3. CASE SkipToBody(sel)
  <2>1. "nodes_from_bbox" \in Todo /\ \A a \in Todo : a = "nodes_from_bbox" \/ 5 < Rank(a)
    BY <1>1, AtFacts, RankValues DEF ReadInv
  <2>2. req.kind = "map"
    BY <2>1, PlanKinds DEF ReadInv
  <2>3. sel = [elements |-> sel.elements, editions |-> sel.editions,
               redactions |-> sel.redactions, cc |-> sel.cc]
    BY DEF ReadInv, SelectionInv
  <2>4. sel.elements = {}
    BY <1>1, <2>1, <2>2 DEF ReadInv, DeletedInv, EditionCalls, At
  <2>5. QED
    BY <1>1, <1>3, <2>2, <2>3, <2>4, BodyStep
<1>4. CASE Selected(insert_results(sel, N))
  <2>1. N \subseteq Elements /\ \A e \in N : Visible(db, e)
    BY DEF visible_node_in_bbox, OfType
  <2> HIDE DEF N
  <2>2. QED
    BY <1>1, <1>4, <2>1, GatherOne, RankValues
<1>5. QED
  BY <1>2, <1>3, <1>4 DEF nodes_from_bbox

LEMMA GiveUpStep ==
    ASSUME ReadInv, NEW q \in {"select", "check_visibility"}, At(q), lenient(req), GiveUp
    PROVE  ReadInv'
<1> DEFINE D == OfType(TypeOf(req), Elements)
<1>1. drop(sel, TypeOf(req)) =
          [elements |-> sel.elements \ D, editions |-> sel.editions,
           redactions |-> sel.redactions, cc |-> sel.cc]
  BY Removed DEF drop, ReadInv
<1>2. TodoInv /\ q \in Todo /\ q # "users" /\ Rank(q) <= 4
  BY AtFacts, RankValues DEF ReadInv
<1>3. req.kind \in {"ways", "relations"} /\ req \in Requests
  BY <1>2 DEF lenient, TodoInv
<1>4. sel.elements \subseteq {the(req.ids)}
  <2>1. "check_visibility" \in Todo
    BY <1>2, <1>3, Pending
  <2>2. sel.elements \subseteq req.ids
    BY <1>3, <2>1 DEF ReadInv, DeletedInv, EditionCalls, At
  <2>3. QED
    BY <1>3, <2>2, TypeOfOne
<1>5. the(req.ids) \in D
  BY <1>3, TypeOfOne DEF OfType
<1>6. sel.elements \ D = {}
  BY <1>4, <1>5
<1> HIDE DEF D
<1>7. SkipToBody([elements |-> {}, editions |-> sel.editions,
                  redactions |-> sel.redactions, cc |-> sel.cc])
  BY <1>1, <1>6 DEF GiveUp
<1>8. QED
  BY <1>3, <1>7, BodyStep

LEMMA SelectionStep == ASSUME ReadInv, select PROVE ReadInv'
<1>1. At("select")
  BY DEF select
<1>2. CASE Selected(select_ids(db, sel, req.ids))
  BY <1>1, <1>2, SelectStep
<1>3. CASE lenient(req) /\ GiveUp
  BY <1>1, <1>3, GiveUpStep
<1>4. CASE Throw(not_found)
  BY <1>1, <1>4, ThrowStep
<1>5. QED
  BY <1>2, <1>3, <1>4 DEF select

LEMMA Same ==
    ASSUME ReadInv
    PROVE  /\ sel = [elements |-> sel.elements, editions |-> sel.editions,
                     redactions |-> sel.redactions, cc |-> sel.cc]
           /\ sel.redactions => Privileged
BY DEF ReadInv, SelectionInv

LEMMA VisibilityStep == ASSUME ReadInv, check_visibility PROVE ReadInv'
<1>1. At("check_visibility") /\ status = 0
  BY DEF check_visibility, At
<1>2. CASE ~deleted(db, the(req.ids)) /\ Selected(sel)
  <2>1. TodoInv /\ "check_visibility" \in Todo
    BY <1>1, AtFacts DEF ReadInv
  <2>2. req.kind \in {"element", "full", "ways", "relations"} /\ req \in Requests
    <3>1. req.kind \in Kinds /\ req.kind # "map" /\ req.kind \notin EditionCalls /\ req \in Requests
      BY <2>1, PlanKinds, ResponderOfKind DEF TodoInv
    <3>2. QED
      BY <3>1 DEF Kinds, EditionCalls
  <2>3. sel.elements \subseteq {the(req.ids)}
    <3>1. sel.elements \subseteq req.ids
      BY <1>1, <2>1, <2>2 DEF ReadInv, DeletedInv, EditionCalls
    <3>2. QED
      BY <2>2, <3>1, TypeOfOne
  <2>4. \A e \in sel.elements : Presentable(e)
    BY <1>2, <2>3 DEF deleted, Presentable, ReadInv, SelectionInv
  <2>5. QED
    BY <1>1, <1>2, <2>4, Same, PassStep DEF Selected
<1>3. CASE lenient(req) /\ GiveUp
  BY <1>1, <1>3, GiveUpStep
<1>4. CASE Throw(gone)
  BY <1>1, <1>4, ThrowStep
<1>5. QED
  BY <1>2, <1>3, <1>4 DEF check_visibility

LEMMA AuthenticateStep == ASSUME ReadInv, authenticate PROVE ReadInv'
<1>1. At("authenticate")
  BY DEF authenticate
<1>2. CASE /\ todo' = Tail(Tail(todo))
           /\ UNCHANGED <<database, request, sel, rows, out, status, failed>>
  BY <1>1, <1>2, AnonymousStep
<1>3. CASE Throw(unauthorized)
  BY <1>1, <1>3, ThrowStep
<1>4. CASE Selected(sel)
  BY <1>1, <1>4, Same, PassStep DEF Selected
<1>5. QED
  BY <1>2, <1>3, <1>4 DEF authenticate

LEMMA RolesStep == ASSUME ReadInv, get_roles_for_user PROVE ReadInv'
<1>1. At("get_roles_for_user") /\ Selected(set_redactions_visible(sel))
  BY DEF get_roles_for_user
<1> DEFINE b == req.token = "moderator" /\ req.show_redactions
<1>2. b => Privileged
  BY DEF Privileged
<1>3. set_redactions_visible(sel) = [sel EXCEPT !.redactions = b]
  BY DEF set_redactions_visible
<1> HIDE DEF b
<1>4. [sel EXCEPT !.redactions = b] =
          [elements |-> sel.elements, editions |-> sel.editions, redactions |-> b, cc |-> sel.cc]
  BY Same
<1>5. Selected([elements |-> sel.elements, editions |-> sel.editions, redactions |-> b, cc |-> sel.cc])
  BY <1>1, <1>3, <1>4
<1>6. QED
  BY <1>1, <1>2, <1>5, PassStep DEF Selected

LEMMA ChangesetStep == ASSUME ReadInv, changeset PROVE ReadInv'
<1>1. At("changeset")
  BY DEF changeset
<1>2. CASE Throw(not_found)
  BY <1>1, <1>2, ThrowStep
<1>3. CASE Selected(sel)
  BY <1>1, <1>3, Same, PassStep DEF Selected
<1>4. QED
  BY <1>2, <1>3 DEF changeset

LEMMA HistoricalStep == ASSUME ReadInv, historical PROVE ReadInv'
<1>1. At("historical")
  BY DEF historical
<1>2. CASE Throw(not_found)
  BY <1>1, <1>2, ThrowStep
<1>3. CASE Selected(select_historical(db, sel, req.eds))
  <2> DEFINE N == {ed \in req.eds : Recorded(db, ed) /\ Readable(db, sel, ed)}
  <2>1. N \subseteq Editions
    BY RequestsAssumption DEF ReadInv, TodoInv, Request
  <2>2. \A ed \in N : Recorded(db, ed) /\ Readable(db, sel, ed)
    OBVIOUS
  <2>3. Selected(insert_editions(sel, N))
    BY <1>3 DEF select_historical
  <2> HIDE DEF N
  <2>4. \A ed : SelectorOf(ed) # "historical"
    BY DEF SelectorOf
  <2>5. "historical" \in EditionQueries
    BY DEF EditionQueries
  <2>6. QED
    BY <1>1, <2>1, <2>2, <2>3, <2>4, <2>5, EditionStep
<1>4. QED
  BY <1>2, <1>3 DEF historical

LEMMA WithHistoryStep == ASSUME ReadInv, with_history PROVE ReadInv'
<1>1. At("with_history")
  BY DEF with_history
<1>2. CASE Throw(not_found)
  BY <1>1, <1>2, ThrowStep
<1>3. CASE Selected(select_with_history(db, sel, the(req.ids)))
  <2> DEFINE e == the(req.ids)
             N == {ed \in {e} \X DOMAIN db[e] : Readable(db, sel, ed)}
  <2>1. TodoInv /\ "with_history" \in Todo /\ DatabaseInv
    BY <1>1, AtFacts DEF ReadInv
  <2>2. req.kind = "history" /\ req \in Requests
    BY <2>1, PlanKinds DEF TodoInv
  <2>3. e \in Elements
    BY <2>2, TypeOfOne
  <2>4. DOMAIN db[e] \subseteq Nat \ {0}
    BY <2>1, <2>3, RowsOf DEF DatabaseInv, Sound, Databases
  <2>5. N \subseteq Editions /\ \A ed \in N : Recorded(db, ed) /\ Readable(db, sel, ed)
    BY <2>3, <2>4 DEF Editions, Recorded
  <2>6. ASSUME NEW ed \in Answer(found, req) PROVE ed \in N \/ RowOf(db, ed).redacted
    <3>1. ed[1] = e /\ ed[2] \in DOMAIN db[ed[1]] /\ ed = <<ed[1], ed[2]>>
      BY <2>1, <2>2, AnswerTyped
    <3>2. ed \in {e} \X DOMAIN db[e]
      BY <3>1
    <3>3. QED
      BY <3>2 DEF Readable
  <2>7. Selected(insert_editions(sel, N))
    BY <1>3 DEF select_with_history
  <2> HIDE DEF N, e
  <2>8. "with_history" \in EditionQueries
    BY DEF EditionQueries
  <2>9. QED
    BY <1>1, <2>5, <2>6, <2>7, <2>8, EditionStep
<1>4. QED
  BY <1>2, <1>3 DEF with_history

LEMMA ByChangeset ==
    ASSUME ReadInv, NEW q, NEW t,
           <<q, t>> \in {<<"nodes_by_changeset", "Node">>, <<"ways_by_changeset", "Way">>,
                         <<"relations_by_changeset", "Relation">>},
           At(q), by_changeset(t)
    PROVE  ReadInv'
<1> DEFINE N == {ed \in UNION {{e} \X DOMAIN db[e] : e \in OfType(t, Elements)} :
                    /\ RowOf(db, ed).changeset = req.changeset
                    /\ Readable(db, sel, ed)}
<1>1. TodoInv /\ DatabaseInv /\ q \in EditionQueries
  BY DEF ReadInv, EditionQueries
<1>2. \A e \in Elements : DOMAIN db[e] \subseteq Nat \ {0}
  BY <1>1, RowsOf DEF DatabaseInv, Sound, Databases
<1>3. ASSUME NEW ed \in N PROVE ed \in Editions /\ Recorded(db, ed) /\ Readable(db, sel, ed)
  <2>1. PICK e \in OfType(t, Elements) : ed \in {e} \X DOMAIN db[e]
    BY <1>3
  <2>2. ed[1] = e /\ ed[2] \in DOMAIN db[e] /\ e \in Elements /\ ed = <<ed[1], ed[2]>>
    BY <2>1 DEF OfType
  <2>3. QED
    BY <1>2, <1>3, <2>2 DEF Editions, Recorded
<1>4. ASSUME req.kind \in {"history", "download"}, NEW ed \in Answer(found, req), SelectorOf(ed) = q
      PROVE  ed \in N \/ RowOf(db, ed).redacted
  <2>1. req.kind = "download"
    BY <1>4 DEF SelectorOf
  <2>2. /\ ed[1] \in Elements /\ ed[2] \in DOMAIN db[ed[1]] /\ ed = <<ed[1], ed[2]>>
        /\ RowOf(db, ed).changeset = req.changeset
    BY <1>1, <2>1, AnswerTyped
  <2>3. ed[1][1] = t
    BY <1>4, <2>1, <2>2, ElementsAssumption DEF SelectorOf
  <2>4. ed[1] \in OfType(t, Elements) /\ ed \in {ed[1]} \X DOMAIN db[ed[1]]
    BY <2>2, <2>3 DEF OfType
  <2>5. ed \in UNION {{e} \X DOMAIN db[e] : e \in OfType(t, Elements)}
    BY <2>4
  <2>6. QED
    BY <2>2, <2>5 DEF Readable
<1>5. Selected(insert_editions(sel, N))
  BY DEF by_changeset, select_by_changeset
<1> HIDE DEF N
<1>6. N \subseteq Editions /\ \A ed \in N : Recorded(db, ed) /\ Readable(db, sel, ed)
  BY <1>3
<1>7. QED
  BY <1>1, <1>4, <1>5, <1>6, EditionStep

LEMMA ChangesetQueriesStep == ASSUME ReadInv, changeset_queries PROVE ReadInv'
<1>1. CASE At("nodes_by_changeset") /\ by_changeset("Node")
  BY <1>1, ByChangeset
<1>2. CASE At("ways_by_changeset") /\ by_changeset("Way")
  BY <1>2, ByChangeset
<1>3. CASE At("relations_by_changeset") /\ by_changeset("Relation")
  BY <1>3, ByChangeset
<1>4. QED
  BY <1>1, <1>2, <1>3 DEF changeset_queries

(***************************************************************************)
(* Writing the answer                                                      *)
(***************************************************************************)
LEMMA WritingFacts ==
    ASSUME ReadInv, Writing
    PROVE  /\ status = 0 /\ Head(todo) \in WriteQueries /\ At(Head(todo))
           /\ Type \in {"Node", "Way", "Relation"} /\ WriterOf(Type) = Head(todo)
           /\ \A t \in {"Node", "Way", "Relation"} : WriterOf(t) = Head(todo) => t = Type
           /\ rows = {} /\ \A a \in Todo : 23 <= Rank(a)
           /\ Head(todo) # "write_nodes" => "write_nodes" \notin Todo
<1>1. status = 0 /\ todo # <<>> /\ Head(todo) \in DOMAIN TypeWritten
  BY DEF Writing
<1>2. DOMAIN TypeWritten = WriteQueries
  BY DEF TypeWritten, WriteQueries
<1>3. /\ TypeWritten["write_nodes"] = "Node" /\ TypeWritten["write_ways"] = "Way"
      /\ TypeWritten["write_relations"] = "Relation"
  BY DEF TypeWritten
<1>4. Head(todo) \in WriteQueries /\ At(Head(todo)) /\ Head(todo) # "users"
  BY <1>1, <1>2 DEF At, WriteQueries
<1>5. /\ Type \in {"Node", "Way", "Relation"} /\ WriterOf(Type) = Head(todo)
      /\ \A t \in {"Node", "Way", "Relation"} : WriterOf(t) = Head(todo) => t = Type
  BY <1>3, <1>4 DEF Type, WriterOf, WriteQueries
<1>6. rows = {} /\ \A a \in Todo : a = Head(todo) \/ Rank(Head(todo)) < Rank(a)
  BY <1>4, AtFacts DEF ReadInv
<1>7. 23 <= Rank(Head(todo)) /\ Rank("write_nodes") = 23
  BY <1>4, RankValues DEF WriteQueries
<1>8. (\A a \in Todo : 23 <= Rank(a)) /\ (Head(todo) # "write_nodes" => "write_nodes" \notin Todo)
  BY <1>6, <1>7, RankType
<1>9. QED
  BY <1>1, <1>4, <1>5, <1>6, <1>8

\* The current version of an element.
LEMMA CurrentEdition ==
    ASSUME DatabaseInv, NEW e \in Elements, Exists(db, e), NEW ed, ed = <<e, Version(db, e)>>
    PROVE  /\ ed \in Editions /\ Recorded(db, ed) /\ RowOf(db, ed) = Current(db, e)
           /\ ~RowOf(db, ed).redacted
           /\ ~(Recorded(found, ed) /\ RowOf(found, ed).redacted)
           /\ Recorded(found, ed) => ~Renewed(e)
<1>1. db \in Databases /\ found \in Databases
  BY DEF DatabaseInv, Sound, Databases
<1>2. Len(db[e]) \in DOMAIN db[e] /\ Len(db[e]) \in Nat \ {0}
  BY <1>1, RowsOf
<1>3. ed[1] = e /\ ed[2] = Len(db[e])
  BY DEF Version
<1>4. ed \in Editions /\ Recorded(db, ed) /\ RowOf(db, ed) = Current(db, e)
  BY <1>2, <1>3 DEF Editions, Recorded, RowOf, Current, Version
<1>5. ~RowOf(db, ed).redacted
  BY <1>4 DEF DatabaseInv, Sound
<1>6. ~(Recorded(found, ed) /\ RowOf(found, ed).redacted)
  BY <1>3, <1>5 DEF DatabaseInv, Extends, Recorded, RowOf
<1>7. Recorded(found, ed) => ~Renewed(e)
  <2>1. DOMAIN found[e] = 1..Len(found[e]) /\ Len(found[e]) \in Nat
    BY <1>1, RowsOf
  <2>2. QED
    BY <1>2, <1>3, <2>1 DEF Recorded, Renewed
<1>8. QED
  BY <1>4, <1>5, <1>6, <1>7

LEMMA LookupStep == ASSUME ReadInv, lookup PROVE ReadInv'
<1> USE DEF database, request
<1> DEFINE D == OfType(Type, Elements)
           N == {<<e, Version(db, e)>> : e \in sel_of(sel, Type)}
<1>1. /\ UNCHANGED <<db, found, req, todo, rows, out, status, failed>> /\ Writing
      /\ is_mixed(sel, Type) /\ sel' = lookup_versions(db, sel, Type)
  BY DEF lookup
<1>2. \A ed \in N : ed \in Editions /\ Recorded(db, ed) /\ MayShow(ed)
  <2>1. ASSUME NEW e \in sel_of(sel, Type), NEW ed, ed = <<e, Version(db, e)>>
        PROVE  ed \in Editions /\ Recorded(db, ed) /\ MayShow(ed)
    <3>1. e \in Elements /\ Exists(db, e)
      BY <2>1 DEF sel_of, OfType, ReadInv, SelectionInv
    <3>2. QED
      BY <2>1, <3>1, CurrentEdition DEF ReadInv, MayShow
  <2>2. QED
    BY <2>1
<1>3. lookup_versions(db, sel, Type) = [[sel EXCEPT !.elements = @ \ D] EXCEPT !.editions = @ \cup N]
  BY DEF lookup_versions, drop
<1> HIDE DEF D, N
<1>4. sel' = [elements |-> sel.elements \ D, editions |-> sel.editions \cup N,
              redactions |-> sel.redactions, cc |-> sel.cc]
  BY <1>1, <1>3, Same
<1>5. TodoInv' /\ Todo' = Todo
  BY <1>1 DEF ReadInv, TodoInv, Todo
<1>6. /\ sel'.elements = sel.elements \ D /\ sel'.editions = sel.editions \cup N
      /\ sel'.cc = sel.cc /\ sel'.redactions = sel.redactions
  BY <1>4
<1>7. DatabaseInv' /\ RowsInv' /\ AuthorsInv'
  BY <1>1, <1>6, Kept
<1>8. SelectionInv'
  <2>1. (\A ed : MayShow(ed)' <=> MayShow(ed)) /\ (Privileged' <=> Privileged)
    BY <1>1, Kept
  <2>2. QED
    BY <1>1, <1>2, <1>4, <1>6, <2>1 DEF ReadInv, SelectionInv
<1>9. sel.editions # {} /\ sel.elements # {}
  BY <1>1 DEF is_mixed, sel_of, sel_historic_of, OfType
<1>10. req.kind \in EditionCalls /\ req.kind \notin {"history", "download"}
  BY <1>9 DEF ReadInv, DeletedInv, HistoryInv
<1>11. DeletedInv' /\ HistoryInv' /\ NodesInv'
  BY <1>1, <1>10 DEF DeletedInv, HistoryInv, NodesInv, EditionCalls
<1>12. QED
  BY <1>5, <1>7, <1>8, <1>11 DEF ReadInv

\* The fetched rows are the rows of selected elements or editions.
LEMMA ExtractFacts ==
    ASSUME ReadInv, NEW t, NEW R, R = extract(db, sel, t)
    PROVE  /\ \A r \in R : /\ r.edition \in Editions /\ r.edition[1] \in Elements
                           /\ Recorded(db, r.edition) /\ r.edition[1][1] = t
                           /\ r = Extracted(db, r.edition)
                           /\ \/ r.edition \in sel.editions
                              \/ /\ r.edition[1] \in sel.elements
                                 /\ r.edition = <<r.edition[1], Version(db, r.edition[1])>>
           /\ \A e \in sel_of(sel, t) : \E r \in R : r.edition[1] = e
           /\ sel_of(sel, t) = {} => \A ed \in sel_historic_of(sel, t) : \E r \in R : r.edition = ed
<1>1. \A ed : Extracted(db, ed).edition = ed
  BY DEF Extracted
<1>2. /\ \A e \in sel_of(sel, t) : e \in sel.elements /\ e \in Elements /\ Exists(db, e) /\ e[1] = t
      /\ \A ed \in sel_historic_of(sel, t) :
            ed \in sel.editions /\ ed \in Editions /\ Recorded(db, ed) /\ ed[1][1] = t
  BY DEF sel_of, sel_historic_of, OfType, ReadInv, SelectionInv
<1>3. CASE sel_of(sel, t) # {}
  <2>1. R = {Extracted(db, <<e, Version(db, e)>>) : e \in {d \in sel_of(sel, t) : Exists(db, d)}}
    BY <1>3 DEF extract
  <2>2. {d \in sel_of(sel, t) : Exists(db, d)} = sel_of(sel, t)
    BY <1>2
  <2>3. R = {Extracted(db, <<e, Version(db, e)>>) : e \in sel_of(sel, t)}
    BY <2>1, <2>2
  <2>4. ASSUME NEW r \in R
        PROVE  \E e \in sel_of(sel, t) : r = Extracted(db, <<e, Version(db, e)>>)
    BY <2>3, <2>4
  <2>5. ASSUME NEW e \in sel_of(sel, t)
        PROVE  Extracted(db, <<e, Version(db, e)>>) \in R
    BY <2>3
  <2>6. ASSUME NEW r \in R
        PROVE  /\ r.edition \in Editions /\ r.edition[1] \in Elements
               /\ Recorded(db, r.edition) /\ r.edition[1][1] = t
               /\ r = Extracted(db, r.edition)
               /\ r.edition[1] \in sel.elements
               /\ r.edition = <<r.edition[1], Version(db, r.edition[1])>>
    <3>1. PICK e \in sel_of(sel, t) : r = Extracted(db, <<e, Version(db, e)>>)
      BY <2>4
    <3>2. r.edition = <<e, Version(db, e)>> /\ r = Extracted(db, r.edition)
      BY <1>1, <3>1
    <3>3. r.edition[1] = e
      BY <3>2
    <3>4. r.edition \in Editions /\ Recorded(db, r.edition)
      BY <1>2, <3>2, CurrentEdition DEF ReadInv
    <3>5. QED
      BY <1>2, <3>2, <3>3, <3>4
  <2>7. ASSUME NEW e \in sel_of(sel, t) PROVE \E r \in R : r.edition[1] = e
    <3>1. Extracted(db, <<e, Version(db, e)>>).edition[1] = e
      BY <1>1
    <3>2. QED
      BY <2>5, <3>1
  <2>8. QED
    BY <1>3, <2>6, <2>7
<1>4. CASE sel_of(sel, t) = {}
  <2>1. R = {Extracted(db, ed) : ed \in {d \in sel_historic_of(sel, t) : Recorded(db, d)}}
    BY <1>4 DEF extract
  <2>2. {d \in sel_historic_of(sel, t) : Recorded(db, d)} = sel_historic_of(sel, t)
    BY <1>2
  <2>3. R = {Extracted(db, ed) : ed \in sel_historic_of(sel, t)}
    BY <2>1, <2>2
  <2>4. ASSUME NEW r \in R
        PROVE  \E ed \in sel_historic_of(sel, t) : r = Extracted(db, ed)
    BY <2>3, <2>4
  <2>5. ASSUME NEW r \in R
        PROVE  /\ r.edition \in Editions /\ r.edition[1] \in Elements
               /\ Recorded(db, r.edition) /\ r.edition[1][1] = t
               /\ r = Extracted(db, r.edition)
               /\ r.edition \in sel.editions
    <3>1. PICK ed \in sel_historic_of(sel, t) : r = Extracted(db, ed)
      BY <2>4
    <3>2. r.edition = ed
      BY <1>1, <3>1
    <3>3. QED
      BY <1>2, <3>1, <3>2 DEF Editions
  <2>6. ASSUME NEW ed \in sel_historic_of(sel, t) PROVE \E r \in R : r.edition = ed
    BY <1>1, <2>3
  <2>7. QED
    BY <1>4, <2>5, <2>6
<1>5. QED
  BY <1>3, <1>4

LEMMA FetchStep == ASSUME ReadInv, fetch PROVE ReadInv'
<1> USE DEF database, request
<1> DEFINE q == Head(todo)
<1>1. /\ UNCHANGED <<db, found, req, sel, out, status, failed>> /\ Writing
      /\ rows' = extract(db, sel, Type)
  BY DEF fetch
<1>2. /\ status = 0 /\ q \in WriteQueries /\ At(q) /\ rows = {}
      /\ Type \in {"Node", "Way", "Relation"} /\ WriterOf(Type) = q
      /\ \A t \in {"Node", "Way", "Relation"} : WriterOf(t) = q => t = Type
      /\ \A a \in Todo : 23 <= Rank(a)
      /\ q # "write_nodes" => "write_nodes" \notin Todo
  BY <1>1, WritingFacts
<1>3. /\ \A r \in rows' : /\ r.edition \in Editions /\ r.edition[1] \in Elements
                         /\ Recorded(db, r.edition) /\ r.edition[1][1] = Type
                         /\ r = Extracted(db, r.edition)
                         /\ \/ r.edition \in sel.editions
                            \/ /\ r.edition[1] \in sel.elements
                               /\ r.edition = <<r.edition[1], Version(db, r.edition[1])>>
      /\ \A e \in sel_of(sel, Type) : \E r \in rows' : r.edition[1] = e
      /\ sel_of(sel, Type) = {} =>
            \A ed \in sel_historic_of(sel, Type) : \E r \in rows' : r.edition = ed
  BY <1>1, ExtractFacts
<1>4. \A r \in rows' : /\ r.visible = RowOf(db, r.edition).visible
                      /\ r.refs = RowOf(db, r.edition).refs
                      /\ r.redacted = RowOf(db, r.edition).redacted
  BY <1>3 DEF Extracted
<1>5. TodoInv' /\ Todo' \ {"users"} = Todo \ {q} /\ TodoInv
  <2>1. CASE sel_of(sel, Type) = {} /\ sel_historic_of(sel, Type) = {}
    <3>1. todo' = Tail(todo)
      BY <2>1 DEF fetch
    <3>2. rows' = {}
      BY <1>1, <2>1 DEF extract
    <3>3. TodoInv' /\ Todo' = Todo \ {q}
      BY <1>1, <1>2, <3>1, <3>2, TodoTail DEF ReadInv
    <3>4. "users" \notin Todo
      BY <1>2, RankValues
    <3>5. QED
      BY <3>3, <3>4 DEF ReadInv
  <2>2. CASE ~(sel_of(sel, Type) = {} /\ sel_historic_of(sel, Type) = {})
    <3>1. todo' = <<"users">> \o Tail(todo)
      BY <2>2 DEF fetch
    <3>2. TodoInv' /\ Todo' = (Todo \ {q}) \cup {"users"}
      BY <1>1, <1>2, <3>1, TodoUsers DEF ReadInv
    <3>3. "users" \notin Todo
      BY <1>2, RankValues
    <3>4. QED
      BY <3>2, <3>3 DEF ReadInv
  <2>3. QED
    BY <2>1, <2>2
<1> HIDE DEF q
<1>6. DatabaseInv' /\ AuthorsInv' /\ DatabaseInv /\ SelectionInv
  BY <1>1, Kept DEF ReadInv
<1>7. SelectionInv'
  BY <1>1 DEF ReadInv, SelectionInv, MayShow, Privileged
<1>k. /\ \A ed : (MayShow(ed)' <=> MayShow(ed)) /\ SelectorOf(ed)' = SelectorOf(ed)
      /\ \A e : (Presentable(e)' <=> Presentable(e)) /\ (Renewed(e)' <=> Renewed(e))
      /\ \A w : Shown(w)' <=> Shown(w)
  BY <1>1, Kept
<1>8. RowsInv'
  <2>1. ASSUME NEW r \in rows' PROVE r.edition \in Editions /\ (r.redacted => MayShow(r.edition))
    <3>1. CASE r.edition \in sel.editions
      BY <1>3, <1>6, <3>1 DEF SelectionInv
    <3>2. CASE r.edition[1] \in sel.elements /\ r.edition = <<r.edition[1], Version(db, r.edition[1])>>
      <4>1. ~RowOf(db, r.edition).redacted
        BY <1>6, <3>2, CurrentEdition DEF SelectionInv
      <4>2. QED
        BY <1>3, <1>4, <4>1
    <3>3. QED
      BY <1>3, <3>1, <3>2
  <2>2. \A w \in out' : w.edition \in Editions /\ (w.redacted => MayShow(w.edition))
    BY <1>1 DEF ReadInv, RowsInv
  <2>3. QED
    BY <1>k, <2>1, <2>2 DEF RowsInv
<1>9. DeletedInv'
  <2> SUFFICES ASSUME req.kind \notin EditionCalls
               PROVE  DeletedInv'
    BY <1>1 DEF DeletedInv
  <2>1. /\ "check_visibility" \notin Todo /\ "check_visibility" \notin Todo'
        /\ "nodes_from_bbox" \notin Todo'
    <3>1. "check_visibility" \notin Todo /\ "nodes_from_bbox" \notin Todo
      BY <1>2, RankValues
    <3>2. QED
      BY <1>5, <3>1
  <2>2. sel.editions = {} /\ \A e \in sel.elements : Presentable(e)
    BY <1>2, <2>1 DEF ReadInv, DeletedInv
  <2>3. ASSUME NEW r \in rows' PROVE Shown(r)
    <3>1. r.edition[1] \in sel.elements /\ r.edition = <<r.edition[1], Version(db, r.edition[1])>>
      BY <1>3, <2>2
    <3>2. /\ RowOf(db, r.edition) = Current(db, r.edition[1])
          /\ Recorded(found, r.edition) => ~Renewed(r.edition[1])
      BY <1>6, <3>1, CurrentEdition DEF SelectionInv
    <3>3. QED
      BY <1>4, <2>2, <3>1, <3>2 DEF Presentable, Visible, Shown
  <2>4. QED
    BY <1>1, <1>k, <2>1, <2>2, <2>3 DEF ReadInv, DeletedInv
<1>10. HistoryInv'
  <2> SUFFICES ASSUME req.kind \in {"history", "download"}, req.method = "GET", ~failed,
                      NEW ed \in Answer(found, req), OnItsWay(ed), sel.elements = {}
               PROVE  OnItsWay(ed)'
    BY <1>1, <1>2 DEF ReadInv, HistoryInv
  <2>1. SelectorOf(ed) \notin Todo
    BY <1>2, RankValues DEF SelectorOf
  <2>2. CASE RowOf(db, ed).redacted \/ \E w \in out : w.edition = ed
    BY <1>1, <2>2 DEF OnItsWay
  <2>3. CASE ed \in sel.editions /\ WriterOf(ed[1][1]) \in Todo /\ WriterOf(ed[1][1]) # q
    BY <1>1, <1>5, <2>3 DEF OnItsWay
  <2>4. CASE ed \in sel.editions /\ WriterOf(ed[1][1]) = q
    <3>1. ed[1][1] = Type
      BY <1>2, <1>6, <2>4, ElementsAssumption DEF SelectionInv, Editions
    <3>2. sel_of(sel, Type) = {} /\ ed \in sel_historic_of(sel, Type)
      BY <2>4, <3>1 DEF sel_of, sel_historic_of, OfType
    <3>3. \E r \in rows' : r.edition = ed
      BY <1>3, <3>2
    <3>4. QED
      BY <3>3 DEF OnItsWay
  <2>5. QED
    BY <1>2, <2>1, <2>2, <2>3, <2>4 DEF OnItsWay
<1>11. NodesInv'
  <2> SUFFICES ASSUME req.kind \in {"map", "full"}, req.method = "GET", ~failed
               PROVE  NodesInv'
    BY <1>1 DEF NodesInv
  <2>1. sel.editions = {}
    BY DEF ReadInv, DeletedInv, EditionCalls
  <2>2. "nodes_from_way_nodes" \notin Todo
    BY <1>2, RankValues
  <2>3. \A w \in OfType("Way", sel.elements) : Renewed(w) \/ Members(db, w) \subseteq sel.elements
    BY <1>2, <2>2 DEF ReadInv, NodesInv
  <2>4. ASSUME "write_nodes" \notin Todo', NEW n \in OfType("Node", sel.elements)
        PROVE  \E m \in rows' \cup out : m.edition[1] = n
    <3>1. CASE q = "write_nodes"
      <4>1. Type = "Node"
        BY <1>2, <3>1 DEF WriterOf
      <4>2. QED
        BY <1>3, <2>4, <4>1 DEF sel_of
    <3>2. CASE q # "write_nodes"
      <4>1. "write_nodes" \notin Todo
        BY <1>2, <3>2
      <4>2. QED
        BY <1>2, <2>4, <4>1 DEF ReadInv, NodesInv
    <3>3. QED
      BY <3>1, <3>2
  <2>5. ASSUME NEW w \in rows', w.edition[1][1] = "Way", Recorded(found, w.edition)
        PROVE  w.refs \subseteq OfType("Node", sel.elements) /\ "write_nodes" \notin Todo
    <3>1. Type = "Way" /\ q # "write_nodes"
      BY <1>2, <1>3, <2>5 DEF WriterOf
    <3> DEFINE e == w.edition[1]
    <3>2. e \in sel.elements /\ w.edition = <<e, Version(db, e)>> /\ e[1] = "Way"
      BY <1>3, <2>1, <2>5
    <3>3. Exists(db, e) /\ e \in Elements
      BY <1>6, <3>2 DEF SelectionInv
    <3>4. RowOf(db, w.edition) = Current(db, e) /\ ~Renewed(e)
      BY <1>6, <2>5, <3>2, <3>3, CurrentEdition
    <3>5. Members(db, e) \subseteq sel.elements
      BY <2>3, <3>2, <3>4 DEF OfType
    <3>6. Members(db, e) = w.refs
      BY <1>4, <3>3, <3>4 DEF Members
    <3>7. \A m \in Current(db, e).refs : m[1] = "Node"
      BY <1>6, <3>2, <3>3 DEF DatabaseInv, Sound
    <3>8. QED
      BY <1>2, <3>1, <3>3, <3>5, <3>6, <3>7 DEF OfType, Members
  <2>6. ASSUME NEW w \in out, w.edition[1][1] = "Way", Recorded(found, w.edition)
        PROVE  w.refs \subseteq OfType("Node", sel.elements) /\ "write_nodes" \notin Todo
    BY <1>2, <2>6 DEF ReadInv, NodesInv
  <2>7. "write_nodes" \notin Todo => "write_nodes" \notin Todo'
    BY <1>5
  <2>8. QED
    BY <1>1, <1>k, <2>3, <2>4, <2>5, <2>6, <2>7 DEF NodesInv
<1>12. QED
  BY <1>5, <1>6, <1>7, <1>8, <1>9, <1>10, <1>11 DEF ReadInv

\* What is written of the fetched rows.
LEMMA WrittenFacts ==
    ASSUME NEW R, NEW cc, NEW W, W = Written(R, cc)
    PROVE  /\ \A w \in W : \E r \in R :
                 /\ w.edition = r.edition /\ w.visible = r.visible /\ w.refs = r.refs
                 /\ w.changeset = r.changeset /\ w.redacted = r.redacted
                 /\ w.author = cc[w.changeset]
           /\ \A r \in R : \E w \in W : w.edition = r.edition
<1> DEFINE row(r) == [edition |-> r.edition, visible |-> r.visible, refs |-> r.refs,
                      changeset |-> r.changeset, redacted |-> r.redacted, author |-> cc[r.changeset]]
<1>1. W = {row(r) : r \in R}
  BY DEF Written
<1>2. \A r : /\ row(r).edition = r.edition /\ row(r).visible = r.visible /\ row(r).refs = r.refs
             /\ row(r).changeset = r.changeset /\ row(r).redacted = r.redacted
             /\ row(r).author = cc[r.changeset]
  OBVIOUS
<1> HIDE DEF row
<1>3. QED
  BY <1>1, <1>2

LEMMA WriteStep == ASSUME ReadInv, write PROVE ReadInv'
<1> USE DEF database, request
<1> DEFINE ids == {r.changeset : r \in rows}
           cc == [c \in DOMAIN sel.cc \cup ids |->
                     IF c \in DOMAIN sel.cc THEN sel.cc[c] ELSE names[c]]
<1>1. /\ UNCHANGED <<db, found, req, status, failed>> /\ status = 0 /\ At("users")
      /\ rows' = {} /\ todo' = Tail(todo)
  BY DEF write, At
<1>2. fetch_changesets(sel, names, ids) = [sel EXCEPT !.cc = cc]
  BY DEF fetch_changesets
<1>3. /\ DOMAIN cc = DOMAIN sel.cc \cup ids
      /\ \A c \in DOMAIN sel.cc : cc[c] = sel.cc[c]
      /\ \A r \in rows : r.changeset \in DOMAIN cc
  OBVIOUS
<1>4. sel' = fetch_changesets(sel, names, ids) /\ out' = out \cup Written(rows, fetch_changesets(sel, names, ids).cc)
  BY DEF write
<1> HIDE DEF ids, cc
<1>5. [sel EXCEPT !.cc = cc] = [elements |-> sel.elements, editions |-> sel.editions,
                                redactions |-> sel.redactions, cc |-> cc]
  BY Same
<1>6. /\ sel' = [elements |-> sel.elements, editions |-> sel.editions,
                 redactions |-> sel.redactions, cc |-> cc]
      /\ sel'.elements = sel.elements /\ sel'.editions = sel.editions
      /\ sel'.redactions = sel.redactions /\ sel'.cc = cc
      /\ out' = out \cup Written(rows, cc)
  BY <1>2, <1>4, <1>5
<1> DEFINE W == Written(rows, cc)
<1>7. /\ \A w \in W : \E r \in rows :
            /\ w.edition = r.edition /\ w.visible = r.visible /\ w.refs = r.refs
            /\ w.changeset = r.changeset /\ w.redacted = r.redacted
            /\ w.author = cc[w.changeset]
      /\ \A r \in rows : \E w \in W : w.edition = r.edition
  BY WrittenFacts
<1>8. out' = out \cup W
  BY <1>6
<1> HIDE DEF W
<1>9. TodoInv' /\ Todo' = Todo \ {"users"}
  BY <1>1, TodoTail DEF ReadInv
<1>10. DatabaseInv'
  BY <1>1, Kept
<1>k. /\ \A ed : (MayShow(ed)' <=> MayShow(ed)) /\ SelectorOf(ed)' = SelectorOf(ed)
      /\ \A e : (Presentable(e)' <=> Presentable(e)) /\ (Renewed(e)' <=> Renewed(e))
      /\ (\A w : Shown(w)' <=> Shown(w)) /\ (Privileged' <=> Privileged)
  BY <1>1, Kept
<1>11. SelectionInv'
  BY <1>1, <1>6, <1>k DEF ReadInv, SelectionInv
<1>12. RowsInv'
  <2>1. \A r \in rows \cup out : r.edition \in Editions /\ (r.redacted => MayShow(r.edition))
    BY DEF ReadInv, RowsInv
  <2>2. \A w \in W : w.edition \in Editions /\ (w.redacted => MayShow(w.edition))
    BY <1>7, <2>1
  <2>3. QED
    BY <1>1, <1>8, <1>k, <2>1, <2>2 DEF RowsInv
<1>13. AuthorsInv'
  <2>1. \A w \in out : w.changeset \in DOMAIN cc /\ w.author = cc[w.changeset]
    BY <1>3 DEF ReadInv, AuthorsInv
  <2>2. \A w \in W : w.changeset \in DOMAIN cc /\ w.author = cc[w.changeset]
    BY <1>3, <1>7
  <2>3. QED
    BY <1>6, <1>8, <2>1, <2>2 DEF AuthorsInv
<1>14. DeletedInv'
  <2> SUFFICES ASSUME req.kind \notin EditionCalls
               PROVE  DeletedInv'
    BY <1>1 DEF DeletedInv
  <2>1. \A w \in W : Shown(w)
    BY <1>7 DEF ReadInv, DeletedInv, Shown
  <2>2. QED
    BY <1>1, <1>6, <1>8, <1>9, <1>k, <2>1 DEF ReadInv, DeletedInv
<1>15. HistoryInv'
  <2> SUFFICES ASSUME req.kind \in {"history", "download"}, req.method = "GET", ~failed,
                      NEW ed \in Answer(found, req), OnItsWay(ed)
               PROVE  OnItsWay(ed)'
    BY <1>1, <1>6 DEF ReadInv, HistoryInv
  <2>1. SelectorOf(ed) # "users" /\ WriterOf(ed[1][1]) # "users"
    BY DEF SelectorOf, WriterOf
  <2>2. QED
    BY <1>1, <1>6, <1>7, <1>8, <1>9, <1>k, <2>1 DEF OnItsWay
<1>16. NodesInv'
  <2> SUFFICES ASSUME req.kind \in {"map", "full"}, req.method = "GET", ~failed
               PROVE  NodesInv'
    BY <1>1 DEF NodesInv
  <2>1. ASSUME NEW n, \E m \in rows \cup out : m.edition[1] = n
        PROVE  \E m \in rows' \cup out' : m.edition[1] = n
    BY <1>1, <1>7, <1>8, <2>1
  <2>2. ASSUME NEW w \in rows' \cup out', w.edition[1][1] = "Way", Recorded(found, w.edition)
        PROVE  w.refs \subseteq OfType("Node", sel.elements) /\ "write_nodes" \notin Todo
    <3>1. \E r \in rows \cup out : w.edition = r.edition /\ w.refs = r.refs
      BY <1>1, <1>7, <1>8
    <3>2. QED
      BY <1>1, <2>2, <3>1 DEF ReadInv, NodesInv
  <2>3. /\ "nodes_from_way_nodes" \in Todo' <=> "nodes_from_way_nodes" \in Todo
        /\ "write_nodes" \in Todo' <=> "write_nodes" \in Todo
    BY <1>9
  <2>4. \A w \in OfType("Way", sel.elements) :
            "nodes_from_way_nodes" \notin Todo => Renewed(w) \/ Members(db, w) \subseteq sel.elements
    BY <1>1 DEF ReadInv, NodesInv
  <2>5. \A n \in OfType("Node", sel.elements) :
            "write_nodes" \notin Todo => \E m \in rows \cup out : m.edition[1] = n
    BY <1>1 DEF ReadInv, NodesInv
  <2>6. QED
    BY <1>1, <1>6, <1>k, <2>1, <2>2, <2>3, <2>4, <2>5 DEF NodesInv
<1>17. QED
  BY <1>9, <1>10, <1>11, <1>12, <1>13, <1>14, <1>15, <1>16 DEF ReadInv

LEMMA FinishStep == ASSUME ReadInv, finish PROVE ReadInv'
<1> USE DEF database, request
<1>1. /\ UNCHANGED <<db, found, req, todo, sel, rows, out, failed>> /\ status = 0 /\ todo = <<>>
      /\ status' = OK /\ status' # 0
  BY DEF finish, OK
<1>2. TodoInv' /\ Todo' = Todo
  BY <1>1 DEF ReadInv, TodoInv, Todo
<1>3. DatabaseInv' /\ RowsInv' /\ AuthorsInv'
  BY <1>1, Kept
<1>k. /\ \A ed : (MayShow(ed)' <=> MayShow(ed)) /\ SelectorOf(ed)' = SelectorOf(ed)
      /\ (\A w : Shown(w)' <=> Shown(w)) /\ (Privileged' <=> Privileged)
  BY <1>1, Kept
<1>4. SelectionInv'
  BY <1>1, <1>k DEF ReadInv, SelectionInv
<1>5. DeletedInv'
  BY <1>1, <1>k DEF ReadInv, DeletedInv
<1>6. HistoryInv'
  <2>1. \A ed : OnItsWay(ed) => OnItsWay(ed)'
    BY <1>1, <1>2, <1>k DEF OnItsWay
  <2>2. QED
    BY <1>1, <2>1 DEF ReadInv, HistoryInv
<1>7. NodesInv'
  BY <1>1, <1>2 DEF ReadInv, NodesInv
<1>8. QED
  BY <1>2, <1>3, <1>4, <1>5, <1>6, <1>7 DEF ReadInv

LEMMA FailureStep == ASSUME ReadInv, query_fails PROVE ReadInv'
<1> USE DEF database, request
<1>1. /\ UNCHANGED <<db, found, req, sel>> /\ failed' = TRUE /\ todo' = <<>> /\ rows' = {}
      /\ status' # 0 /\ out' \subseteq out
  BY DEF query_fails, OK, server_error
<1>2. TodoInv'
  BY <1>1, TodoEmpty DEF ReadInv
<1>k. /\ \A ed : (MayShow(ed)' <=> MayShow(ed))
      /\ (\A w : Shown(w)' <=> Shown(w)) /\ (Privileged' <=> Privileged) /\ DatabaseInv'
  BY <1>1, Kept
<1>3. SelectionInv' /\ RowsInv' /\ AuthorsInv'
  BY <1>1, <1>k DEF ReadInv, SelectionInv, RowsInv, AuthorsInv
<1>4. DeletedInv'
  BY <1>1, <1>k DEF ReadInv, DeletedInv
<1>5. HistoryInv' /\ NodesInv'
  BY <1>1 DEF ReadInv, HistoryInv, NodesInv
<1>6. QED
  BY <1>2, <1>k, <1>3, <1>4, <1>5 DEF ReadInv

(***************************************************************************)
(* The theorems                                                            *)
(***************************************************************************)
\* A request that has just been accepted.
Fresh ==
    /\ Sound(db)
    /\ req \in Requests
    /\ found = db
    /\ todo = Identify \o responder(req) \o Body(req)
    /\ sel = EmptySelection
    /\ rows = {}
    /\ out = {}
    /\ status = 0
    /\ failed = FALSE

LEMMA FreshState == Fresh => ReadInv
<1> SUFFICES ASSUME Fresh
             PROVE  ReadInv
  OBVIOUS
<1>1. /\ sel.elements = {} /\ sel.editions = {} /\ sel.redactions = FALSE
      /\ sel = [elements |-> sel.elements, editions |-> sel.editions,
                redactions |-> sel.redactions, cc |-> sel.cc]
  BY DEF Fresh, EmptySelection
<1>2. Todo = Plan(req) /\ "users" \notin Todo /\ TodoInv
  <2>1. /\ req \in Requests /\ todo \in Seq(Queries) /\ Ordered(todo) /\ Todo = Plan(req)
        /\ "users" \notin Todo
    BY TodoStart DEF Fresh, Todo
  <2>2. QED
    BY <2>1 DEF TodoInv, Fresh
<1>3. DatabaseInv
  <2>1. db \in Databases
    BY DEF Fresh, Sound, Databases
  <2>2. QED
    BY <2>1, ExtendsSelf DEF Fresh, DatabaseInv, Databases
<1>4. SelectionInv /\ RowsInv /\ AuthorsInv
  BY <1>1 DEF Fresh, SelectionInv, RowsInv, AuthorsInv
<1>5. DeletedInv /\ NodesInv
  BY <1>1 DEF Fresh, DeletedInv, NodesInv, OfType
<1>6. HistoryInv
  <2>1. ASSUME req.kind \in {"history", "download"}, NEW ed PROVE OnItsWay(ed)
    <3>1. Plan(req) = {"authenticate", "get_roles_for_user"}
                          \cup QueriesIn(responder(req)) \cup QueriesIn(Body(req))
      BY PlanFacts DEF Fresh
    <3>2. SelectorOf(ed) \in QueriesIn(responder(req))
      BY <2>1, ResponderFacts DEF SelectorOf, Fresh
    <3>3. QED
      BY <1>2, <3>1, <3>2 DEF OnItsWay
  <2>2. QED
    BY <1>1, <2>1 DEF HistoryInv
<1>7. QED
  BY <1>2, <1>3, <1>4, <1>5, <1>6 DEF ReadInv

LEMMA AcceptFresh == ReadInv /\ accept => Fresh'
BY DEF accept, Begin, database, Fresh, ReadInv, DatabaseInv, Sound, TodoInv

LEMMA OthersStep == ASSUME ReadInv, upload \/ redact \/ rename PROVE ReadInv'
<1>1. Sound(db)
  BY DEF ReadInv, DatabaseInv
<1>2. CASE upload
  <2>1. PICK e \in Elements : \E row \in NewRow(e) : db' = [db EXCEPT ![e] = Append(@, row)]
    BY <1>2 DEF upload
  <2>2. PICK row \in NewRow(e) : db' = [db EXCEPT ![e] = Append(@, row)]
    BY <2>1
  <2>3. QED
    BY <1>1, <1>2, <2>2, UploadFacts, CommitStep DEF upload
<1>3. CASE redact
  <2>1. PICK e \in Elements :
            \E v \in 1..(Len(db[e]) - 1) : db' = [db EXCEPT ![e][v].redacted = TRUE]
    BY <1>3 DEF redact
  <2>2. PICK v \in 1..(Len(db[e]) - 1) : db' = [db EXCEPT ![e][v].redacted = TRUE]
    BY <2>1
  <2>3. QED
    BY <1>1, <1>3, <2>2, RedactFacts, CommitStep DEF redact
<1>4. CASE rename
  <2>1. db' = db
    BY <1>4 DEF rename
  <2>2. Sound(db)' /\ Extends(db', db)
    BY <1>1, <2>1, ExtendsSelf DEF Sound, Databases
  <2>3. QED
    BY <1>4, <2>2, CommitStep DEF rename
<1>5. QED
  BY <1>2, <1>3, <1>4

\* A step of nobody.
LEMMA StutterStep == ASSUME ReadInv, UNCHANGED vars PROVE ReadInv'
<1>1. db' = db /\ UNCHANGED <<request, todo, sel, rows, out, status, failed>>
  BY DEF vars, request
<1>2. Sound(db)' /\ Extends(db', db)
  BY <1>1, ExtendsSelf DEF Sound, Databases, ReadInv, DatabaseInv
<1>3. QED
  BY <1>1, <1>2, CommitStep

\* ReadInv is inductive: whatever query runs next, and whatever is committed
\* between two of them, the queries left, the selection and what is written
\* stay as it describes.
THEOREM ReadInvariant == Spec => []ReadInv
<1>1. Init => Fresh
  BY DatabasesAssumption DEF Init, Fresh
<1>2. Fresh' => ReadInv'
  BY FreshState, PTL
<1>3. ReadInv /\ [Next]_vars => ReadInv'
  <2> SUFFICES ASSUME ReadInv, [Next]_vars
               PROVE  ReadInv'
    OBVIOUS
  <2>1. CASE accept
    BY <1>2, <2>1, AcceptFresh
  <2>2. CASE authenticate \/ get_roles_for_user
    BY <2>2, AuthenticateStep, RolesStep
  <2>3. CASE select \/ check_visibility
    BY <2>3, SelectionStep, VisibilityStep
  <2>4. CASE nodes_from_bbox \/ current_queries \/ drop_elements
    BY <2>4, BBoxStep, QueriesStep, DropStep
  <2>5. CASE historical \/ with_history \/ changeset \/ changeset_queries
    BY <2>5, HistoricalStep, WithHistoryStep, ChangesetStep, ChangesetQueriesStep
  <2>6. CASE lookup \/ fetch \/ write
    BY <2>6, LookupStep, FetchStep, WriteStep
  <2>7. CASE finish \/ query_fails
    BY <2>7, FinishStep, FailureStep
  <2>8. CASE upload \/ redact \/ rename
    BY <2>8, OthersStep
  <2>9. CASE UNCHANGED vars
    BY <2>9, StutterStep
  <2>10. QED
    BY <2>1, <2>2, <2>3, <2>4, <2>5, <2>6, <2>7, <2>8, <2>9 DEF Next
<1>4. QED
  BY <1>1, <1>3, FreshState, PTL DEF Spec

\* An answered request has nothing fetched that is not written.
LEMMA AnsweredFacts == ASSUME ReadInv, status # 0 PROVE Todo = {} /\ rows = {}
<1>1. todo = <<>>
  BY DEF ReadInv, TodoInv
<1>2. Todo = {}
  BY <1>1 DEF Todo, QueriesIn
<1>3. QED
  BY <1>2 DEF ReadInv, TodoInv

\* No read call shows a version that was redacted before the request, unless a
\* moderator asked to see redactions, however many versions are redacted or
\* uploaded while its queries run.
THEOREM RedactedNeverShown == Spec => []RedactedNotShown
<1>1. ReadInv => RedactedNotShown
  BY DEF ReadInv, RowsInv, MayShow, Privileged, RedactedNotShown
<1>2. QED
  BY <1>1, ReadInvariant, PTL

\* An answer never shows two names for the user of one changeset, also if users
\* rename themselves between the queries of write_nodes, write_ways and
\* write_relations.
THEOREM AuthorsAlwaysAgree == Spec => []AuthorsAgree
<1>1. ReadInv => AuthorsAgree
  BY DEF ReadInv, AuthorsInv, AuthorsAgree
<1>2. QED
  BY <1>1, ReadInvariant, PTL

\* Only calls that ask for versions, and the multi fetch, answer with an element
\* that was deleted when the request came.
THEOREM DeletedNeverShown == Spec => []DeletedNotShown
<1>1. ReadInv => DeletedNotShown
  BY DEF ReadInv, DeletedInv, Shown, DeletedNotShown, EditionCalls
<1>2. QED
  BY <1>1, ReadInvariant, PTL

\* A complete history or changeset download has every version that was there
\* when the request came and that is not redacted.
THEOREM NoEditionEverMissed == Spec => []NoEditionMissed
<1>1. ReadInv => NoEditionMissed
  <2> SUFFICES ASSUME ReadInv, Complete, req.kind \in {"history", "download"},
                      NEW ed \in Answer(found, req)
               PROVE  ed \in EditionsOut \/ RowOf(db, ed).redacted
    BY DEF NoEditionMissed
  <2>1. Todo = {} /\ rows = {}
    BY AnsweredFacts DEF Complete, Answered
  <2>2. OnItsWay(ed)
    BY DEF ReadInv, HistoryInv, Complete, Answered
  <2>3. QED
    BY <2>1, <2>2 DEF OnItsWay, EditionsOut
<1>2. QED
  BY <1>1, ReadInvariant, PTL

\* The nodes of every way in a complete answer to a map or full call are in the
\* answer too, unless the way was changed while the request was served.
THEOREM WaysAlwaysHaveTheirNodes == Spec => []WaysHaveTheirNodes
<1>1. ReadInv => WaysHaveTheirNodes
  <2> SUFFICES ASSUME ReadInv, Complete, req.kind \in {"map", "full"}, NEW w \in out,
                      w.edition[1][1] = "Way", Recorded(found, w.edition), NEW n \in w.refs
               PROVE  \E m \in out : m.edition[1] = n
    BY DEF WaysHaveTheirNodes
  <2>1. rows = {}
    BY AnsweredFacts DEF Complete, Answered
  <2>2. /\ "write_nodes" \notin Todo => \A k \in OfType("Node", sel.elements) :
                                           \E m \in rows \cup out : m.edition[1] = k
        /\ w.refs \subseteq OfType("Node", sel.elements) /\ "write_nodes" \notin Todo
    BY DEF ReadInv, NodesInv, Complete, Answered
  <2>3. QED
    BY <2>1, <2>2
<1>2. QED
  BY <1>1, ReadInvariant, PTL

(***************************************************************************)
(* While nothing is committed, the queries compute the answer of the call. *)
(***************************************************************************)
Refused == {"unknown", "expired", "revoked"}

\* What is settled about the status once a query has not thrown.
Cleared(d, r, q) ==
    /\ q = "authenticate" => r.token \notin Refused
    /\ (q = "select" /\ r.kind \in {"element", "full"}) => Exists(d, the(r.ids))
    /\ (q = "check_visibility" /\ r.kind \in {"element", "full"}) => Visible(d, the(r.ids))
    /\ (q = "historical" /\ r.kind \in {"multi", "version"}) =>
           (\A e \in r.ids : Exists(d, e)) /\ r.eds \subseteq ReadableEditions(d, r)
    /\ (q = "with_history" /\ r.kind = "history") => Answer(d, r) # {}
    /\ (q = "nodes_from_bbox" /\ r.kind = "map") => ~(Cardinality(visible_node_in_bbox(d)) > map_max_nodes)
    /\ (q = "changeset" /\ r.kind = "download") => r.changeset \in Changesets

\* The parts of a map call and of a full call, in the order they are selected.
MapWays(d) == ParentsOf(d, "Way", visible_node_in_bbox(d))
MapElements(d) ==
    visible_node_in_bbox(d) \cup MapWays(d) \cup UNION {Members(d, w) : w \in MapWays(d)}
MemberNodes(d, e) == OfType("Node", Members(d, e))
MemberWays(d, e) == OfType("Way", Members(d, e))
NodesOfWays(d, S) == UNION {Members(d, w) : w \in S}

\* The elements that are selected when a query is next.
ElementsBefore(d, r, q) ==
    LET e == the(r.ids) IN
    CASE q \in {"check_visibility", "nodes_from_relations", "parents_only"} -> {e}
      [] q = "ways_from_nodes" -> IF r.kind = "map" THEN visible_node_in_bbox(d) ELSE {e}
      [] q = "ways_from_relations" -> {e} \cup MemberNodes(d, e)
      [] q = "nodes_from_way_nodes" ->
             IF r.kind = "map" THEN visible_node_in_bbox(d) \cup MapWays(d)
             ELSE IF e[1] = "Way" THEN {e}
             ELSE {e} \cup MemberNodes(d, e) \cup MemberWays(d, e)
      [] q = "members_of_relations" ->
             {e} \cup MemberNodes(d, e) \cup MemberWays(d, e) \cup NodesOfWays(d, MemberWays(d, e))
      [] q = "relations_from_ways" -> IF r.kind = "map" THEN MapElements(d) ELSE {e}
      [] q = "relations_from_nodes" ->
             IF r.kind = "map" THEN MapElements(d) \cup ParentsOf(d, "Relation", MapWays(d)) ELSE {e}
      [] q = "relations_from_relations" ->
             MapElements(d) \cup ParentsOf(d, "Relation", MapElements(d))
      [] q = "drop" -> {e} \cup ParentsOf(d, IF r.kind = "ways" THEN "Way" ELSE "Relation", {e})
      [] q = "historical" -> IF r.kind = "multi" THEN {x \in r.ids : Exists(d, x)} ELSE {}
      [] OTHER -> {}

\* The types of the editions of a download that are selected already.
TypesBefore(q) ==
    CASE q = "ways_by_changeset" -> {"Node"}
      [] q = "relations_by_changeset" -> {"Node", "Way"}
      [] OTHER -> {}

Before(d, r, s, q) ==
    /\ s.elements = ElementsBefore(d, r, q)
    /\ s.editions = IF r.kind = "download" THEN {ed \in Answer(d, r) : ed[1][1] \in TypesBefore(q)}
                    ELSE {}
    /\ (q \in {"check_visibility"}) => Exists(d, the(r.ids))
    /\ (r.kind \in {"full", "ways", "relations"} /\ 4 < Rank(q)) => Visible(d, the(r.ids))

\* The editions that a selection stands for.
Chosen(d, s) == Latest(d, s.elements) \cup s.editions

Ahead(q) == q \in Todo /\ Rank(q) <= 21 /\ \A a \in Todo : Rank(q) <= Rank(a)
Done == \A a \in Todo : 22 <= Rank(a)

ConstructorInv ==
    /\ \A q \in Plan(req) \ Todo : Cleared(db, req, q)
    /\ "get_roles_for_user" \notin Todo => (sel.redactions <=> Privileged)
    /\ \A q \in Todo : Ahead(q) => Before(db, req, sel, q)
    /\ ~Done => rows = {} /\ out = {}
    /\ Done => Chosen(db, sel) = Answer(db, req)

EditionsInv ==
    /\ \A w \in rows \cup out : w.edition \in Chosen(db, sel)
    /\ req.method = "GET" =>
          \A ed \in Chosen(db, sel) :
              WriterOf(ed[1][1]) \in Todo \/ \E w \in rows \cup out : w.edition = ed

AnsweredInv ==
    /\ status = StatusOf(db, req)
    /\ (status = OK /\ req.method = "GET") => EditionsOut = Answer(db, req)

CallInv ==
    (db = found /\ ~failed) =>
        /\ status = 0 => ConstructorInv /\ EditionsInv
        /\ status # 0 => AnsweredInv

\* The query p comes next in the plan after q, or no query comes after q.
IsNext(r, q, p) ==
    /\ p \in Plan(r) /\ Rank(q) < Rank(p) /\ Rank(p) <= 21
    /\ \A b \in Plan(r) : Rank(q) < Rank(b) => Rank(p) <= Rank(b)
IsLast(r, q) == \A b \in Plan(r) : Rank(q) < Rank(b) => 22 <= Rank(b)

LEMMA NextAhead ==
    ASSUME TodoInv, NEW q, At(q), Rank(q) <= 21
    PROVE  /\ \A b \in Plan(req) : Rank(q) <= Rank(b) => b \in Todo
           /\ \A b \in Plan(req) : Rank(q) < Rank(b) => b \in Todo \ {q}
           /\ Todo \subseteq Plan(req)
           /\ \A a \in Todo \ {q} : Rank(q) < Rank(a)
           /\ q \in Plan(req)
<1>1. /\ q \in Todo /\ \A a \in Todo : a = q \/ Rank(q) < Rank(a)
      /\ q # "users" => "users" \notin Todo
  BY AtFacts
<1>2. q # "users" /\ Rank(q) \in Nat
  BY RankValues, RankType
<1>3. \A b \in Plan(req) : Rank(q) <= Rank(b) => b \in Todo
  BY <1>1, <1>2 DEF TodoInv
<1>4. Todo \subseteq Plan(req)
  BY <1>1, <1>2 DEF TodoInv
<1>5. \A b \in Plan(req) : Rank(q) < Rank(b) => b \in Todo /\ b # q
  BY <1>2, <1>3, RankType
<1>6. QED
  BY <1>1, <1>3, <1>4, <1>5

\* The next query, and the end of the constructor, as the plan has them.
LEMMA StepAhead ==
    ASSUME TodoInv, NEW q, At(q), Rank(q) <= 21, Todo' = Todo \ {q}, req' = req
    PROVE  /\ \A p : Ahead(p)' => IsNext(req, q, p)
           /\ Done' => IsLast(req, q)
           /\ ~Done /\ Ahead(q)
           /\ \A p \in Plan(req) \ Todo' : p = q \/ p \in Plan(req) \ Todo
<1>1. /\ \A b \in Plan(req) : Rank(q) < Rank(b) => b \in Todo'
      /\ Todo' \subseteq Plan(req)
      /\ \A a \in Todo' : Rank(q) < Rank(a)
      /\ q \in Todo
  BY NextAhead, AtFacts
<1>2. \A p : Ahead(p)' => IsNext(req, q, p)
  BY <1>1 DEF Ahead, IsNext
<1>3. Done' => IsLast(req, q)
  BY <1>1 DEF Done, IsLast
<1>4. ~Done
  BY <1>1, RankType DEF Done
<1>5. Ahead(q)
  <2>1. \A a \in Todo : a = q \/ Rank(q) < Rank(a)
    BY AtFacts
  <2>2. QED
    BY <1>1, <2>1, RankType DEF Ahead
<1>6. QED
  BY <1>2, <1>3, <1>4, <1>5

\* The writers of all types are still to run while the constructor is.
LEMMA WritersAhead ==
    ASSUME TodoInv, NEW q, At(q), Rank(q) <= 21, req.method = "GET", NEW t
    PROVE  WriterOf(t) \in Todo \ {q}
<1>1. q \in Todo /\ q # "users" /\ Rank(q) <= 22
  BY AtFacts, RankValues, RankType
<1>2. WriteQueries \subseteq Todo
  BY <1>1, Pending
<1>3. WriterOf(t) \in WriteQueries
  BY DEF WriterOf, WriteQueries
<1>4. WriterOf(t) # q
  BY RankValues DEF WriterOf
<1>5. QED
  BY <1>2, <1>3, <1>4

Quiet == CallInv /\ db = found /\ ~failed /\ status = 0

\* A query of the constructor that does not throw.
LEMMA QueryStep ==
    ASSUME ReadInv, Quiet, NEW q, At(q), Rank(q) <= 21, NEW s, Selected(s),
           Cleared(db, req, q),
           "get_roles_for_user" \notin Todo \ {q} => (s.redactions <=> Privileged),
           \A p : IsNext(req, q, p) => Before(db, req, s, p),
           IsLast(req, q) => Chosen(db, s) = Answer(db, req)
    PROVE  CallInv'
<1>1. /\ UNCHANGED <<db, found, req, rows, out, status, failed>> /\ sel' = s /\ status = 0
      /\ todo' = Tail(todo) /\ q # "users"
  BY RankValues DEF Selected, database, request, At
<1>2. TodoInv /\ Todo' = Todo \ {q}
  BY <1>1, TodoTail DEF ReadInv
<1>3. /\ \A p : Ahead(p)' => IsNext(req, q, p)
      /\ Done' => IsLast(req, q)
      /\ ~Done
      /\ \A p \in Plan(req) \ Todo' : p = q \/ p \in Plan(req) \ Todo
  BY <1>1, <1>2, StepAhead
<1>4. ConstructorInv /\ EditionsInv
  BY <1>1 DEF Quiet, CallInv
<1>5. rows = {} /\ out = {}
  BY <1>3, <1>4 DEF ConstructorInv
<1>6. Plan(req)' = Plan(req) /\ (Privileged' <=> Privileged)
  BY <1>1 DEF Privileged
<1>7. (\A p \in Plan(req) \ Todo : Cleared(db, req, p))'
  <2>1. \A p \in Plan(req) \ Todo' : Cleared(db, req, p)
    BY <1>3, <1>4 DEF ConstructorInv
  <2>2. QED
    BY <1>1, <1>6, <2>1
<1>8. ("get_roles_for_user" \notin Todo => (sel.redactions <=> Privileged))'
  BY <1>1, <1>2, <1>6
<1>9. (\A p \in Todo : Ahead(p) => Before(db, req, sel, p))'
  BY <1>1, <1>3
<1>10. (Done => Chosen(db, sel) = Answer(db, req))'
  BY <1>1, <1>3
<1>11. ConstructorInv'
  BY <1>1, <1>5, <1>7, <1>8, <1>9, <1>10 DEF ConstructorInv
<1>12. EditionsInv'
  <2>1. rows' \cup out' = {}
    BY <1>1, <1>5
  <2>2. req.method = "GET" => \A t : WriterOf(t) \in Todo'
    BY <1>2, WritersAhead
  <2>3. QED
    BY <1>1, <2>1, <2>2 DEF EditionsInv
<1>13. QED
  BY <1>1, <1>11, <1>12 DEF CallInv, Quiet

\* A query that throws.
LEMMA RefusalStep ==
    ASSUME Quiet, NEW code, Throw(code), code # 0, code # OK, code = StatusOf(db, req)
    PROVE  CallInv'
<1>1. UNCHANGED <<db, found, req, failed>> /\ status' = code
  BY DEF Throw, database, request
<1>2. AnsweredInv'
  BY <1>1 DEF AnsweredInv
<1>3. QED
  BY <1>1, <1>2 DEF CallInv

\* A query after which the rest of the constructor is left out.
LEMMA SkipStep ==
    ASSUME ReadInv, Quiet, NEW q, At(q), 2 < Rank(q), Rank(q) <= 21, NEW s, SkipToBody(s),
           \A p \in Plan(req) : 3 <= Rank(p) => Cleared(db, req, p),
           s.redactions <=> sel.redactions,
           Chosen(db, s) = Answer(db, req)
    PROVE  CallInv'
<1>1. /\ UNCHANGED <<db, found, req, rows, out, status, failed>> /\ sel' = s /\ status = 0
      /\ todo' = Body(req) /\ q # "users"
  BY RankValues DEF SkipToBody, database, request, At
<1>2. TodoInv /\ Todo' = QueriesIn(Body(req)) /\ req \in Requests
  BY <1>1, TodoBody DEF ReadInv, TodoInv
<1>3. \A a \in Todo' : 23 <= Rank(a)
  BY <1>2, BodyFacts DEF InOrder
<1>4. Done' /\ \A p : ~Ahead(p)'
  BY <1>3, RankType DEF Done, Ahead
<1>5. ~Done
  BY AtFacts, <1>2, RankType DEF Done
<1>6. ConstructorInv /\ EditionsInv
  BY <1>1 DEF Quiet, CallInv
<1>7. rows = {} /\ out = {}
  BY <1>5, <1>6 DEF ConstructorInv
<1>8. "authenticate" \notin Todo /\ "get_roles_for_user" \notin Todo
  BY <1>2, AtFacts, RankValues, RankType
<1>9. Plan(req)' = Plan(req) /\ (Privileged' <=> Privileged)
  BY <1>1 DEF Privileged
<1>10. (\A p \in Plan(req) \ Todo : Cleared(db, req, p))'
  <2>1. ASSUME NEW p \in Plan(req) PROVE Cleared(db, req, p)
    <3>1. p \in {"authenticate", "get_roles_for_user"} \/ 3 <= Rank(p)
      BY <1>2, PlanRanks
    <3>2. QED
      BY <1>6, <1>8, <3>1 DEF ConstructorInv
  <2>2. QED
    BY <1>1, <1>9, <2>1
<1>11. ConstructorInv'
  BY <1>1, <1>4, <1>6, <1>8, <1>9, <1>10 DEF ConstructorInv
<1>12. EditionsInv'
  <2>1. rows' \cup out' = {}
    BY <1>1, <1>7
  <2>2. req.method = "GET" => \A t : WriterOf(t) \in Todo'
    BY <1>2, BodyFacts DEF WriterOf, WriteQueries
  <2>3. QED
    BY <1>1, <2>1, <2>2 DEF EditionsInv
<1>13. QED
  BY <1>1, <1>11, <1>12 DEF CallInv, Quiet

(***************************************************************************)
(* The order of the queries, responder by responder.                       *)
(***************************************************************************)
LEMMA ResponderOfType ==
    ASSUME NEW r \in Requests
    PROVE  /\ (r.kind = "full" /\ the(r.ids)[1] = "Way") => responder(r) = way_full_responder
           /\ (r.kind = "full" /\ the(r.ids)[1] = "Relation") => responder(r) = relation_full_responder
           /\ (r.kind = "relations" /\ the(r.ids)[1] = "Node") => responder(r) = node_relations_responder
           /\ (r.kind = "relations" /\ the(r.ids)[1] = "Way") => responder(r) = way_relations_responder
           /\ (r.kind = "relations" /\ the(r.ids)[1] = "Relation") =>
                 responder(r) = relation_relations_responder
<1>1. r.kind \in {"full", "relations"} => TypeOf(r) = the(r.ids)[1]
  BY TypeOfOne
<1>2. QED
  BY <1>1 DEF responder

\* The queries of a plan that are not of the body.
LEMMA PlanConstructor ==
    ASSUME NEW r \in Requests
    PROVE  /\ \A p \in Plan(r) : \/ p \in {"authenticate", "get_roles_for_user"} \cup QueriesIn(responder(r))
                                 \/ 23 <= Rank(p)
           /\ {"authenticate", "get_roles_for_user"} \cup QueriesIn(responder(r)) \subseteq Plan(r)
<1>1. Plan(r) = {"authenticate", "get_roles_for_user"}
                    \cup QueriesIn(responder(r)) \cup QueriesIn(Body(r))
  BY PlanFacts
<1>2. \A p \in QueriesIn(Body(r)) : 23 <= Rank(p)
  BY BodyFacts DEF InOrder
<1>3. QED
  BY <1>1, <1>2

LEMMA ElementPlan ==
    ASSUME NEW r \in Requests, r.kind = "element"
    PROVE  /\ responder(r) = element_responder
           /\ \A p :
                 /\ IsNext(r, "authenticate", p) => p = "get_roles_for_user"
                 /\ IsNext(r, "get_roles_for_user", p) => p = "select"
                 /\ IsNext(r, "select", p) => p = "check_visibility"
                 /\ ~IsNext(r, "check_visibility", p)
           /\ \A q \in {"authenticate", "get_roles_for_user", "select"} :
                 ~IsLast(r, q)
           /\ \A p \in Plan(r) : 3 <= Rank(p) => p \in QueriesIn(responder(r)) \/ 23 <= Rank(p)
<1>1. responder(r) = element_responder
  BY ResponderOfKind, ResponderOfType
<1>2. QueriesIn(responder(r)) = {"select", "check_visibility"}
  BY <1>1, ElementOrder
<1>3. /\ \A p \in Plan(r) : \/ p \in {"authenticate", "get_roles_for_user"} \cup QueriesIn(responder(r))
                             \/ 23 <= Rank(p)
      /\ {"authenticate", "get_roles_for_user"} \cup QueriesIn(responder(r)) \subseteq Plan(r)
  BY PlanConstructor
<1>4. QED
  BY <1>1, <1>2, <1>3, RankValues, RankType DEF IsNext, IsLast

LEMMA WayFullPlan ==
    ASSUME NEW r \in Requests, r.kind = "full", the(r.ids)[1] = "Way"
    PROVE  /\ responder(r) = way_full_responder
           /\ \A p :
                 /\ IsNext(r, "authenticate", p) => p = "get_roles_for_user"
                 /\ IsNext(r, "get_roles_for_user", p) => p = "select"
                 /\ IsNext(r, "select", p) => p = "check_visibility"
                 /\ IsNext(r, "check_visibility", p) => p = "nodes_from_way_nodes"
                 /\ ~IsNext(r, "nodes_from_way_nodes", p)
           /\ \A q \in {"authenticate", "get_roles_for_user", "select", "check_visibility"} :
                 ~IsLast(r, q)
           /\ \A p \in Plan(r) : 3 <= Rank(p) => p \in QueriesIn(responder(r)) \/ 23 <= Rank(p)
<1>1. responder(r) = way_full_responder
  BY ResponderOfKind, ResponderOfType
<1>2. QueriesIn(responder(r)) = {"select", "check_visibility", "nodes_from_way_nodes"}
  BY <1>1, WayFullOrder
<1>3. /\ \A p \in Plan(r) : \/ p \in {"authenticate", "get_roles_for_user"} \cup QueriesIn(responder(r))
                             \/ 23 <= Rank(p)
      /\ {"authenticate", "get_roles_for_user"} \cup QueriesIn(responder(r)) \subseteq Plan(r)
  BY PlanConstructor
<1>4. QED
  BY <1>1, <1>2, <1>3, RankValues, RankType DEF IsNext, IsLast

LEMMA RelationFullPlan ==
    ASSUME NEW r \in Requests, r.kind = "full", the(r.ids)[1] = "Relation"
    PROVE  /\ responder(r) = relation_full_responder
           /\ \A p :
                 /\ IsNext(r, "authenticate", p) => p = "get_roles_for_user"
                 /\ IsNext(r, "get_roles_for_user", p) => p = "select"
                 /\ IsNext(r, "select", p) => p = "check_visibility"
                 /\ IsNext(r, "check_visibility", p) => p = "nodes_from_relations"
                 /\ IsNext(r, "nodes_from_relations", p) => p = "ways_from_relations"
                 /\ IsNext(r, "ways_from_relations", p) => p = "nodes_from_way_nodes"
                 /\ IsNext(r, "nodes_from_way_nodes", p) => p = "members_of_relations"
                 /\ ~IsNext(r, "members_of_relations", p)
           /\ \A q \in {"authenticate", "get_roles_for_user", "select", "check_visibility", "nodes_from_relations",
                       "ways_from_relations", "nodes_from_way_nodes"} :
                 ~IsLast(r, q)
           /\ \A p \in Plan(r) : 3 <= Rank(p) => p \in QueriesIn(responder(r)) \/ 23 <= Rank(p)
<1>1. responder(r) = relation_full_responder
  BY ResponderOfKind, ResponderOfType
<1>2. QueriesIn(responder(r)) = {"select", "check_visibility", "nodes_from_relations", "ways_from_relations", "nodes_from_way_nodes", "members_of_relations"}
  BY <1>1, RelationFullOrder
<1>3. /\ \A p \in Plan(r) : \/ p \in {"authenticate", "get_roles_for_user"} \cup QueriesIn(responder(r))
                             \/ 23 <= Rank(p)
      /\ {"authenticate", "get_roles_for_user"} \cup QueriesIn(responder(r)) \subseteq Plan(r)
  BY PlanConstructor
<1>4. QED
  BY <1>1, <1>2, <1>3, RankValues, RankType DEF IsNext, IsLast

LEMMA NodeWaysPlan ==
    ASSUME NEW r \in Requests, r.kind = "ways"
    PROVE  /\ responder(r) = node_ways_responder
           /\ \A p :
                 /\ IsNext(r, "authenticate", p) => p = "get_roles_for_user"
                 /\ IsNext(r, "get_roles_for_user", p) => p = "select"
                 /\ IsNext(r, "select", p) => p = "check_visibility"
                 /\ IsNext(r, "check_visibility", p) => p = "ways_from_nodes"
                 /\ IsNext(r, "ways_from_nodes", p) => p = "drop"
                 /\ ~IsNext(r, "drop", p)
           /\ \A q \in {"authenticate", "get_roles_for_user", "select", "check_visibility", "ways_from_nodes"} :
                 ~IsLast(r, q)
           /\ \A p \in Plan(r) : 3 <= Rank(p) => p \in QueriesIn(responder(r)) \/ 23 <= Rank(p)
<1>1. responder(r) = node_ways_responder
  BY ResponderOfKind, ResponderOfType
<1>2. QueriesIn(responder(r)) = {"select", "check_visibility", "ways_from_nodes", "drop"}
  BY <1>1, NodeWaysOrder
<1>3. /\ \A p \in Plan(r) : \/ p \in {"authenticate", "get_roles_for_user"} \cup QueriesIn(responder(r))
                             \/ 23 <= Rank(p)
      /\ {"authenticate", "get_roles_for_user"} \cup QueriesIn(responder(r)) \subseteq Plan(r)
  BY PlanConstructor
<1>4. QED
  BY <1>1, <1>2, <1>3, RankValues, RankType DEF IsNext, IsLast

LEMMA NodeRelationsPlan ==
    ASSUME NEW r \in Requests, r.kind = "relations", the(r.ids)[1] = "Node"
    PROVE  /\ responder(r) = node_relations_responder
           /\ \A p :
                 /\ IsNext(r, "authenticate", p) => p = "get_roles_for_user"
                 /\ IsNext(r, "get_roles_for_user", p) => p = "select"
                 /\ IsNext(r, "select", p) => p = "check_visibility"
                 /\ IsNext(r, "check_visibility", p) => p = "relations_from_nodes"
                 /\ IsNext(r, "relations_from_nodes", p) => p = "drop"
                 /\ ~IsNext(r, "drop", p)
           /\ \A q \in {"authenticate", "get_roles_for_user", "select", "check_visibility", "relations_from_nodes"} :
                 ~IsLast(r, q)
           /\ \A p \in Plan(r) : 3 <= Rank(p) => p \in QueriesIn(responder(r)) \/ 23 <= Rank(p)
<1>1. responder(r) = node_relations_responder
  BY ResponderOfKind, ResponderOfType
<1>2. QueriesIn(responder(r)) = {"select", "check_visibility", "relations_from_nodes", "drop"}
  BY <1>1, NodeRelationsOrder
<1>3. /\ \A p \in Plan(r) : \/ p \in {"authenticate", "get_roles_for_user"} \cup QueriesIn(responder(r))
                             \/ 23 <= Rank(p)
      /\ {"authenticate", "get_roles_for_user"} \cup QueriesIn(responder(r)) \subseteq Plan(r)
  BY PlanConstructor
<1>4. QED
  BY <1>1, <1>2, <1>3, RankValues, RankType DEF IsNext, IsLast

LEMMA WayRelationsPlan ==
    ASSUME NEW r \in Requests, r.kind = "relations", the(r.ids)[1] = "Way"
    PROVE  /\ responder(r) = way_relations_responder
           /\ \A p :
                 /\ IsNext(r, "authenticate", p) => p = "get_roles_for_user"
                 /\ IsNext(r, "get_roles_for_user", p) => p = "select"
                 /\ IsNext(r, "select", p) => p = "check_visibility"
                 /\ IsNext(r, "check_visibility", p) => p = "relations_from_ways"
                 /\ IsNext(r, "relations_from_ways", p) => p = "drop"
                 /\ ~IsNext(r, "drop", p)
           /\ \A q \in {"authenticate", "get_roles_for_user", "select", "check_visibility", "relations_from_ways"} :
                 ~IsLast(r, q)
           /\ \A p \in Plan(r) : 3 <= Rank(p) => p \in QueriesIn(responder(r)) \/ 23 <= Rank(p)
<1>1. responder(r) = way_relations_responder
  BY ResponderOfKind, ResponderOfType
<1>2. QueriesIn(responder(r)) = {"select", "check_visibility", "relations_from_ways", "drop"}
  BY <1>1, WayRelationsOrder
<1>3. /\ \A p \in Plan(r) : \/ p \in {"authenticate", "get_roles_for_user"} \cup QueriesIn(responder(r))
                             \/ 23 <= Rank(p)
      /\ {"authenticate", "get_roles_for_user"} \cup QueriesIn(responder(r)) \subseteq Plan(r)
  BY PlanConstructor
<1>4. QED
  BY <1>1, <1>2, <1>3, RankValues, RankType DEF IsNext, IsLast

LEMMA RelationRelationsPlan ==
    ASSUME NEW r \in Requests, r.kind = "relations", the(r.ids)[1] = "Relation"
    PROVE  /\ responder(r) = relation_relations_responder
           /\ \A p :
                 /\ IsNext(r, "authenticate", p) => p = "get_roles_for_user"
                 /\ IsNext(r, "get_roles_for_user", p) => p = "select"
                 /\ IsNext(r, "select", p) => p = "check_visibility"
                 /\ IsNext(r, "check_visibility", p) => p = "parents_only"
                 /\ ~IsNext(r, "parents_only", p)
           /\ \A q \in {"authenticate", "get_roles_for_user", "select", "check_visibility"} :
                 ~IsLast(r, q)
           /\ \A p \in Plan(r) : 3 <= Rank(p) => p \in QueriesIn(responder(r)) \/ 23 <= Rank(p)
<1>1. responder(r) = relation_relations_responder
  BY ResponderOfKind, ResponderOfType
<1>2. QueriesIn(responder(r)) = {"select", "check_visibility", "parents_only"}
  BY <1>1, RelationRelationsOrder
<1>3. /\ \A p \in Plan(r) : \/ p \in {"authenticate", "get_roles_for_user"} \cup QueriesIn(responder(r))
                             \/ 23 <= Rank(p)
      /\ {"authenticate", "get_roles_for_user"} \cup QueriesIn(responder(r)) \subseteq Plan(r)
  BY PlanConstructor
<1>4. QED
  BY <1>1, <1>2, <1>3, RankValues, RankType DEF IsNext, IsLast

LEMMA ListPlan ==
    ASSUME NEW r \in Requests, r.kind = "multi"
    PROVE  /\ responder(r) = list_responder
           /\ \A p :
                 /\ IsNext(r, "authenticate", p) => p = "get_roles_for_user"
                 /\ IsNext(r, "get_roles_for_user", p) => p = "select"
                 /\ IsNext(r, "select", p) => p = "historical"
                 /\ ~IsNext(r, "historical", p)
           /\ \A q \in {"authenticate", "get_roles_for_user", "select"} :
                 ~IsLast(r, q)
           /\ \A p \in Plan(r) : 3 <= Rank(p) => p \in QueriesIn(responder(r)) \/ 23 <= Rank(p)
<1>1. responder(r) = list_responder
  BY ResponderOfKind, ResponderOfType
<1>2. QueriesIn(responder(r)) = {"select", "historical"}
  BY <1>1, ListOrder
<1>3. /\ \A p \in Plan(r) : \/ p \in {"authenticate", "get_roles_for_user"} \cup QueriesIn(responder(r))
                             \/ 23 <= Rank(p)
      /\ {"authenticate", "get_roles_for_user"} \cup QueriesIn(responder(r)) \subseteq Plan(r)
  BY PlanConstructor
<1>4. QED
  BY <1>1, <1>2, <1>3, RankValues, RankType DEF IsNext, IsLast

LEMMA VersionPlan ==
    ASSUME NEW r \in Requests, r.kind = "version"
    PROVE  /\ responder(r) = version_responder
           /\ \A p :
                 /\ IsNext(r, "authenticate", p) => p = "get_roles_for_user"
                 /\ IsNext(r, "get_roles_for_user", p) => p = "historical"
                 /\ ~IsNext(r, "historical", p)
           /\ \A q \in {"authenticate", "get_roles_for_user"} :
                 ~IsLast(r, q)
           /\ \A p \in Plan(r) : 3 <= Rank(p) => p \in QueriesIn(responder(r)) \/ 23 <= Rank(p)
<1>1. responder(r) = version_responder
  BY ResponderOfKind, ResponderOfType
<1>2. QueriesIn(responder(r)) = {"historical"}
  BY <1>1, VersionOrder
<1>3. /\ \A p \in Plan(r) : \/ p \in {"authenticate", "get_roles_for_user"} \cup QueriesIn(responder(r))
                             \/ 23 <= Rank(p)
      /\ {"authenticate", "get_roles_for_user"} \cup QueriesIn(responder(r)) \subseteq Plan(r)
  BY PlanConstructor
<1>4. QED
  BY <1>1, <1>2, <1>3, RankValues, RankType DEF IsNext, IsLast

LEMMA HistoryPlan ==
    ASSUME NEW r \in Requests, r.kind = "history"
    PROVE  /\ responder(r) = history_responder
           /\ \A p :
                 /\ IsNext(r, "authenticate", p) => p = "get_roles_for_user"
                 /\ IsNext(r, "get_roles_for_user", p) => p = "with_history"
                 /\ ~IsNext(r, "with_history", p)
           /\ \A q \in {"authenticate", "get_roles_for_user"} :
                 ~IsLast(r, q)
           /\ \A p \in Plan(r) : 3 <= Rank(p) => p \in QueriesIn(responder(r)) \/ 23 <= Rank(p)
<1>1. responder(r) = history_responder
  BY ResponderOfKind, ResponderOfType
<1>2. QueriesIn(responder(r)) = {"with_history"}
  BY <1>1, HistoryOrder
<1>3. /\ \A p \in Plan(r) : \/ p \in {"authenticate", "get_roles_for_user"} \cup QueriesIn(responder(r))
                             \/ 23 <= Rank(p)
      /\ {"authenticate", "get_roles_for_user"} \cup QueriesIn(responder(r)) \subseteq Plan(r)
  BY PlanConstructor
<1>4. QED
  BY <1>1, <1>2, <1>3, RankValues, RankType DEF IsNext, IsLast

LEMMA MapPlan ==
    ASSUME NEW r \in Requests, r.kind = "map"
    PROVE  /\ responder(r) = map_responder
           /\ \A p :
                 /\ IsNext(r, "authenticate", p) => p = "get_roles_for_user"
                 /\ IsNext(r, "get_roles_for_user", p) => p = "nodes_from_bbox"
                 /\ IsNext(r, "nodes_from_bbox", p) => p = "ways_from_nodes"
                 /\ IsNext(r, "ways_from_nodes", p) => p = "nodes_from_way_nodes"
                 /\ IsNext(r, "nodes_from_way_nodes", p) => p = "relations_from_ways"
                 /\ IsNext(r, "relations_from_ways", p) => p = "relations_from_nodes"
                 /\ IsNext(r, "relations_from_nodes", p) => p = "relations_from_relations"
                 /\ ~IsNext(r, "relations_from_relations", p)
           /\ \A q \in {"authenticate", "get_roles_for_user", "nodes_from_bbox",
                       "ways_from_nodes", "nodes_from_way_nodes", "relations_from_ways", "relations_from_nodes"} :
                 ~IsLast(r, q)
           /\ \A p \in Plan(r) : 3 <= Rank(p) => p \in QueriesIn(responder(r)) \/ 23 <= Rank(p)
<1>1. responder(r) = map_responder
  BY ResponderOfKind, ResponderOfType
<1>2. QueriesIn(responder(r)) = {"nodes_from_bbox", "ways_from_nodes", "nodes_from_way_nodes", "relations_from_ways", "relations_from_nodes", "relations_from_relations"}
  BY <1>1, MapOrder
<1>3. /\ \A p \in Plan(r) : \/ p \in {"authenticate", "get_roles_for_user"} \cup QueriesIn(responder(r))
                             \/ 23 <= Rank(p)
      /\ {"authenticate", "get_roles_for_user"} \cup QueriesIn(responder(r)) \subseteq Plan(r)
  BY PlanConstructor
<1>4. QED
  BY <1>1, <1>2, <1>3, RankValues, RankType DEF IsNext, IsLast

LEMMA DownloadPlan ==
    ASSUME NEW r \in Requests, r.kind = "download"
    PROVE  /\ responder(r) = changeset_download_responder
           /\ \A p :
                 /\ IsNext(r, "authenticate", p) => p = "get_roles_for_user"
                 /\ IsNext(r, "get_roles_for_user", p) => p = "changeset"
                 /\ IsNext(r, "changeset", p) => p = "nodes_by_changeset"
                 /\ IsNext(r, "nodes_by_changeset", p) => p = "ways_by_changeset"
                 /\ IsNext(r, "ways_by_changeset", p) => p = "relations_by_changeset"
                 /\ ~IsNext(r, "relations_by_changeset", p)
           /\ \A q \in {"authenticate", "get_roles_for_user", "changeset", "nodes_by_changeset", "ways_by_changeset"} :
                 ~IsLast(r, q)
           /\ \A p \in Plan(r) : 3 <= Rank(p) => p \in QueriesIn(responder(r)) \/ 23 <= Rank(p)
<1>1. responder(r) = changeset_download_responder
  BY ResponderOfKind, ResponderOfType
<1>2. QueriesIn(responder(r)) = {"changeset", "nodes_by_changeset", "ways_by_changeset", "relations_by_changeset"}
  BY <1>1, ChangesetDownloadOrder
<1>3. /\ \A p \in Plan(r) : \/ p \in {"authenticate", "get_roles_for_user"} \cup QueriesIn(responder(r))
                             \/ 23 <= Rank(p)
      /\ {"authenticate", "get_roles_for_user"} \cup QueriesIn(responder(r)) \subseteq Plan(r)
  BY PlanConstructor
<1>4. QED
  BY <1>1, <1>2, <1>3, RankValues, RankType DEF IsNext, IsLast

(***************************************************************************)
(* Writing what was chosen.                                                *)
(***************************************************************************)
LEMMA LatestFacts ==
    ASSUME NEW d, NEW S
    PROVE  \A ed : ed \in Latest(d, S) <=> \E e \in S : ed = <<e, Version(d, e)>>
BY DEF Latest

LEMMA LatestSplit ==
    ASSUME NEW d, NEW S, NEW T
    PROVE  Latest(d, S \cup T) = Latest(d, S) \cup Latest(d, T)
BY DEF Latest

LEMMA WritingQuiet ==
    ASSUME Quiet, ReadInv, \A a \in Todo : 22 <= Rank(a)
    PROVE  ConstructorInv /\ EditionsInv /\ Done /\ \A p : ~Ahead(p)
<1>1. ConstructorInv /\ EditionsInv
  BY DEF Quiet, CallInv
<1>2. QED
  BY <1>1, RankType DEF Done, Ahead

\* A step of the body keeps what is chosen and what is settled.
LEMMA BodyKeeps ==
    ASSUME Quiet, ReadInv, \A a \in Todo : 22 <= Rank(a), UNCHANGED <<db, found, req, status, failed>>,
           \A a \in Todo' : 22 <= Rank(a), Todo \ Todo' \subseteq WriteQueries \cup {"users"},
           sel'.redactions = sel.redactions, Chosen(db, sel)' = Chosen(db, sel),
           EditionsInv'
    PROVE  CallInv'
<1>1. ConstructorInv /\ Done
  BY WritingQuiet
<1>2. Done' /\ \A p : ~Ahead(p)'
  BY RankType DEF Done, Ahead
<1>3. Plan(req)' = Plan(req) /\ (Privileged' <=> Privileged)
  BY DEF Privileged
<1>4. "get_roles_for_user" \notin Todo
  BY RankValues
<1>5. (\A p \in Plan(req) \ Todo : Cleared(db, req, p))'
  <2>1. ASSUME NEW p \in Plan(req), p \notin Todo' PROVE Cleared(db, req, p)
    <3>1. CASE p \notin Todo
      BY <1>1, <3>1 DEF ConstructorInv
    <3>2. CASE p \in WriteQueries \cup {"users"}
      BY <3>2 DEF Cleared, WriteQueries
    <3>3. QED
      BY <2>1, <3>1, <3>2
  <2>2. QED
    BY <1>3, <2>1
<1>6. ConstructorInv'
  BY <1>1, <1>2, <1>3, <1>4, <1>5 DEF ConstructorInv
<1>7. QED
  BY <1>6 DEF CallInv, Quiet

LEMMA LookupCall == ASSUME ReadInv, Quiet, lookup PROVE CallInv'
<1> USE DEF database, request
<1> DEFINE D == OfType(Type, Elements)
           N == {<<e, Version(db, e)>> : e \in sel_of(sel, Type)}
<1>1. /\ UNCHANGED <<db, found, req, todo, rows, out, status, failed>> /\ Writing
      /\ sel' = lookup_versions(db, sel, Type)
  BY DEF lookup
<1>2. lookup_versions(db, sel, Type) = [[sel EXCEPT !.elements = @ \ D] EXCEPT !.editions = @ \cup N]
  BY DEF lookup_versions, drop
<1>3. N = Latest(db, sel_of(sel, Type))
  BY DEF Latest
<1>4. sel.elements = (sel.elements \ D) \cup sel_of(sel, Type)
  BY DEF sel_of, OfType, ReadInv, SelectionInv
<1> HIDE DEF D, N
<1>5. sel' = [elements |-> sel.elements \ D, editions |-> sel.editions \cup N,
              redactions |-> sel.redactions, cc |-> sel.cc]
  BY <1>1, <1>2, Same
<1>6. /\ sel'.elements = sel.elements \ D /\ sel'.editions = sel.editions \cup N
      /\ sel'.redactions = sel.redactions
  BY <1>5
<1>7. Chosen(db, sel)' = Latest(db, sel.elements \ D) \cup (sel.editions \cup N)
  BY <1>1, <1>6 DEF Chosen
<1>8. Latest(db, sel.elements) = Latest(db, sel.elements \ D) \cup N
  BY <1>3, <1>4, LatestSplit
<1>9. Chosen(db, sel)' = Chosen(db, sel)
  BY <1>7, <1>8 DEF Chosen
<1>10. Todo' = Todo /\ \A a \in Todo : 22 <= Rank(a)
  BY <1>1, WritingFacts, RankType DEF Todo
<1>11. EditionsInv
  BY <1>10, WritingQuiet
<1>12. EditionsInv'
  BY <1>1, <1>9, <1>10, <1>11 DEF EditionsInv
<1>13. QED
  BY <1>1, <1>6, <1>9, <1>10, <1>12, BodyKeeps

LEMMA FetchCall == ASSUME ReadInv, Quiet, fetch PROVE CallInv'
<1> USE DEF database, request
<1> DEFINE q == Head(todo)
<1>1. /\ UNCHANGED <<db, found, req, sel, out, status, failed>> /\ Writing
      /\ ~is_mixed(sel, Type) /\ rows' = extract(db, sel, Type) /\ status = 0
      /\ todo' = IF sel_of(sel, Type) = {} /\ sel_historic_of(sel, Type) = {}
                 THEN Tail(todo) ELSE <<"users">> \o Tail(todo)
  BY DEF fetch, Writing
<1>2. /\ q \in WriteQueries /\ At(q) /\ WriterOf(Type) = q /\ rows = {}
      /\ \A a \in Todo : 23 <= Rank(a)
      /\ Type \in {"Node", "Way", "Relation"}
      /\ \A t \in {"Node", "Way", "Relation"} : WriterOf(t) = q => t = Type
  BY <1>1, WritingFacts
<1>r. q # "users"
  BY <1>2 DEF WriteQueries
<1>3. \/ Todo' = Todo \ {q}
      \/ Todo' = (Todo \ {q}) \cup {"users"}
  <2>1. CASE sel_of(sel, Type) = {} /\ sel_historic_of(sel, Type) = {}
    <3>1. todo' = Tail(todo)
      BY <1>1, <2>1
    <3>2. QED
      BY <1>2, <1>r, <3>1, AtFacts DEF Todo, ReadInv
  <2>2. CASE ~(sel_of(sel, Type) = {} /\ sel_historic_of(sel, Type) = {})
    <3>1. todo' = <<"users">> \o Tail(todo)
      BY <1>1, <2>2
    <3>2. QED
      BY <1>1, <1>2, <3>1, TodoUsers DEF ReadInv
  <2>3. QED
    BY <2>1, <2>2
<1>4. \A a \in Todo' : 22 <= Rank(a)
  BY <1>2, <1>3, RankValues, RankType
<1>5. \A a \in Todo : 22 <= Rank(a)
  BY <1>2, RankType
<1>6. EditionsInv /\ ConstructorInv /\ Done
  BY <1>5, WritingQuiet
<1>7. /\ \A r \in rows' : \/ r.edition \in sel.editions
                          \/ /\ r.edition[1] \in sel.elements
                             /\ r.edition = <<r.edition[1], Version(db, r.edition[1])>>
      /\ \A r \in rows' : r.edition[1][1] = Type
      /\ \A e \in sel_of(sel, Type) : \E r \in rows' : r.edition[1] = e
      /\ sel_of(sel, Type) = {} => \A ed \in sel_historic_of(sel, Type) : \E r \in rows' : r.edition = ed
  BY <1>1, ExtractFacts
<1>8. Chosen(db, sel)' = Chosen(db, sel)
  BY <1>1
<1>9. \A r \in rows' : r.edition \in Chosen(db, sel)
  <2>1. ASSUME NEW r \in rows' PROVE r.edition \in Chosen(db, sel)
    <3>1. CASE r.edition \in sel.editions
      BY <3>1 DEF Chosen
    <3>2. CASE /\ r.edition[1] \in sel.elements
               /\ r.edition = <<r.edition[1], Version(db, r.edition[1])>>
      <4>1. r.edition \in Latest(db, sel.elements)
        BY <3>2, LatestFacts
      <4>2. QED
        BY <4>1 DEF Chosen
    <3>3. QED
      BY <1>7, <3>1, <3>2
  <2>2. QED
    BY <2>1
<1>10. ASSUME NEW ed \in Chosen(db, sel), ed[1][1] = Type PROVE \E r \in rows' : r.edition = ed
  <2>1. CASE ed \in sel.editions
    <3>1. ed \in sel_historic_of(sel, Type)
      BY <1>10, <2>1 DEF sel_historic_of
    <3>2. sel_of(sel, Type) = {}
      BY <1>1, <3>1 DEF is_mixed
    <3>3. QED
      BY <1>7, <3>1, <3>2
  <2>2. CASE ed \in Latest(db, sel.elements)
    <3>1. PICK e \in sel.elements : ed = <<e, Version(db, e)>>
      BY <2>2, LatestFacts
    <3>2. ed[1] = e /\ e \in sel_of(sel, Type)
      BY <1>10, <3>1 DEF sel_of, OfType
    <3>3. PICK r \in rows' : r.edition[1] = e
      BY <1>7, <3>2
    <3>4. sel_historic_of(sel, Type) = {}
      BY <1>1, <3>2 DEF is_mixed
    <3>5. r.edition \notin sel.editions
      BY <1>7, <3>3, <3>4 DEF sel_historic_of
    <3>6. r.edition = <<e, Version(db, e)>>
      BY <1>7, <3>3, <3>5
    <3>7. QED
      BY <3>1, <3>3, <3>6
  <2>3. QED
    BY <2>1, <2>2 DEF Chosen
<1>11. ASSUME req.method = "GET", NEW ed \in Chosen(db, sel)
       PROVE  WriterOf(ed[1][1]) \in Todo' \/ \E w \in rows' \cup out' : w.edition = ed
  <2>1. CASE ed[1][1] = Type
    BY <1>10, <2>1
  <2>2. CASE ed[1][1] # Type
    <3>1. WriterOf(ed[1][1]) \in Todo \/ \E w \in out : w.edition = ed
      BY <1>2, <1>6, <1>11 DEF EditionsInv
    <3>2. ed[1][1] \in {"Node", "Way", "Relation"}
      <4>1. CASE ed \in sel.editions
        <5>1. ed[1] \in Elements
          BY <4>1 DEF ReadInv, SelectionInv, Editions
        <5>2. QED
          BY <5>1, ElementsAssumption
      <4>2. CASE ed \in Latest(db, sel.elements)
        <5>1. PICK e \in sel.elements : ed = <<e, Version(db, e)>>
          BY <4>2, LatestFacts
        <5>2. ed[1] = e /\ e \in Elements
          BY <5>1 DEF ReadInv, SelectionInv
        <5>3. QED
          BY <5>2, ElementsAssumption
      <4>3. QED
        BY <4>1, <4>2 DEF Chosen
    <3>3. WriterOf(ed[1][1]) # q
      BY <1>2, <2>2, <3>2
    <3>4. QED
      BY <1>1, <1>3, <3>1, <3>3
  <2>3. QED
    BY <2>1, <2>2
<1>12. EditionsInv'
  <2>1. \A w \in rows' \cup out' : w.edition \in Chosen(db, sel)
    BY <1>1, <1>6, <1>9 DEF EditionsInv
  <2>2. QED
    BY <1>1, <1>8, <1>11, <2>1 DEF EditionsInv
<1>13. Todo \ Todo' \subseteq WriteQueries \cup {"users"}
  BY <1>2, <1>3
<1>14. QED
  BY <1>1, <1>4, <1>5, <1>8, <1>12, <1>13, BodyKeeps

LEMMA WriteCall == ASSUME ReadInv, Quiet, write PROVE CallInv'
<1> USE DEF database, request
<1> DEFINE ids == {r.changeset : r \in rows}
           cc == [c \in DOMAIN sel.cc \cup ids |->
                     IF c \in DOMAIN sel.cc THEN sel.cc[c] ELSE names[c]]
<1>1. /\ UNCHANGED <<db, found, req, status, failed>> /\ At("users")
      /\ rows' = {} /\ todo' = Tail(todo) /\ status = 0
  BY DEF write, At
<1>2. fetch_changesets(sel, names, ids) = [sel EXCEPT !.cc = cc]
  BY DEF fetch_changesets
<1>3. sel' = fetch_changesets(sel, names, ids) /\ out' = out \cup Written(rows, fetch_changesets(sel, names, ids).cc)
  BY DEF write
<1> HIDE DEF ids, cc
<1>4. [sel EXCEPT !.cc = cc] = [elements |-> sel.elements, editions |-> sel.editions,
                                redactions |-> sel.redactions, cc |-> cc]
  BY Same
<1>5. /\ sel'.elements = sel.elements /\ sel'.editions = sel.editions
      /\ sel'.redactions = sel.redactions
      /\ out' = out \cup Written(rows, cc)
  BY <1>2, <1>3, <1>4
<1> DEFINE W == Written(rows, cc)
<1>6. /\ \A w \in W : \E r \in rows : w.edition = r.edition
      /\ \A r \in rows : \E w \in W : w.edition = r.edition
  BY WrittenFacts
<1>7. out' = out \cup W
  BY <1>5
<1> HIDE DEF W
<1>8. Todo' = Todo \ {"users"}
  BY <1>1, AtFacts DEF Todo, ReadInv
<1>9. \A a \in Todo : 22 <= Rank(a)
  BY <1>1, AtFacts DEF ReadInv, TodoInv
<1>10. EditionsInv
  BY <1>9, WritingQuiet
<1>11. Chosen(db, sel)' = Chosen(db, sel)
  BY <1>1, <1>5 DEF Chosen
<1>12. \A ed : (\E w \in rows' \cup out' : w.edition = ed) <=> (\E w \in rows \cup out : w.edition = ed)
  BY <1>1, <1>6, <1>7
<1>13. \A t : WriterOf(t) # "users"
  BY DEF WriterOf
<1>14. EditionsInv'
  <2>1. \A w \in rows' \cup out' : w.edition \in Chosen(db, sel)
    BY <1>10, <1>12 DEF EditionsInv
  <2>2. req.method = "GET" =>
            \A ed \in Chosen(db, sel) :
                WriterOf(ed[1][1]) \in Todo' \/ \E w \in rows' \cup out' : w.edition = ed
    BY <1>8, <1>10, <1>12, <1>13 DEF EditionsInv
  <2>3. QED
    BY <1>1, <1>11, <2>1, <2>2 DEF EditionsInv
<1>15. QED
  BY <1>1, <1>5, <1>8, <1>9, <1>11, <1>14, BodyKeeps

\* Everything is settled when no query is left.
LEMMA SettledStatus ==
    ASSUME NEW d, NEW r \in Requests, \A q \in Plan(r) : Cleared(d, r, q)
    PROVE  StatusOf(d, r) = OK
<1>1. {"authenticate", "get_roles_for_user"} \cup QueriesIn(responder(r)) \subseteq Plan(r)
  BY PlanConstructor
<1>2. r.token \notin Refused
  BY <1>1 DEF Cleared
<1>3. StatusOf(d, r) = StatusOfCall(d, r)
  BY <1>2 DEF StatusOf, Refused
<1>4. CASE r.kind \in {"element", "full"}
  <2>1. {"select", "check_visibility"} \subseteq QueriesIn(responder(r))
    BY <1>4, ResponderOfKind, ElementOrder, WayFullOrder, RelationFullOrder
  <2>2. Exists(d, the(r.ids)) /\ Visible(d, the(r.ids))
    BY <1>1, <1>4, <2>1 DEF Cleared
  <2>3. QED
    BY <1>3, <1>4, <2>2 DEF StatusOfCall
<1>5. CASE r.kind \in {"multi", "version"}
  <2>1. "historical" \in QueriesIn(responder(r))
    BY <1>5, ResponderOfKind, ListOrder, VersionOrder
  <2>2. (\A e \in r.ids : Exists(d, e)) /\ r.eds \subseteq ReadableEditions(d, r)
    BY <1>1, <1>5, <2>1 DEF Cleared
  <2>3. QED
    BY <1>3, <1>5, <2>2 DEF StatusOfCall
<1>6. CASE r.kind = "history"
  <2>1. "with_history" \in QueriesIn(responder(r))
    BY <1>6, ResponderOfKind, HistoryOrder
  <2>2. Answer(d, r) # {}
    BY <1>1, <1>6, <2>1 DEF Cleared
  <2>3. QED
    BY <1>3, <1>6, <2>2 DEF StatusOfCall
<1>7. CASE r.kind = "map"
  <2>1. "nodes_from_bbox" \in QueriesIn(responder(r))
    BY <1>7, ResponderOfKind, MapOrder
  <2>2. ~(Cardinality(visible_node_in_bbox(d)) > map_max_nodes)
    BY <1>1, <1>7, <2>1 DEF Cleared
  <2>3. QED
    BY <1>3, <1>7, <2>2 DEF StatusOfCall
<1>8. CASE r.kind = "download"
  <2>1. "changeset" \in QueriesIn(responder(r))
    BY <1>8, ResponderOfKind, ChangesetDownloadOrder
  <2>2. r.changeset \in Changesets
    BY <1>1, <1>8, <2>1 DEF Cleared
  <2>3. QED
    BY <1>3, <1>8, <2>2 DEF StatusOfCall
<1>9. CASE r.kind \in {"ways", "relations"}
  BY <1>3, <1>9 DEF StatusOfCall
<1>10. r.kind \in Kinds
  BY ResponderOfKind
<1>11. QED
  BY <1>4, <1>5, <1>6, <1>7, <1>8, <1>9, <1>10 DEF Kinds

LEMMA FinishCall == ASSUME ReadInv, Quiet, finish PROVE CallInv'
<1> USE DEF database, request
<1>1. /\ UNCHANGED <<db, found, req, sel, rows, out, failed>> /\ status' = OK /\ OK # 0
      /\ todo = <<>> /\ status = 0
  BY DEF finish, OK
<1>2. Todo = {}
  BY <1>1 DEF Todo, QueriesIn
<1>3. ConstructorInv /\ EditionsInv /\ Done /\ req \in Requests /\ rows = {}
  BY <1>2, WritingQuiet DEF ReadInv, TodoInv
<1>4. StatusOf(db, req) = OK
  BY <1>2, <1>3, SettledStatus DEF ConstructorInv
<1>5. req.method = "GET" => EditionsOut = Answer(db, req)
  <2>1. Chosen(db, sel) = Answer(db, req)
    BY <1>3 DEF ConstructorInv
  <2>2. \A w \in out : w.edition \in Answer(db, req)
    BY <1>3, <2>1 DEF EditionsInv
  <2>3. req.method = "GET" => \A ed \in Answer(db, req) : \E w \in out : w.edition = ed
    BY <1>2, <1>3, <2>1 DEF EditionsInv
  <2>4. QED
    BY <2>2, <2>3 DEF EditionsOut
<1>6. AnsweredInv'
  <2>1. EditionsOut' = EditionsOut
    BY <1>1 DEF EditionsOut
  <2>2. QED
    BY <1>1, <1>4, <1>5, <2>1 DEF AnsweredInv
<1>7. QED
  BY <1>1, <1>6 DEF CallInv

(***************************************************************************)
(* What the calls answer, in the terms of the queries.                     *)
(***************************************************************************)
LEMMA AncestorsAreParents == \A d, t, S : Ancestors(d, t, S) = ParentsOf(d, t, S)
BY DEF Ancestors, ParentsOf

LEMMA MapCallParts ==
    ASSUME NEW d
    PROVE  LET R == ParentsOf(d, "Relation", MapElements(d)) IN
           MapCall(d) = MapElements(d) \cup R \cup ParentsOf(d, "Relation", R)
BY AncestorsAreParents DEF MapCall, MapElements, MapWays, visible_node_in_bbox

LEMMA FullCallParts ==
    ASSUME NEW d, NEW e
    PROVE  FullCall(d, e) = {e} \cup Members(d, e) \cup NodesOfWays(d, MemberWays(d, e))
BY DEF FullCall, NodesOfWays, MemberWays

LEMMA AnswerOfKind ==
    ASSUME NEW d, NEW r
    PROVE  LET e == the(r.ids) IN
           /\ r.kind = "element" => Answer(d, r) = Latest(d, r.ids)
           /\ r.kind = "full" => Answer(d, r) = Latest(d, FullCall(d, e))
           /\ (r.kind = "ways" /\ Visible(d, e)) => Answer(d, r) = Latest(d, ParentsOf(d, "Way", {e}))
           /\ (r.kind = "relations" /\ Visible(d, e)) =>
                 Answer(d, r) = Latest(d, ParentsOf(d, "Relation", {e}))
           /\ (r.kind \in {"ways", "relations"} /\ ~Visible(d, e)) => Answer(d, r) = {}
           /\ r.kind = "multi" => Answer(d, r) = Latest(d, r.ids) \cup r.eds
           /\ r.kind = "version" => Answer(d, r) = r.eds
           /\ r.kind = "history" => Answer(d, r) = {ed \in ReadableEditions(d, r) : ed[1] = e}
           /\ r.kind = "map" => Answer(d, r) = Latest(d, MapCall(d))
           /\ r.kind = "download" =>
                 Answer(d, r) = {ed \in ReadableEditions(d, r) : RowOf(d, ed).changeset = r.changeset}
BY AncestorsAreParents DEF Answer

LEMMA LatestNone == ASSUME NEW d PROVE Latest(d, {}) = {}
BY DEF Latest

\* What uploads keep true of members.
LEMMA MemberFacts ==
    ASSUME DatabaseInv, NEW p \in Elements, NEW m \in Members(db, p)
    PROVE  m \in Elements /\ Visible(db, m) /\ Exists(db, m) /\ (p[1] = "Way" => m[1] = "Node")
<1>1. db \in Databases
  BY DEF DatabaseInv, Sound, Databases
<1>2. Exists(db, p) /\ m \in Current(db, p).refs
  BY DEF Members
<1>3. Current(db, p) \in Row
  BY <1>1, <1>2, RowsOf
<1>4. m \in Elements
  BY <1>2, <1>3 DEF Row
<1>5. Visible(db, m) /\ (p[1] = "Way" => m[1] = "Node")
  BY <1>2 DEF DatabaseInv, Sound
<1>6. QED
  BY <1>4, <1>5 DEF Visible

(***************************************************************************)
(* The query that is next                                                  *)
(***************************************************************************)
LEMMA AheadNow == ASSUME TodoInv, NEW q, At(q), Rank(q) <= 21 PROVE Ahead(q) /\ q \in Todo
<1>1. q \in Todo /\ \A a \in Todo : a = q \/ Rank(q) < Rank(a)
  BY AtFacts
<1>2. QED
  BY <1>1, RankType DEF Ahead

LEMMA QueryKinds ==
    ASSUME TodoInv, NEW q, At(q), 3 <= Rank(q), Rank(q) <= 21
    PROVE  LET t == the(req.ids)[1] IN
           /\ req \in Requests
           /\ q = "select" => req.kind \in {"element", "full", "ways", "relations", "multi"}
           /\ q = "check_visibility" => req.kind \in {"element", "full", "ways", "relations"}
           /\ q = "nodes_from_bbox" => req.kind = "map"
           /\ q = "ways_from_nodes" => req.kind \in {"map", "ways"}
           /\ q \in {"nodes_from_relations", "ways_from_relations", "members_of_relations"} =>
                 req.kind = "full" /\ t = "Relation"
           /\ q = "nodes_from_way_nodes" => req.kind \in {"map", "full"}
           /\ q = "relations_from_ways" => req.kind = "map" \/ (req.kind = "relations" /\ t = "Way")
           /\ q = "relations_from_nodes" => req.kind = "map" \/ (req.kind = "relations" /\ t = "Node")
           /\ q = "relations_from_relations" => req.kind = "map"
           /\ q = "parents_only" => req.kind = "relations" /\ t = "Relation"
           /\ q = "drop" => req.kind = "ways" \/ (req.kind = "relations" /\ t \in {"Node", "Way"})
           /\ q = "historical" => req.kind \in {"multi", "version"}
           /\ q = "with_history" => req.kind = "history"
           /\ q \in {"changeset", "nodes_by_changeset", "ways_by_changeset", "relations_by_changeset"} =>
                 req.kind = "download"
           /\ req.kind = "full" => t \in {"Way", "Relation"}
           /\ req.kind = "relations" => t \in {"Node", "Way", "Relation"}
<1>1. req \in Requests /\ q \in Plan(req)
  BY NextAhead DEF TodoInv
<1>2. q \in QueriesIn(responder(req))
  <2>1. q \in {"authenticate", "get_roles_for_user"} \cup QueriesIn(responder(req)) \/ 23 <= Rank(q)
    BY <1>1, PlanConstructor
  <2>2. q # "authenticate" /\ q # "get_roles_for_user" /\ ~(23 <= Rank(q))
    BY RankValues, RankType
  <2>3. QED
    BY <2>1, <2>2
<1>3. /\ req.kind = "full" => the(req.ids)[1] \in {"Way", "Relation"}
      /\ req.kind = "relations" => the(req.ids)[1] \in {"Node", "Way", "Relation"}
  BY <1>1, TypeOfOne
<1> USE <1>1, <1>2, <1>3, ResponderOfKind, ResponderOfType
<1>4. CASE req.kind = "element"
  BY <1>4, ElementOrder
<1>5. CASE req.kind = "full"
  BY <1>5, WayFullOrder, RelationFullOrder
<1>6. CASE req.kind = "ways"
  BY <1>6, NodeWaysOrder
<1>7. CASE req.kind = "relations"
  BY <1>7, NodeRelationsOrder, WayRelationsOrder, RelationRelationsOrder
<1>8. CASE req.kind = "multi"
  BY <1>8, ListOrder
<1>9. CASE req.kind = "version"
  BY <1>9, VersionOrder
<1>10. CASE req.kind = "history"
  BY <1>10, HistoryOrder
<1>11. CASE req.kind = "map"
  BY <1>11, MapOrder
<1>12. CASE req.kind = "download"
  BY <1>12, ChangesetDownloadOrder
<1>13. QED
  BY <1>4, <1>5, <1>6, <1>7, <1>8, <1>9, <1>10, <1>11, <1>12 DEF Kinds

\* What the invariant says when a query is about to run.
LEMMA QuietAt ==
    ASSUME ReadInv, Quiet, NEW q, At(q), Rank(q) <= 21
    PROVE  /\ Before(db, req, sel, q) /\ ConstructorInv /\ req \in Requests
           /\ sel.elements = ElementsBefore(db, req, q)
           /\ req.kind # "download" => sel.editions = {}
           /\ 2 < Rank(q) => (sel.redactions <=> Privileged) /\ req.token \notin Refused
           /\ \A p \in Plan(req) : Rank(p) < Rank(q) => Cleared(db, req, p)
<1>1. Ahead(q) /\ q \in Todo /\ TodoInv /\ req \in Requests
  BY AheadNow DEF ReadInv, TodoInv
<1>2. ConstructorInv
  BY DEF Quiet, CallInv
<1>3. Before(db, req, sel, q)
  BY <1>1, <1>2 DEF ConstructorInv
<1>4. \A p \in Plan(req) : Rank(p) < Rank(q) => p \notin Todo
  BY <1>1, RankType DEF Ahead
<1>5. \A p \in Plan(req) : Rank(p) < Rank(q) => Cleared(db, req, p)
  BY <1>2, <1>4 DEF ConstructorInv
<1>6. ASSUME 2 < Rank(q) PROVE (sel.redactions <=> Privileged) /\ req.token \notin Refused
  <2>1. "authenticate" \in Plan(req) /\ "get_roles_for_user" \in Plan(req)
    BY <1>1, PlanConstructor
  <2>2. Rank("authenticate") < Rank(q) /\ Rank("get_roles_for_user") < Rank(q)
    BY <1>6, RankValues, RankType
  <2>3. QED
    BY <1>2, <1>4, <1>5, <2>1, <2>2 DEF ConstructorInv, Cleared
<1>7. QED
  BY <1>1, <1>2, <1>3, <1>5, <1>6 DEF Before

\* A query for current elements.
LEMMA GatherCall ==
    ASSUME ReadInv, Quiet, NEW q, At(q), 6 <= Rank(q), Rank(q) <= 15, NEW s, Selected(s),
           s.editions = sel.editions, s.redactions = sel.redactions,
           req.kind \in {"map", "full", "ways", "relations"},
           \A p : IsNext(req, q, p) => s.elements = ElementsBefore(db, req, p),
           IsLast(req, q) => Latest(db, s.elements) = Answer(db, req)
    PROVE  CallInv'
<1>0. Rank(q) \in Nat /\ Rank(q) <= 21 /\ 2 < Rank(q)
  BY RankType
<1>1. /\ Before(db, req, sel, q) /\ s.editions = {} /\ (s.redactions <=> Privileged)
  BY <1>0, QuietAt
<1>2. Cleared(db, req, q)
  BY RankValues DEF Cleared
<1>3. ASSUME NEW p, IsNext(req, q, p) PROVE Before(db, req, s, p)
  <2>1. 6 < Rank(p)
    BY <1>0, <1>3, RankType DEF IsNext
  <2>2. p # "check_visibility" /\ 4 < Rank(p) /\ 4 < Rank(q)
    BY <1>0, <2>1, RankValues, RankType
  <2>3. req.kind \in {"full", "ways", "relations"} => Visible(db, the(req.ids))
    BY <1>1, <2>2 DEF Before
  <2>4. QED
    BY <1>1, <1>3, <2>2, <2>3 DEF Before
<1>4. IsLast(req, q) => Chosen(db, s) = Answer(db, req)
  BY <1>1 DEF Chosen
<1>5. QED
  BY <1>0, <1>1, <1>2, <1>3, <1>4, QueryStep

LEMMA InsertCall ==
    ASSUME ReadInv, Quiet, NEW q, At(q), 6 <= Rank(q), Rank(q) <= 15, NEW N,
           Selected(insert_results(sel, N)), req.kind \in {"map", "full", "ways", "relations"},
           \A p : IsNext(req, q, p) => sel.elements \cup N = ElementsBefore(db, req, p),
           IsLast(req, q) => Latest(db, sel.elements \cup N) = Answer(db, req)
    PROVE  CallInv'
<1> DEFINE s == insert_results(sel, N)
<1>1. s.elements = sel.elements \cup N /\ s.editions = sel.editions /\ s.redactions = sel.redactions
  BY Inserted DEF ReadInv
<1>2. Selected(s)
  OBVIOUS
<1> HIDE DEF s
<1>3. QED
  BY <1>1, <1>2, GatherCall

\* The types of the parts of a map call.
LEMMA MapShape ==
    ASSUME DatabaseInv
    PROVE  LET I == visible_node_in_bbox(db)
               W == MapWays(db)
               E == MapElements(db) IN
           /\ OfType("Node", I) = I
           /\ OfType("Way", I \cup W) = W
           /\ MembersOf(db, "Node", W) = UNION {Members(db, w) : w \in W}
           /\ OfType("Way", E) = W
           /\ E = OfType("Node", E) \cup W
           /\ OfType("Relation", E) = {}
<1> DEFINE I == visible_node_in_bbox(db)
           W == MapWays(db)
           M == UNION {Members(db, w) : w \in W}
<1>1. \A e \in I : e[1] = "Node"
  BY DEF visible_node_in_bbox, OfType
<1>2. \A w \in W : w \in Elements /\ w[1] = "Way"
  BY DEF MapWays, ParentsOf, OfType
<1>3. \A e \in M : e[1] = "Node"
  BY <1>2, MemberFacts
<1>4. MapElements(db) = I \cup W \cup M
  BY DEF MapElements
<1>5. MembersOf(db, "Node", W) = OfType("Node", M)
  BY DEF MembersOf
<1> HIDE DEF I, W, M
<1>6. OfType("Node", I) = I /\ OfType("Way", I \cup W) = W /\ OfType("Node", M) = M
  BY <1>1, <1>2, <1>3 DEF OfType
<1>7. /\ OfType("Way", I \cup W \cup M) = W
      /\ I \cup W \cup M = OfType("Node", I \cup W \cup M) \cup W
      /\ OfType("Relation", I \cup W \cup M) = {}
  BY <1>1, <1>2, <1>3 DEF OfType
<1>8. QED
  BY <1>4, <1>5, <1>6, <1>7 DEF I, W, M

LEMMA ParentsSplit ==
    ASSUME NEW d, NEW t, NEW S, NEW T
    PROVE  ParentsOf(d, t, S \cup T) = ParentsOf(d, t, S) \cup ParentsOf(d, t, T)
BY DEF ParentsOf, OfType

LEMMA ParentsType ==
    ASSUME NEW d, NEW t, NEW S
    PROVE  /\ OfType(t, ParentsOf(d, t, S)) = ParentsOf(d, t, S)
           /\ \A u : u # t => OfType(u, ParentsOf(d, t, S)) = {}
BY DEF ParentsOf, OfType

LEMMA OfTypeSplit ==
    ASSUME NEW t, NEW S, NEW T
    PROVE  OfType(t, S \cup T) = OfType(t, S) \cup OfType(t, T)
BY DEF OfType

(***************************************************************************)
(* The map call                                                            *)
(***************************************************************************)
LEMMA MapQueries ==
    ASSUME ReadInv, Quiet, current_queries, req.kind = "map"
    PROVE  CallInv'
<1> DEFINE I == visible_node_in_bbox(db)
           W == MapWays(db)
           E == MapElements(db)
           R == ParentsOf(db, "Relation", E)
           PW == ParentsOf(db, "Relation", W)
           PN == ParentsOf(db, "Relation", OfType("Node", E))
<1>1. req \in Requests /\ TodoInv /\ DatabaseInv /\ SelectionInv /\ req.kind \in {"map", "full", "ways", "relations"}
  BY DEF ReadInv, TodoInv
<1>2. /\ \A p : /\ IsNext(req, "ways_from_nodes", p) => p = "nodes_from_way_nodes"
                /\ IsNext(req, "nodes_from_way_nodes", p) => p = "relations_from_ways"
                /\ IsNext(req, "relations_from_ways", p) => p = "relations_from_nodes"
                /\ IsNext(req, "relations_from_nodes", p) => p = "relations_from_relations"
                /\ ~IsNext(req, "relations_from_relations", p)
      /\ ~IsLast(req, "ways_from_nodes") /\ ~IsLast(req, "nodes_from_way_nodes")
      /\ ~IsLast(req, "relations_from_ways") /\ ~IsLast(req, "relations_from_nodes")
  BY <1>1, MapPlan
<1>3. /\ ElementsBefore(db, req, "ways_from_nodes") = I
      /\ ElementsBefore(db, req, "nodes_from_way_nodes") = I \cup W
      /\ ElementsBefore(db, req, "relations_from_ways") = E
      /\ ElementsBefore(db, req, "relations_from_nodes") = E \cup PW
      /\ ElementsBefore(db, req, "relations_from_relations") = E \cup R
  <2>1. /\ ElementsBefore(db, req, "ways_from_nodes") = I
        /\ ElementsBefore(db, req, "nodes_from_way_nodes") = I \cup W
    BY DEF ElementsBefore
  <2>2. /\ ElementsBefore(db, req, "relations_from_ways") = E
        /\ ElementsBefore(db, req, "relations_from_nodes") = E \cup PW
    BY DEF ElementsBefore
  <2>3. ElementsBefore(db, req, "relations_from_relations") = E \cup R
    BY DEF ElementsBefore
  <2>4. QED
    BY <2>1, <2>2, <2>3
<1>4. /\ OfType("Node", I) = I
      /\ OfType("Way", I \cup W) = W
      /\ MembersOf(db, "Node", W) = UNION {Members(db, w) : w \in W}
      /\ OfType("Way", E) = W
      /\ E = OfType("Node", E) \cup W
      /\ OfType("Relation", E) = {}
  BY <1>1, MapShape
<1>5. E = I \cup W \cup UNION {Members(db, w) : w \in W} /\ W = ParentsOf(db, "Way", I)
  BY DEF MapElements, MapWays
<1>6. R = PN \cup PW
  <2>1. R = ParentsOf(db, "Relation", OfType("Node", E) \cup W)
    BY <1>4
  <2>2. QED
    BY <2>1, ParentsSplit
<1>7. OfType("Node", PW) = {} /\ OfType("Relation", R) = R
  BY ParentsType
<1>8. Answer(db, req) = Latest(db, E \cup R \cup ParentsOf(db, "Relation", R))
  BY AnswerOfKind, MapCallParts
<1>9. \A q : At(q) /\ Rank(q) <= 21 => sel.elements = ElementsBefore(db, req, q)
  BY QuietAt
<1>10. \A t : sel_of(sel, t) = OfType(t, sel.elements)
  BY DEF sel_of
<1> HIDE DEF I, W, E, R, PW, PN
<1>11. CASE At("ways_from_nodes") /\ Selected(select_ways_from_nodes(db, sel))
  <2>1. sel.elements = I
    BY <1>3, <1>9, <1>11, RankValues
  <2>2. Selected(insert_results(sel, W))
    BY <1>4, <1>5, <1>10, <1>11, <2>1 DEF select_ways_from_nodes
  <2>3. QED
    BY <1>1, <1>2, <1>3, <1>11, <2>1, <2>2, InsertCall, RankValues
<1>12. CASE At("nodes_from_way_nodes") /\ Selected(select_nodes_from_way_nodes(db, sel))
  <2> DEFINE N == UNION {Members(db, w) : w \in W}
  <2>1. sel.elements = I \cup W
    BY <1>3, <1>9, <1>12, RankValues
  <2>2. Selected(insert_results(sel, N))
    BY <1>4, <1>10, <1>12, <2>1 DEF select_nodes_from_way_nodes
  <2>3. sel.elements \cup N = E
    BY <1>5, <2>1
  <2> HIDE DEF N
  <2>4. QED
    BY <1>1, <1>2, <1>3, <1>12, <2>2, <2>3, InsertCall, RankValues
<1>13. CASE At("relations_from_ways") /\ Selected(select_relations_from_ways(db, sel))
  <2>1. sel.elements = E
    BY <1>3, <1>9, <1>13, RankValues
  <2>2. Selected(insert_results(sel, PW))
    BY <1>4, <1>10, <1>13, <2>1 DEF select_relations_from_ways, PW
  <2>3. QED
    BY <1>1, <1>2, <1>3, <1>13, <2>1, <2>2, InsertCall, RankValues
<1>14. CASE At("relations_from_nodes") /\ Selected(select_relations_from_nodes(db, sel))
  <2>1. sel.elements = E \cup PW
    BY <1>3, <1>9, <1>14, RankValues
  <2>2. OfType("Node", sel.elements) = OfType("Node", E)
    <3>1. OfType("Node", sel.elements) = OfType("Node", E) \cup OfType("Node", PW)
      BY <2>1, OfTypeSplit
    <3>2. QED
      BY <1>7, <3>1
  <2>3. Selected(insert_results(sel, PN))
    BY <1>10, <1>14, <2>2 DEF select_relations_from_nodes, PN
  <2>4. sel.elements \cup PN = E \cup R
    BY <1>6, <2>1
  <2>5. QED
    BY <1>1, <1>2, <1>3, <1>14, <2>3, <2>4, InsertCall, RankValues
<1>15. CASE At("relations_from_relations") /\ Selected(select_relations_from_relations(db, sel, FALSE))
  <2> DEFINE N == ParentsOf(db, "Relation", R)
  <2>1. sel.elements = E \cup R
    BY <1>3, <1>9, <1>15, RankValues
  <2>2. OfType("Relation", sel.elements) = R
    <3>1. OfType("Relation", sel.elements) = OfType("Relation", E) \cup OfType("Relation", R)
      BY <2>1, OfTypeSplit
    <3>2. QED
      BY <1>4, <1>7, <3>1
  <2>3. Selected(insert_results(sel, N))
    BY <1>10, <1>15, <2>2 DEF select_relations_from_relations
  <2>4. sel.elements \cup N = E \cup R \cup N
    BY <2>1
  <2>5. Latest(db, sel.elements \cup N) = Answer(db, req)
    BY <1>8, <2>4
  <2> HIDE DEF N
  <2>6. QED
    BY <1>1, <1>2, <1>15, <2>3, <2>5, InsertCall, RankValues
<1>16. \A q \in {"nodes_from_relations", "ways_from_relations", "members_of_relations", "parents_only"} : ~At(q)
  BY <1>1, QueryKinds, RankValues
<1>17. QED
  BY <1>11, <1>12, <1>13, <1>14, <1>15, <1>16 DEF current_queries

(***************************************************************************)
(* The full calls                                                          *)
(***************************************************************************)
\* The types of the parts of a full call of a relation.
LEMMA FullShape ==
    ASSUME DatabaseInv, NEW e \in Elements
    PROVE  LET N == MemberNodes(db, e)
               W == MemberWays(db, e)
               K == NodesOfWays(db, W) IN
           /\ MembersOf(db, "Node", {e}) = N /\ MembersOf(db, "Way", {e}) = W
           /\ MembersOf(db, "Node", W) = K
           /\ Members(db, e) = N \cup W \cup MembersOf(db, "Relation", {e})
           /\ \A x \in N \cup K : x[1] = "Node"
           /\ \A x \in W : x[1] = "Way"
           /\ e[1] = "Way" => Members(db, e) = N /\ W = {} /\ K = {}
<1> DEFINE M == Members(db, e)
           W == MemberWays(db, e)
           K == NodesOfWays(db, W)
<1>1. \A m \in M : m \in Elements /\ (e[1] = "Way" => m[1] = "Node")
  BY MemberFacts
<1>2. \A m \in M : m[1] \in {"Node", "Way", "Relation"}
  BY <1>1, ElementsAssumption
<1>3. UNION {Members(db, x) : x \in {e}} = M
  OBVIOUS
<1>4. \A t : MembersOf(db, t, {e}) = OfType(t, M)
  BY <1>3 DEF MembersOf
<1>5. \A w \in W : w \in Elements /\ w[1] = "Way"
  BY <1>1 DEF MemberWays, OfType
<1>6. \A x \in K : x[1] = "Node"
  BY <1>5, MemberFacts DEF NodesOfWays
<1>7. MembersOf(db, "Node", W) = OfType("Node", K)
  BY DEF MembersOf, NodesOfWays
<1>8. OfType("Node", K) = K
  BY <1>6 DEF OfType
<1>9. MemberNodes(db, e) = OfType("Node", M) /\ W = OfType("Way", M)
  BY DEF MemberNodes, MemberWays
<1>10. W = {} => K = {}
  BY DEF NodesOfWays
<1> HIDE DEF M, W, K
<1>11. M = OfType("Node", M) \cup OfType("Way", M) \cup OfType("Relation", M)
  BY <1>2 DEF OfType
<1>12. /\ \A x \in OfType("Node", M) : x[1] = "Node"
       /\ e[1] = "Way" => M = OfType("Node", M) /\ OfType("Way", M) = {}
  BY <1>1 DEF OfType
<1>13. QED
  BY <1>4, <1>5, <1>6, <1>7, <1>8, <1>9, <1>10, <1>11, <1>12 DEF M, W, K

LEMMA FullWayQueries ==
    ASSUME ReadInv, Quiet, current_queries, req.kind = "full", the(req.ids)[1] = "Way"
    PROVE  CallInv'
<1> DEFINE e == the(req.ids)
           M == Members(db, e)
<1>1. /\ req \in Requests /\ TodoInv /\ DatabaseInv /\ req.kind \in {"map", "full", "ways", "relations"}
      /\ e \in Elements
  BY TypeOfOne DEF ReadInv, TodoInv
<1>2. \A p : ~IsNext(req, "nodes_from_way_nodes", p)
  BY <1>1, WayFullPlan
<1>3. \A q \in {"ways_from_nodes", "nodes_from_relations", "ways_from_relations",
                "members_of_relations", "relations_from_ways", "relations_from_nodes",
                "relations_from_relations", "parents_only"} : ~At(q)
  BY <1>1, QueryKinds, RankValues
<1>4. At("nodes_from_way_nodes") /\ Selected(select_nodes_from_way_nodes(db, sel))
  BY <1>3 DEF current_queries
<1>5. sel.elements = {e}
  <2>1. sel.elements = ElementsBefore(db, req, "nodes_from_way_nodes")
    BY <1>4, QuietAt, RankValues
  <2>2. QED
    BY <2>1 DEF ElementsBefore
<1>6. sel_of(sel, "Way") = {e}
  BY <1>5 DEF sel_of, OfType
<1>7. /\ MembersOf(db, "Node", {e}) = M
      /\ NodesOfWays(db, MemberWays(db, e)) = {}
  BY <1>1, FullShape
<1>8. Selected(insert_results(sel, M))
  BY <1>4, <1>6, <1>7 DEF select_nodes_from_way_nodes
<1>9. Answer(db, req) = Latest(db, {e} \cup M)
  <2>1. Answer(db, req) = Latest(db, FullCall(db, e))
    BY AnswerOfKind
  <2>2. FullCall(db, e) = {e} \cup M \cup {}
    BY <1>7, FullCallParts
  <2>3. FullCall(db, e) = {e} \cup M
    BY <2>2
  <2>4. QED
    BY <2>1, <2>3
<1> HIDE DEF e, M
<1>10. QED
  BY <1>1, <1>2, <1>4, <1>5, <1>8, <1>9, InsertCall, RankValues

LEMMA FullRelationQueries ==
    ASSUME ReadInv, Quiet, current_queries, req.kind = "full", the(req.ids)[1] = "Relation"
    PROVE  CallInv'
<1> DEFINE e == the(req.ids)
           N == MemberNodes(db, e)
           W == MemberWays(db, e)
           K == NodesOfWays(db, W)
           R == MembersOf(db, "Relation", {e})
<1>1. /\ req \in Requests /\ TodoInv /\ DatabaseInv /\ req.kind \in {"map", "full", "ways", "relations"}
      /\ e \in Elements /\ e[1] = "Relation"
  BY TypeOfOne DEF ReadInv, TodoInv
<1>2. /\ \A p : /\ IsNext(req, "nodes_from_relations", p) => p = "ways_from_relations"
                /\ IsNext(req, "ways_from_relations", p) => p = "nodes_from_way_nodes"
                /\ IsNext(req, "nodes_from_way_nodes", p) => p = "members_of_relations"
                /\ ~IsNext(req, "members_of_relations", p)
      /\ ~IsLast(req, "nodes_from_relations") /\ ~IsLast(req, "ways_from_relations")
      /\ ~IsLast(req, "nodes_from_way_nodes")
  BY <1>1, RelationFullPlan
<1>3. /\ ElementsBefore(db, req, "nodes_from_relations") = {e}
      /\ ElementsBefore(db, req, "ways_from_relations") = {e} \cup N
      /\ ElementsBefore(db, req, "nodes_from_way_nodes") = {e} \cup N \cup W
      /\ ElementsBefore(db, req, "members_of_relations") = {e} \cup N \cup W \cup K
  <2>1. /\ ElementsBefore(db, req, "nodes_from_relations") = {e}
        /\ ElementsBefore(db, req, "ways_from_relations") = {e} \cup N
    BY DEF ElementsBefore
  <2>2. ElementsBefore(db, req, "nodes_from_way_nodes") = {e} \cup N \cup W
    BY DEF ElementsBefore
  <2>3. ElementsBefore(db, req, "members_of_relations") = {e} \cup N \cup W \cup K
    BY DEF ElementsBefore
  <2>4. QED
    BY <2>1, <2>2, <2>3
<1>4. /\ MembersOf(db, "Node", {e}) = N /\ MembersOf(db, "Way", {e}) = W
      /\ MembersOf(db, "Node", W) = K
      /\ Members(db, e) = N \cup W \cup R
      /\ \A x \in N \cup K : x[1] = "Node"
      /\ \A x \in W : x[1] = "Way"
  BY <1>1, FullShape
<1>5. Answer(db, req) = Latest(db, {e} \cup Members(db, e) \cup K)
  BY AnswerOfKind, FullCallParts
<1>6. \A q : At(q) /\ Rank(q) <= 21 => sel.elements = ElementsBefore(db, req, q)
  BY QuietAt
<1>7. \A t : sel_of(sel, t) = OfType(t, sel.elements)
  BY DEF sel_of
<1> HIDE DEF e, N, W, K, R
<1>8. CASE At("nodes_from_relations") /\ Selected(select_nodes_from_relations(db, sel))
  <2>1. sel.elements = {e}
    BY <1>3, <1>6, <1>8, RankValues
  <2>2. sel_of(sel, "Relation") = {e}
    BY <1>1, <2>1 DEF sel_of, OfType
  <2>3. Selected(insert_results(sel, N))
    BY <1>4, <1>8, <2>2 DEF select_nodes_from_relations
  <2>4. QED
    BY <1>1, <1>2, <1>3, <1>8, <2>1, <2>3, InsertCall, RankValues
<1>9. CASE At("ways_from_relations") /\ Selected(select_ways_from_relations(db, sel))
  <2>1. sel.elements = {e} \cup N
    BY <1>3, <1>6, <1>9, RankValues
  <2>2. sel_of(sel, "Relation") = {e}
    BY <1>1, <1>4, <2>1 DEF sel_of, OfType
  <2>3. Selected(insert_results(sel, W))
    BY <1>4, <1>9, <2>2 DEF select_ways_from_relations
  <2>4. QED
    BY <1>1, <1>2, <1>3, <1>9, <2>1, <2>3, InsertCall, RankValues
<1>10. CASE At("nodes_from_way_nodes") /\ Selected(select_nodes_from_way_nodes(db, sel))
  <2>1. sel.elements = {e} \cup N \cup W
    BY <1>3, <1>6, <1>10, RankValues
  <2>2. sel_of(sel, "Way") = W
    BY <1>1, <1>4, <2>1 DEF sel_of, OfType
  <2>3. Selected(insert_results(sel, K))
    BY <1>4, <1>10, <2>2 DEF select_nodes_from_way_nodes
  <2>4. QED
    BY <1>1, <1>2, <1>3, <1>10, <2>1, <2>3, InsertCall, RankValues
<1>11. CASE At("members_of_relations") /\ Selected(select_relations_members_of_relations(db, sel))
  <2>1. sel.elements = {e} \cup N \cup W \cup K
    BY <1>3, <1>6, <1>11, RankValues
  <2>2. sel_of(sel, "Relation") = {e}
    BY <1>1, <1>4, <2>1 DEF sel_of, OfType
  <2>3. Selected(insert_results(sel, R))
    BY <1>11, <2>2 DEF select_relations_members_of_relations, R
  <2>4. sel.elements \cup R = {e} \cup Members(db, e) \cup K
    BY <1>4, <2>1
  <2>5. QED
    BY <1>1, <1>2, <1>5, <1>11, <2>3, <2>4, InsertCall, RankValues
<1>12. \A q \in {"ways_from_nodes", "relations_from_ways", "relations_from_nodes",
                 "relations_from_relations", "parents_only"} : ~At(q)
  BY <1>1, QueryKinds, RankValues
<1>13. QED
  BY <1>8, <1>9, <1>10, <1>11, <1>12 DEF current_queries

(***************************************************************************)
(* The calls for ways and relations that hold an element                   *)
(***************************************************************************)
LEMMA ParentQueries ==
    ASSUME ReadInv, Quiet, current_queries, req.kind \in {"ways", "relations"}
    PROVE  CallInv'
<1> DEFINE e == the(req.ids)
           t == IF req.kind = "ways" THEN "Way" ELSE "Relation"
           P == ParentsOf(db, t, {e})
<1>1. /\ req \in Requests /\ TodoInv /\ DatabaseInv /\ req.kind \in {"map", "full", "ways", "relations"}
      /\ e \in Elements /\ e[1] \in {"Node", "Way", "Relation"} /\ SelectionInv
  BY TypeOfOne DEF ReadInv, TodoInv
<1>2. \A q \in {"nodes_from_relations", "ways_from_relations", "members_of_relations",
                "nodes_from_way_nodes", "relations_from_relations"} : ~At(q)
  BY <1>1, QueryKinds, RankValues
<1>3. ASSUME NEW q \in {"ways_from_nodes", "relations_from_ways", "relations_from_nodes", "parents_only"}, At(q)
      PROVE  /\ sel.elements = {e}
             /\ Visible(db, e)
  <2>1. 4 < Rank(q) /\ Rank(q) <= 21
    BY RankValues
  <2>2. Before(db, req, sel, q)
    BY <1>3, <2>1, QuietAt
  <2>3. ElementsBefore(db, req, q) = {e}
    <3>1. CASE q = "ways_from_nodes"
      BY <3>1 DEF ElementsBefore
    <3>2. CASE q = "relations_from_ways"
      BY <3>2 DEF ElementsBefore
    <3>3. CASE q = "relations_from_nodes"
      BY <3>3 DEF ElementsBefore
    <3>4. CASE q = "parents_only"
      BY <3>4 DEF ElementsBefore
    <3>5. QED
      BY <3>1, <3>2, <3>3, <3>4
  <2>4. QED
    BY <2>1, <2>2, <2>3 DEF Before
<1>4. ElementsBefore(db, req, "drop") = {e} \cup P
  BY DEF ElementsBefore
<1>5. \A u : sel_of(sel, u) = OfType(u, sel.elements)
  BY DEF sel_of
<1>6. CASE At("ways_from_nodes") /\ Selected(select_ways_from_nodes(db, sel))
  <2>1. req.kind = "ways" /\ t = "Way" /\ sel.elements = {e}
    BY <1>1, <1>3, <1>6, QueryKinds, RankValues
  <2>2. ParentsOf(db, "Way", sel_of(sel, "Node")) = P
    <3>1. CASE e[1] = "Node"
      <4>1. sel_of(sel, "Node") = {e}
        BY <2>1, <3>1 DEF sel_of, OfType
      <4>2. QED
        BY <2>1, <4>1
    <3>2. CASE e[1] # "Node"
      <4>1. sel_of(sel, "Node") = {}
        BY <2>1, <3>2 DEF sel_of, OfType
      <4>2. ParentsOf(db, "Way", {}) = {}
        BY DEF ParentsOf, OfType
      <4>3. \A w \in OfType("Way", Elements) : e \notin Members(db, w)
        BY <1>1, <3>2, MemberFacts DEF OfType
      <4>4. ParentsOf(db, "Way", {e}) = {}
        BY <4>3 DEF ParentsOf
      <4>5. QED
        BY <2>1, <4>1, <4>2, <4>4
    <3>3. QED
      BY <3>1, <3>2
  <2> HIDE DEF e, t, P
  <2>3. Selected(insert_results(sel, P))
    BY <1>6, <2>2 DEF select_ways_from_nodes
  <2>4. (\A p : IsNext(req, "ways_from_nodes", p) => p = "drop") /\ ~IsLast(req, "ways_from_nodes")
    BY <1>1, <2>1, NodeWaysPlan
  <2>5. QED
    BY <1>1, <1>4, <1>6, <2>1, <2>3, <2>4, InsertCall, RankValues
<1>7. CASE At("relations_from_ways") /\ Selected(select_relations_from_ways(db, sel))
  <2>1. req.kind = "relations" /\ t = "Relation" /\ sel.elements = {e} /\ e[1] = "Way"
    BY <1>1, <1>3, <1>7, QueryKinds, RankValues
  <2>2. sel_of(sel, "Way") = {e}
    BY <2>1 DEF sel_of, OfType
  <2>3. ParentsOf(db, "Relation", sel_of(sel, "Way")) = P
    BY <2>1, <2>2
  <2>4. (\A p : IsNext(req, "relations_from_ways", p) => p = "drop") /\ ~IsLast(req, "relations_from_ways")
    BY <1>1, <2>1, WayRelationsPlan
  <2> HIDE DEF e, t, P
  <2>5. Selected(insert_results(sel, P))
    BY <1>7, <2>3 DEF select_relations_from_ways
  <2>6. QED
    BY <1>1, <1>4, <1>7, <2>1, <2>4, <2>5, InsertCall, RankValues
<1>8. CASE At("relations_from_nodes") /\ Selected(select_relations_from_nodes(db, sel))
  <2>1. req.kind = "relations" /\ t = "Relation" /\ sel.elements = {e} /\ e[1] = "Node"
    BY <1>1, <1>3, <1>8, QueryKinds, RankValues
  <2>2. sel_of(sel, "Node") = {e}
    BY <2>1 DEF sel_of, OfType
  <2>3. ParentsOf(db, "Relation", sel_of(sel, "Node")) = P
    BY <2>1, <2>2
  <2>4. (\A p : IsNext(req, "relations_from_nodes", p) => p = "drop") /\ ~IsLast(req, "relations_from_nodes")
    BY <1>1, <2>1, NodeRelationsPlan
  <2> HIDE DEF e, t, P
  <2>5. Selected(insert_results(sel, P))
    BY <1>8, <2>3 DEF select_relations_from_nodes
  <2>6. QED
    BY <1>1, <1>4, <1>8, <2>1, <2>4, <2>5, InsertCall, RankValues
<1>9. CASE At("parents_only") /\ Selected(select_relations_from_relations(db, sel, TRUE))
  <2>1. /\ req.kind = "relations" /\ t = "Relation" /\ sel.elements = {e} /\ e[1] = "Relation"
        /\ Visible(db, e)
    BY <1>1, <1>3, <1>9, QueryKinds, RankValues
  <2>2. sel_of(sel, "Relation") = {e}
    BY <2>1 DEF sel_of, OfType
  <2> DEFINE rest == [sel EXCEPT !.elements = @ \ {e}]
             s == insert_results(rest, P)
  <2>3. select_relations_from_relations(db, sel, TRUE) = s
    BY <2>1, <2>2 DEF select_relations_from_relations
  <2>4. rest = [elements |-> sel.elements \ {e}, editions |-> sel.editions,
                redactions |-> sel.redactions, cc |-> sel.cc]
    BY <1>1, Removed
  <2>5. sel.elements \ {e} = {}
    BY <2>1
  <2>6. Answer(db, req) = Latest(db, P)
    BY <2>1, AnswerOfKind
  <2>7. (\A p : ~IsNext(req, "parents_only", p))
    BY <1>1, <2>1, RelationRelationsPlan
  <2> HIDE DEF e, t, P, rest
  <2>8. s = [elements |-> rest.elements \cup P, editions |-> rest.editions,
             redactions |-> rest.redactions, cc |-> rest.cc]
    BY <2>4 DEF insert_results
  <2>9. Selected(s)
    BY <1>9, <2>3
  <2> HIDE DEF s
  <2>10. s.elements = P /\ s.editions = sel.editions /\ s.redactions = sel.redactions
    BY <2>4, <2>5, <2>8
  <2>11. QED
    BY <1>1, <1>9, <2>6, <2>7, <2>9, <2>10, GatherCall, RankValues
<1>10. QED
  BY <1>2, <1>6, <1>7, <1>8, <1>9 DEF current_queries

LEMMA DropCall == ASSUME ReadInv, Quiet, drop_elements PROVE CallInv'
<1> DEFINE e == the(req.ids)
           t == IF req.kind = "ways" THEN "Way" ELSE "Relation"
           P == ParentsOf(db, t, {e})
           D == OfType(TypeOf(req), Elements)
<1>1. At("drop") /\ Selected(drop(sel, TypeOf(req)))
  BY DEF drop_elements
<1>2. /\ req \in Requests /\ TodoInv /\ DatabaseInv /\ SelectionInv
      /\ req.kind = "ways" \/ (req.kind = "relations" /\ e[1] \in {"Node", "Way"})
  BY <1>1, QueryKinds, RankValues DEF ReadInv
<1>3. e \in Elements /\ TypeOf(req) = e[1] /\ e[1] \in {"Node", "Way", "Relation"}
  BY <1>2, TypeOfOne
<1>4. sel.elements = {e} \cup P /\ Visible(db, e)
  <2>1. Before(db, req, sel, "drop") /\ 4 < Rank("drop")
    BY <1>1, QuietAt, RankValues
  <2>2. ElementsBefore(db, req, "drop") = {e} \cup P
    BY DEF ElementsBefore
  <2>3. QED
    BY <1>2, <2>1, <2>2 DEF Before
<1>5. \A x \in P : x \in Elements /\ x[1] = t /\ e \in Members(db, x)
  BY DEF ParentsOf, OfType
<1>6. P = {} \/ e[1] # t
  BY <1>2, <1>3, <1>5, MemberFacts
<1>7. ({e} \cup P) \ D = P
  BY <1>3, <1>5, <1>6 DEF OfType
<1>8. drop(sel, TypeOf(req)) = [elements |-> sel.elements \ D, editions |-> sel.editions,
                                redactions |-> sel.redactions, cc |-> sel.cc]
  BY <1>2, Removed DEF drop
<1>9. Answer(db, req) = Latest(db, P)
  BY <1>2, <1>4, AnswerOfKind
<1>10. \A p : ~IsNext(req, "drop", p)
  BY <1>2, NodeWaysPlan, NodeRelationsPlan, WayRelationsPlan
<1> HIDE DEF e, t, P, D
<1> DEFINE s == drop(sel, TypeOf(req))
<1>11. s.elements = P /\ s.editions = sel.editions /\ s.redactions = sel.redactions /\ Selected(s)
  BY <1>1, <1>4, <1>7, <1>8
<1> HIDE DEF s
<1>12. QED
  BY <1>1, <1>2, <1>9, <1>10, <1>11, GatherCall, RankValues

(***************************************************************************)
(* Who is asking                                                           *)
(***************************************************************************)
\* The first query of a responder starts with nothing selected.
LEMMA FirstQuery ==
    ASSUME NEW r \in Requests
    PROVE  /\ ~IsLast(r, "authenticate") /\ ~IsLast(r, "get_roles_for_user")
           /\ \A p : IsNext(r, "authenticate", p) => p = "get_roles_for_user"
           /\ \A p : IsNext(r, "get_roles_for_user", p) =>
                 \/ p = "select"
                 \/ p = "nodes_from_bbox"
                 \/ p = "historical" /\ r.kind # "multi"
                 \/ p = "with_history"
                 \/ p = "changeset"
<1>1. /\ r.kind \in Kinds
      /\ r.kind = "full" => the(r.ids)[1] \in {"Way", "Relation"}
      /\ r.kind = "relations" => the(r.ids)[1] \in {"Node", "Way", "Relation"}
  BY ResponderOfKind, TypeOfOne
<1>2. CASE r.kind = "element"
  BY <1>2, ElementPlan
<1>3. CASE r.kind = "full"
  BY <1>1, <1>3, WayFullPlan, RelationFullPlan
<1>4. CASE r.kind = "ways"
  BY <1>4, NodeWaysPlan
<1>5. CASE r.kind = "relations"
  BY <1>1, <1>5, NodeRelationsPlan, WayRelationsPlan, RelationRelationsPlan
<1>6. CASE r.kind = "multi"
  BY <1>6, ListPlan
<1>7. CASE r.kind = "version"
  BY <1>7, VersionPlan
<1>8. CASE r.kind = "history"
  BY <1>8, HistoryPlan
<1>9. CASE r.kind = "map"
  BY <1>9, MapPlan
<1>10. CASE r.kind = "download"
  BY <1>10, DownloadPlan
<1>11. QED
  BY <1>1, <1>2, <1>3, <1>4, <1>5, <1>6, <1>7, <1>8, <1>9, <1>10 DEF Kinds

LEMMA NothingBefore ==
    ASSUME NEW d, NEW r, NEW s, NEW p,
           p \in {"authenticate", "get_roles_for_user", "select", "nodes_from_bbox", "with_history",
                  "changeset"} \/ (p = "historical" /\ r.kind # "multi"),
           r.kind \in {"full", "ways", "relations"} => Rank(p) <= 4
    PROVE  Before(d, r, s, p) <=> s.elements = {} /\ s.editions = {}
<1>1. ElementsBefore(d, r, p) = {}
  BY DEF ElementsBefore
<1>2. TypesBefore(p) = {}
  BY DEF TypesBefore
<1>3. {ed \in Answer(d, r) : ed[1][1] \in TypesBefore(p)} = {}
  BY <1>2
<1>4. r.kind \in {"full", "ways", "relations"} => ~(4 < Rank(p))
  BY RankType
<1>5. QED
  BY <1>1, <1>3, <1>4 DEF Before

LEMMA FirstBefore ==
    ASSUME NEW d, NEW r \in Requests, NEW s, s.elements = {}, s.editions = {}, NEW p,
           IsNext(r, "get_roles_for_user", p)
    PROVE  Before(d, r, s, p)
<1>1. p \in {"select", "nodes_from_bbox", "with_history", "changeset"} \/ (p = "historical" /\ r.kind # "multi")
  BY FirstQuery
<1>2. ASSUME r.kind \in {"full", "ways", "relations"} PROVE Rank(p) <= 4
  <2>1. /\ r.kind = "full" => the(r.ids)[1] \in {"Way", "Relation"}
        /\ r.kind = "relations" => the(r.ids)[1] \in {"Node", "Way", "Relation"}
    BY TypeOfOne
  <2>2. p = "select"
    BY <1>2, <2>1, WayFullPlan, RelationFullPlan, NodeWaysPlan, NodeRelationsPlan, WayRelationsPlan,
       RelationRelationsPlan
  <2>3. QED
    BY <2>2, RankValues
<1>3. QED
  BY <1>1, <1>2, NothingBefore

\* An anonymous request has no roles to look up.
LEMMA AnonymousCall ==
    ASSUME ReadInv, Quiet, At("authenticate"), req.token = "none", todo' = Tail(Tail(todo)),
           UNCHANGED <<database, request, sel, rows, out, status, failed>>
    PROVE  CallInv'
<1>1. /\ UNCHANGED <<db, found, req, sel, rows, out, status, failed>> /\ TodoInv /\ req \in Requests
      /\ status = 0
  BY DEF database, request, ReadInv, TodoInv, At
<1>2. Todo' = Todo \ {"authenticate", "get_roles_for_user"}
  BY <1>1, TodoTailTail
<1>3. Rank("authenticate") = 1 /\ Rank("get_roles_for_user") = 2
  BY RankValues
<1>4. /\ sel.elements = {} /\ sel.editions = {} /\ ConstructorInv
  BY <1>3, QuietAt, NothingBefore
<1>5. /\ \A b \in Plan(req) : 1 <= Rank(b) => b \in Todo
      /\ Todo \subseteq Plan(req)
  <2>1. Rank("authenticate") <= 21
    BY <1>3
  <2>2. QED
    BY <1>1, <1>3, <2>1, NextAhead
<1>6. \A b \in Plan(req) : 2 < Rank(b) => b \in Todo'
  BY <1>2, <1>3, <1>5, RankType
<1>7. \A a \in Todo' : 2 < Rank(a) /\ a \in Plan(req)
  BY <1>1, <1>2, <1>5, PlanRanks, RankType
<1>8. \A p : Ahead(p)' => IsNext(req, "get_roles_for_user", p)
  BY <1>3, <1>6, <1>7 DEF Ahead, IsNext
<1>9. ~Done'
  <2>1. ~IsLast(req, "get_roles_for_user")
    BY <1>1, FirstQuery
  <2>2. QED
    BY <1>3, <1>6, <2>1 DEF IsLast, Done
<1>10. rows = {} /\ out = {}
  <2>1. ~Done
    BY <1>1, <1>3, AtFacts DEF Done
  <2>2. QED
    BY <1>4, <2>1 DEF ConstructorInv
<1>11. Plan(req)' = Plan(req) /\ (Privileged' <=> Privileged) /\ ~Privileged /\ ~sel.redactions
  BY <1>1, Same DEF Privileged
<1>12. (\A p \in Plan(req) \ Todo : Cleared(db, req, p))'
  <2>1. ASSUME NEW p \in Plan(req), p \notin Todo' PROVE Cleared(db, req, p)
    <3>1. p \in {"authenticate", "get_roles_for_user"}
      BY <1>1, <1>6, <2>1, PlanRanks, RankType
    <3>2. QED
      BY <3>1 DEF Cleared, Refused
  <2>2. QED
    BY <1>1, <1>11, <2>1
<1>13. (\A p \in Todo : Ahead(p) => Before(db, req, sel, p))'
  BY <1>1, <1>4, <1>8, FirstBefore
<1>14. ConstructorInv'
  BY <1>1, <1>9, <1>10, <1>11, <1>12, <1>13 DEF ConstructorInv
<1>15. EditionsInv'
  <2>1. Chosen(db, sel) = {}
    BY <1>4, LatestNone DEF Chosen
  <2>2. QED
    BY <1>1, <1>10, <2>1 DEF EditionsInv
<1>16. QED
  BY <1>1, <1>14, <1>15 DEF CallInv

LEMMA AuthenticateCall == ASSUME ReadInv, Quiet, authenticate PROVE CallInv'
<1>1. At("authenticate") /\ Rank("authenticate") = 1 /\ req \in Requests
  BY RankValues DEF authenticate, ReadInv, TodoInv
<1>2. CASE req.token = "none" /\ todo' = Tail(Tail(todo))
           /\ UNCHANGED <<database, request, sel, rows, out, status, failed>>
  BY <1>1, <1>2, AnonymousCall
<1>3. CASE req.token \in {"unknown", "expired", "revoked"} /\ Throw(unauthorized)
  BY <1>3, RefusalStep DEF StatusOf, unauthorized, OK
<1>4. CASE req.token \notin {"unknown", "expired", "revoked"} /\ Selected(sel)
  <2>1. Cleared(db, req, "authenticate")
    BY <1>4 DEF Cleared, Refused
  <2>2. sel.elements = {} /\ sel.editions = {} /\ ConstructorInv
    BY <1>1, QuietAt, NothingBefore
  <2>3. \A p : IsNext(req, "authenticate", p) => Before(db, req, sel, p)
    BY <1>1, <2>2, FirstQuery, NothingBefore, RankValues
  <2>4. ~IsLast(req, "authenticate")
    BY <1>1, FirstQuery
  <2>5. "get_roles_for_user" \in Todo \ {"authenticate"}
    <3>1. "get_roles_for_user" \in Plan(req) /\ Rank("get_roles_for_user") = 2
      BY <1>1, PlanConstructor, RankValues
    <3>2. QED
      BY <1>1, <3>1, NextAhead DEF ReadInv
  <2>6. QED
    BY <1>1, <1>4, <2>1, <2>3, <2>4, <2>5, QueryStep
<1>5. QED
  BY <1>2, <1>3, <1>4 DEF authenticate

LEMMA RolesCall == ASSUME ReadInv, Quiet, get_roles_for_user PROVE CallInv'
<1> DEFINE s == set_redactions_visible(sel)
<1>1. At("get_roles_for_user") /\ Rank("get_roles_for_user") = 2 /\ req \in Requests /\ Selected(s)
  BY RankValues DEF get_roles_for_user, ReadInv, TodoInv
<1>2. s = [sel EXCEPT !.redactions = req.token = "moderator" /\ req.show_redactions]
  BY DEF set_redactions_visible
<1>3. s = [elements |-> sel.elements, editions |-> sel.editions,
           redactions |-> req.token = "moderator" /\ req.show_redactions, cc |-> sel.cc]
  BY <1>2, Same
<1> HIDE DEF s
<1>4. s.redactions <=> Privileged
  BY <1>3 DEF Privileged
<1>5. sel.elements = {} /\ sel.editions = {}
  BY <1>1, QuietAt, NothingBefore
<1>6. s.elements = {} /\ s.editions = {}
  BY <1>3, <1>5
<1>7. \A p : IsNext(req, "get_roles_for_user", p) => Before(db, req, s, p)
  BY <1>1, <1>6, FirstBefore
<1>8. ~IsLast(req, "get_roles_for_user") /\ Cleared(db, req, "get_roles_for_user")
  BY <1>1, FirstQuery DEF Cleared
<1>9. QED
  BY <1>1, <1>4, <1>7, <1>8, QueryStep

(***************************************************************************)
(* Elements that are asked for by id                                       *)
(***************************************************************************)
\* node/ways and the .../relations calls give up on an element.
LEMMA GiveUpCall ==
    ASSUME ReadInv, Quiet, NEW q \in {"select", "check_visibility"}, At(q), lenient(req), GiveUp,
           ~Visible(db, the(req.ids))
    PROVE  CallInv'
<1> DEFINE D == OfType(TypeOf(req), Elements)
           s == drop(sel, TypeOf(req))
<1>1. s = [elements |-> sel.elements \ D, editions |-> sel.editions,
           redactions |-> sel.redactions, cc |-> sel.cc]
  BY Removed DEF drop, ReadInv
<1>2. 2 < Rank(q) /\ Rank(q) <= 21 /\ req.kind \in {"ways", "relations"} /\ req \in Requests
  BY RankValues DEF lenient, ReadInv, TodoInv
<1>3. sel.elements \subseteq {the(req.ids)} /\ sel.editions = {}
  <2>1. sel.elements = ElementsBefore(db, req, q) /\ sel.editions = {}
    BY <1>2, QuietAt
  <2>2. QED
    BY <2>1 DEF ElementsBefore
<1>4. the(req.ids) \in D
  BY <1>2, TypeOfOne DEF OfType
<1>5. sel.elements \ D = {}
  BY <1>3, <1>4
<1> HIDE DEF D
<1>6. s.elements = {} /\ s.editions = {} /\ s.redactions = sel.redactions
  BY <1>1, <1>3, <1>5
<1>7. Chosen(db, s) = {}
  BY <1>6, LatestNone DEF Chosen
<1>8. Answer(db, req) = {}
  BY <1>2, AnswerOfKind
<1>9. \A p \in Plan(req) : 3 <= Rank(p) => Cleared(db, req, p)
  BY <1>2, RankValues DEF Cleared
<1>10. SkipToBody(s)
  BY DEF GiveUp
<1> HIDE DEF s
<1>11. QED
  BY <1>2, <1>6, <1>7, <1>8, <1>9, <1>10, SkipStep

LEMMA SelectCall == ASSUME ReadInv, Quiet, select PROVE CallInv'
<1> DEFINE X == {e \in req.ids : Exists(db, e)}
           s == select_ids(db, sel, req.ids)
           e == the(req.ids)
<1>1. At("select") /\ Rank("select") = 3 /\ req \in Requests /\ TodoInv /\ SelectionInv
  BY RankValues DEF select, ReadInv, TodoInv
<1>2. req.kind \in {"element", "full", "ways", "relations", "multi"}
  BY <1>1, QueryKinds
<1>3. /\ sel.elements = {} /\ sel.editions = {} /\ (sel.redactions <=> Privileged)
      /\ req.token \notin Refused
  BY <1>1, QuietAt, NothingBefore
<1>4. s.elements = X /\ s.editions = {} /\ s.redactions = sel.redactions
  BY <1>1, <1>3, Inserted DEF select_ids
<1>5. req.kind # "multi" => req.ids = {e}
  BY <1>1, <1>2, TypeOfOne
<1>6. \/ (s.elements # {} \/ req.kind = "multi") /\ Selected(s)
      \/ s.elements = {} /\ req.kind # "multi" /\ lenient(req) /\ GiveUp
      \/ s.elements = {} /\ req.kind # "multi" /\ ~lenient(req) /\ Throw(not_found)
  BY DEF select
<1>7. /\ req.kind = "full" => the(req.ids)[1] \in {"Way", "Relation"}
      /\ req.kind = "relations" => the(req.ids)[1] \in {"Node", "Way", "Relation"}
  BY <1>1, TypeOfOne
<1>8. /\ \A p : IsNext(req, "select", p) => p = IF req.kind = "multi" THEN "historical" ELSE "check_visibility"
      /\ ~IsLast(req, "select")
  BY <1>1, <1>2, <1>7, ElementPlan, WayFullPlan, RelationFullPlan, NodeWaysPlan, NodeRelationsPlan,
     WayRelationsPlan, RelationRelationsPlan, ListPlan
<1> HIDE DEF s
<1>9. (req.kind # "multi" /\ s.elements = {}) => ~Exists(db, e) /\ ~Visible(db, e)
  BY <1>4, <1>5 DEF Visible
<1>10. CASE (s.elements # {} \/ req.kind = "multi") /\ Selected(s)
  <2>1. req.kind # "multi" => X = {e} /\ Exists(db, e)
    BY <1>4, <1>5, <1>10
  <2> HIDE DEF e
  <2>2. Cleared(db, req, "select")
    BY <1>2, <2>1 DEF Cleared, e
  <2>3. ElementsBefore(db, req, "historical") = IF req.kind = "multi" THEN X ELSE {}
    BY DEF ElementsBefore
  <2>4. ElementsBefore(db, req, "check_visibility") = {e}
    BY DEF ElementsBefore, e
  <2>5. ASSUME NEW p, IsNext(req, "select", p) PROVE Before(db, req, s, p)
    <3>1. CASE req.kind = "multi"
      <4>1. p = "historical"
        BY <1>8, <2>5, <3>1
      <4>2. QED
        BY <1>4, <2>3, <3>1, <4>1 DEF Before
    <3>2. CASE req.kind # "multi"
      <4>1. p = "check_visibility" /\ Rank(p) = 4 /\ req.kind # "download"
        BY <1>2, <1>8, <2>5, <3>2, RankValues
      <4>2. QED
        BY <1>4, <2>1, <2>4, <3>2, <4>1 DEF Before, e
    <3>3. QED
      BY <3>1, <3>2
  <2>6. QED
    BY <1>1, <1>3, <1>4, <1>8, <1>10, <2>2, <2>5, QueryStep
<1>11. CASE s.elements = {} /\ req.kind # "multi" /\ lenient(req) /\ GiveUp
  BY <1>1, <1>9, <1>11, GiveUpCall
<1>12. CASE s.elements = {} /\ req.kind # "multi" /\ ~lenient(req) /\ Throw(not_found)
  <2>1. req.kind \in {"element", "full"}
    BY <1>2, <1>12 DEF lenient
  <2>2. StatusOf(db, req) = not_found
    BY <1>3, <1>9, <1>12, <2>1 DEF StatusOf, StatusOfCall, Refused
  <2>3. QED
    BY <1>12, <2>2, RefusalStep DEF not_found, OK
<1>13. QED
  BY <1>6, <1>10, <1>11, <1>12

LEMMA VisibilityCall == ASSUME ReadInv, Quiet, check_visibility PROVE CallInv'
<1> DEFINE e == the(req.ids)
<1>1. At("check_visibility") /\ Rank("check_visibility") = 4 /\ req \in Requests /\ TodoInv
  BY RankValues DEF check_visibility, ReadInv, TodoInv
<1>2. req.kind \in {"element", "full", "ways", "relations"}
  BY <1>1, QueryKinds
<1>3. /\ Before(db, req, sel, "check_visibility") /\ sel.editions = {} /\ (sel.redactions <=> Privileged)
      /\ req.token \notin Refused
  BY <1>1, <1>2, QuietAt
<1>4. sel.elements = {e} /\ Exists(db, e)
  BY <1>3 DEF Before, ElementsBefore
<1>5. \/ ~deleted(db, e) /\ Selected(sel)
      \/ deleted(db, e) /\ lenient(req) /\ GiveUp
      \/ deleted(db, e) /\ ~lenient(req) /\ Throw(gone)
  BY DEF check_visibility
<1>6. deleted(db, e) <=> ~Visible(db, e)
  BY <1>4 DEF deleted
<1>7. CASE ~deleted(db, e) /\ Selected(sel)
  <2>1. Visible(db, e) /\ Cleared(db, req, "check_visibility")
    BY <1>6, <1>7 DEF Cleared
  <2>2. /\ req.kind = "full" => e[1] \in {"Way", "Relation"}
        /\ req.kind = "relations" => e[1] \in {"Node", "Way", "Relation"}
        /\ req.ids = {e}
    BY <1>1, <1>2, TypeOfOne
  <2>3. \A p : IsNext(req, "check_visibility", p) =>
            /\ req.kind # "element"
            /\ \/ p = "nodes_from_way_nodes" /\ req.kind = "full" /\ e[1] = "Way"
               \/ p = "nodes_from_relations"
               \/ p = "ways_from_nodes" /\ req.kind = "ways"
               \/ p = "relations_from_nodes" /\ req.kind = "relations"
               \/ p = "relations_from_ways" /\ req.kind = "relations"
               \/ p = "parents_only"
    BY <1>1, <1>2, <2>2, ElementPlan, WayFullPlan, RelationFullPlan, NodeWaysPlan, NodeRelationsPlan,
       WayRelationsPlan, RelationRelationsPlan
  <2>4. req.kind # "element" => ~IsLast(req, "check_visibility")
    BY <1>1, <1>2, <2>2, WayFullPlan, RelationFullPlan, NodeWaysPlan, NodeRelationsPlan,
       WayRelationsPlan, RelationRelationsPlan
  <2>5. ASSUME NEW p, IsNext(req, "check_visibility", p) PROVE Before(db, req, sel, p)
    <3>1. ElementsBefore(db, req, p) = {e}
      <4>1. CASE p = "nodes_from_way_nodes" /\ req.kind = "full" /\ e[1] = "Way"
        BY <4>1 DEF ElementsBefore
      <4>2. CASE p = "nodes_from_relations" \/ p = "parents_only"
        BY <4>2 DEF ElementsBefore
      <4>3. CASE p = "ways_from_nodes" /\ req.kind = "ways"
        BY <4>3 DEF ElementsBefore
      <4>4. CASE p = "relations_from_nodes" /\ req.kind = "relations"
        BY <4>4 DEF ElementsBefore
      <4>5. CASE p = "relations_from_ways" /\ req.kind = "relations"
        BY <4>5 DEF ElementsBefore
      <4>6. QED
        BY <2>3, <2>5, <4>1, <4>2, <4>3, <4>4, <4>5
    <3>2. p # "check_visibility" /\ req.kind # "download"
      BY <1>2, <2>3, <2>5
    <3>3. QED
      BY <1>3, <1>4, <2>1, <3>1, <3>2 DEF Before
  <2>6. IsLast(req, "check_visibility") => Chosen(db, sel) = Answer(db, req)
    <3>1. req.kind = "element" => Answer(db, req) = Latest(db, {e})
      <4>1. req.kind = "element" => Answer(db, req) = Latest(db, req.ids)
        BY AnswerOfKind
      <4>2. QED
        BY <2>2, <4>1
    <3>2. QED
      BY <1>3, <1>4, <2>4, <3>1 DEF Chosen
  <2>7. QED
    BY <1>1, <1>3, <1>7, <2>1, <2>5, <2>6, QueryStep
<1>8. CASE deleted(db, e) /\ lenient(req) /\ GiveUp
  BY <1>1, <1>6, <1>8, GiveUpCall
<1>9. CASE deleted(db, e) /\ ~lenient(req) /\ Throw(gone)
  <2>1. req.kind \in {"element", "full"}
    BY <1>2, <1>9 DEF lenient
  <2>2. StatusOf(db, req) = gone
    BY <1>3, <1>4, <1>6, <1>9, <2>1 DEF StatusOf, StatusOfCall, Refused
  <2>3. QED
    BY <1>9, <2>2, RefusalStep DEF gone, OK
<1>10. QED
  BY <1>5, <1>7, <1>8, <1>9

(***************************************************************************)
(* The nodes of the box                                                    *)
(***************************************************************************)
LEMMA BBoxCall == ASSUME ReadInv, Quiet, nodes_from_bbox PROVE CallInv'
<1> DEFINE I == visible_node_in_bbox(db)
<1>1. At("nodes_from_bbox") /\ Rank("nodes_from_bbox") = 5 /\ req \in Requests /\ TodoInv /\ SelectionInv
  BY RankValues DEF nodes_from_bbox, ReadInv, TodoInv
<1>2. req.kind = "map"
  BY <1>1, QueryKinds
<1>3. /\ sel.elements = {} /\ sel.editions = {} /\ (sel.redactions <=> Privileged)
      /\ req.token \notin Refused
  BY <1>1, <1>2, QuietAt, NothingBefore
<1>4. \/ Cardinality(I) > map_max_nodes /\ Throw(bad_request)
      \/ ~(Cardinality(I) > map_max_nodes) /\ I = {} /\ SkipToBody(sel)
      \/ ~(Cardinality(I) > map_max_nodes) /\ I # {} /\ Selected(insert_results(sel, I))
  BY DEF nodes_from_bbox
<1>5. CASE Cardinality(I) > map_max_nodes /\ Throw(bad_request)
  <2>1. StatusOf(db, req) = bad_request
    BY <1>2, <1>3, <1>5 DEF StatusOf, StatusOfCall, Refused
  <2>2. QED
    BY <1>5, <2>1, RefusalStep DEF bad_request, OK
<1>6. CASE ~(Cardinality(I) > map_max_nodes) /\ I = {} /\ SkipToBody(sel)
  <2>1. \A t : ParentsOf(db, t, {}) = {}
    BY DEF ParentsOf
  <2>2. MapWays(db) = {}
    BY <1>6, <2>1 DEF MapWays
  <2>3. MapElements(db) = {}
    BY <1>6, <2>2 DEF MapElements
  <2>4. MapCall(db) = {}
    BY <2>1, <2>3, MapCallParts
  <2>5. Answer(db, req) = {}
    <3>1. Answer(db, req) = Latest(db, MapCall(db))
      BY <1>2, AnswerOfKind
    <3>2. QED
      BY <2>4, <3>1, LatestNone
  <2>6. Chosen(db, sel) = {}
    BY <1>3, LatestNone DEF Chosen
  <2>7. \A p \in Plan(req) : 3 <= Rank(p) => Cleared(db, req, p)
    BY <1>2, <1>6, RankValues DEF Cleared
  <2>8. QED
    BY <1>1, <1>6, <2>5, <2>6, <2>7, SkipStep
<1>7. CASE ~(Cardinality(I) > map_max_nodes) /\ I # {} /\ Selected(insert_results(sel, I))
  <2>1. Cleared(db, req, "nodes_from_bbox")
    BY <1>7 DEF Cleared
  <2>2. (\A p : IsNext(req, "nodes_from_bbox", p) => p = "ways_from_nodes") /\ ~IsLast(req, "nodes_from_bbox")
    BY <1>1, <1>2, MapPlan
  <2>3. ElementsBefore(db, req, "ways_from_nodes") = I
    BY <1>2 DEF ElementsBefore
  <2> DEFINE s == insert_results(sel, I)
  <2>4. s.elements = sel.elements \cup I /\ s.editions = sel.editions /\ s.redactions = sel.redactions
    BY <1>1, Inserted
  <2>5. Selected(s)
    BY <1>7
  <2> HIDE DEF s, I
  <2>6. s.elements = I /\ s.editions = {}
    BY <1>3, <2>4
  <2>7. Before(db, req, s, "ways_from_nodes")
    BY <1>2, <2>3, <2>6 DEF Before
  <2>8. QED
    BY <1>1, <1>3, <2>1, <2>2, <2>4, <2>5, <2>7, QueryStep
<1>8. QED
  BY <1>4, <1>5, <1>6, <1>7

(***************************************************************************)
(* Editions                                                                *)
(***************************************************************************)
LEMMA ReadableFacts ==
    ASSUME ReadInv, sel.redactions <=> Privileged, NEW ed
    PROVE  ed \in ReadableEditions(db, req) <=>
               \E e \in Elements : ed \in {e} \X DOMAIN db[e] /\ Readable(db, sel, ed)
BY DEF ReadableEditions, Readable, Privileged

\* A subset with as many members as a finite set is that set.
LEMMA AllSelected ==
    ASSUME NEW S, NEW T, IsFiniteSet(S), IsFiniteSet(T), NEW X, X \subseteq S, NEW Y, Y \subseteq T
    PROVE  /\ Cardinality(X) + Cardinality(Y) = Cardinality(S) + Cardinality(T) => X = S /\ Y = T
           /\ (X = S /\ Y = T) => Cardinality(X) + Cardinality(Y) = Cardinality(S) + Cardinality(T)
<1>1. /\ Cardinality(X) \in Nat /\ Cardinality(Y) \in Nat /\ Cardinality(S) \in Nat
      /\ Cardinality(T) \in Nat
  BY FS_Subset, FS_CardinalityType
<1>2. /\ Cardinality(X) <= Cardinality(S) /\ (Cardinality(X) = Cardinality(S) => X = S)
  BY <1>1, FS_Subset
<1>3. /\ Cardinality(Y) <= Cardinality(T) /\ (Cardinality(Y) = Cardinality(T) => Y = T)
  BY <1>1, FS_Subset
<1>4. Cardinality(X) + Cardinality(Y) = Cardinality(S) + Cardinality(T) =>
          Cardinality(X) = Cardinality(S) /\ Cardinality(Y) = Cardinality(T)
  BY <1>1, <1>2, <1>3
<1>5. QED
  BY <1>2, <1>3, <1>4

LEMMA HistoricalCall == ASSUME ReadInv, Quiet, historical PROVE CallInv'
<1> DEFINE X == {x \in req.ids : Exists(db, x)}
           Y == {ed \in req.eds : Recorded(db, ed) /\ Readable(db, sel, ed)}
           s == select_historical(db, sel, req.eds)
<1>1. At("historical") /\ Rank("historical") = 16 /\ req \in Requests /\ TodoInv /\ SelectionInv
  BY RankValues DEF historical, ReadInv, TodoInv
<1>2. req.kind \in {"multi", "version"}
  BY <1>1, QueryKinds
<1>3. /\ sel.elements = ElementsBefore(db, req, "historical") /\ sel.editions = {}
      /\ (sel.redactions <=> Privileged) /\ req.token \notin Refused
  BY <1>1, <1>2, QuietAt
<1>4. /\ IsFiniteSet(req.ids) /\ IsFiniteSet(req.eds) /\ req.eds \subseteq Editions
      /\ req.kind = "version" => req.ids = {}
  BY <1>1, RequestsAssumption DEF Request
<1>5. sel.elements = X
  <2>1. CASE req.kind = "multi"
    BY <1>3, <2>1 DEF ElementsBefore
  <2>2. CASE req.kind = "version"
    BY <1>3, <1>4, <2>2 DEF ElementsBefore
  <2>3. QED
    BY <1>2, <2>1, <2>2
<1>6. s.elements = sel.elements /\ s.editions = sel.editions \cup Y /\ s.redactions = sel.redactions
  BY <1>1, Inserted DEF select_historical
<1>7. \A ed \in req.eds : ed \in ReadableEditions(db, req) <=> ed \in Y
  <2> SUFFICES ASSUME NEW ed \in req.eds
               PROVE  ed \in ReadableEditions(db, req) <=> Recorded(db, ed) /\ Readable(db, sel, ed)
    OBVIOUS
  <2>1. ed[1] \in Elements /\ ed = <<ed[1], ed[2]>>
    BY <1>4 DEF Editions
  <2>2. (\E e \in Elements : ed \in {e} \X DOMAIN db[e]) <=> ed[2] \in DOMAIN db[ed[1]]
    BY <2>1
  <2>3. QED
    BY <1>3, <2>2, ReadableFacts DEF Recorded
<1>8. \/ num_selected(s) = Cardinality(req.ids) + Cardinality(req.eds) /\ Selected(s)
      \/ num_selected(s) # Cardinality(req.ids) + Cardinality(req.eds) /\ Throw(not_found)
  BY DEF historical
<1>9. X \subseteq req.ids /\ Y \subseteq req.eds
  OBVIOUS
<1>10. /\ X = req.ids <=> \A x \in req.ids : Exists(db, x)
       /\ Y = req.eds <=> req.eds \subseteq ReadableEditions(db, req)
  BY <1>7
<1> HIDE DEF X, Y, s
<1>11. s.elements = X /\ s.editions = Y
  BY <1>3, <1>5, <1>6
<1>12. num_selected(s) = Cardinality(X) + Cardinality(Y)
  BY <1>11 DEF num_selected
<1>13. num_selected(s) = Cardinality(req.ids) + Cardinality(req.eds) <=> X = req.ids /\ Y = req.eds
  BY <1>4, <1>9, <1>12, AllSelected
<1>14. CASE num_selected(s) = Cardinality(req.ids) + Cardinality(req.eds) /\ Selected(s)
  <2>1. X = req.ids /\ Y = req.eds
    BY <1>13, <1>14
  <2>2. Cleared(db, req, "historical")
    BY <1>10, <2>1 DEF Cleared
  <2>3. \A p : ~IsNext(req, "historical", p)
    BY <1>1, <1>2, ListPlan, VersionPlan
  <2>4. Chosen(db, s) = Latest(db, req.ids) \cup req.eds
    BY <1>11, <2>1 DEF Chosen
  <2>5. Answer(db, req) = Latest(db, req.ids) \cup req.eds
    <3>1. CASE req.kind = "multi"
      BY <3>1, AnswerOfKind
    <3>2. CASE req.kind = "version"
      <4>1. Answer(db, req) = req.eds
        BY <3>2, AnswerOfKind
      <4>2. Latest(db, req.ids) = {}
        BY <1>4, <3>2, LatestNone
      <4>3. QED
        BY <4>1, <4>2
    <3>3. QED
      BY <1>2, <3>1, <3>2
  <2>6. QED
    BY <1>1, <1>3, <1>6, <1>14, <2>2, <2>3, <2>4, <2>5, QueryStep
<1>15. CASE num_selected(s) # Cardinality(req.ids) + Cardinality(req.eds) /\ Throw(not_found)
  <2>1. ~((\A x \in req.ids : Exists(db, x)) /\ req.eds \subseteq ReadableEditions(db, req))
    BY <1>10, <1>13, <1>15
  <2>2. StatusOf(db, req) = not_found
    BY <1>2, <1>3, <2>1 DEF StatusOf, StatusOfCall, Refused
  <2>3. QED
    BY <1>15, <2>2, RefusalStep DEF not_found, OK
<1>16. QED
  BY <1>8, <1>14, <1>15

LEMMA WithHistoryCall == ASSUME ReadInv, Quiet, with_history PROVE CallInv'
<1> DEFINE e == the(req.ids)
           Y == {ed \in {e} \X DOMAIN db[e] : Readable(db, sel, ed)}
           s == select_with_history(db, sel, e)
<1>1. At("with_history") /\ Rank("with_history") = 17 /\ req \in Requests /\ TodoInv /\ SelectionInv
  BY RankValues DEF with_history, ReadInv, TodoInv
<1>2. req.kind = "history" /\ e \in Elements
  <2>1. req.kind = "history"
    BY <1>1, QueryKinds
  <2>2. QED
    BY <1>1, <2>1, TypeOfOne
<1>3. /\ sel.elements = {} /\ sel.editions = {} /\ (sel.redactions <=> Privileged)
      /\ req.token \notin Refused
  BY <1>1, <1>2, QuietAt, NothingBefore
<1>4. s.elements = sel.elements /\ s.editions = sel.editions \cup Y /\ s.redactions = sel.redactions
  BY <1>1, Inserted DEF select_with_history
<1>5. Answer(db, req) = Y
  <2>1. Answer(db, req) = {ed \in ReadableEditions(db, req) : ed[1] = e}
    BY <1>2, AnswerOfKind
  <2>2. \A ed : (ed \in ReadableEditions(db, req) /\ ed[1] = e) <=> ed \in Y
    <3> SUFFICES ASSUME NEW ed
                 PROVE  (ed \in ReadableEditions(db, req) /\ ed[1] = e) <=> ed \in Y
      OBVIOUS
    <3>1. ed \in ReadableEditions(db, req) <=>
              \E x \in Elements : ed \in {x} \X DOMAIN db[x] /\ Readable(db, sel, ed)
      BY <1>3, ReadableFacts
    <3>2. \A x : ed \in {x} \X DOMAIN db[x] => ed[1] = x
      OBVIOUS
    <3>3. QED
      BY <1>2, <3>1, <3>2
  <2>3. QED
    BY <2>1, <2>2
<1>6. \/ s.editions # {} /\ Selected(s)
      \/ s.editions = {} /\ Throw(not_found)
  BY DEF with_history
<1>7. \A p : ~IsNext(req, "with_history", p)
  BY <1>1, <1>2, HistoryPlan
<1> HIDE DEF Y, s, e
<1>8. s.elements = {} /\ s.editions = Answer(db, req)
  BY <1>3, <1>4, <1>5
<1>9. CASE s.editions # {} /\ Selected(s)
  <2>1. Cleared(db, req, "with_history")
    BY <1>8, <1>9 DEF Cleared
  <2>2. Chosen(db, s) = Answer(db, req)
    BY <1>8, LatestNone DEF Chosen
  <2>3. QED
    BY <1>1, <1>3, <1>4, <1>7, <1>9, <2>1, <2>2, QueryStep
<1>10. CASE s.editions = {} /\ Throw(not_found)
  <2>1. StatusOf(db, req) = not_found
    BY <1>2, <1>3, <1>8, <1>10 DEF StatusOf, StatusOfCall, Refused
  <2>2. QED
    BY <1>10, <2>1, RefusalStep DEF not_found, OK
<1>11. QED
  BY <1>6, <1>9, <1>10

(***************************************************************************)
(* Changeset downloads                                                     *)
(***************************************************************************)
LEMMA ChangesetCall == ASSUME ReadInv, Quiet, changeset PROVE CallInv'
<1>1. At("changeset") /\ Rank("changeset") = 18 /\ req \in Requests /\ TodoInv
  BY RankValues DEF changeset, ReadInv, TodoInv
<1>2. req.kind = "download"
  BY <1>1, QueryKinds
<1>3. /\ sel.elements = {} /\ sel.editions = {} /\ (sel.redactions <=> Privileged)
      /\ req.token \notin Refused
  BY <1>1, <1>2, QuietAt, NothingBefore
<1>4. CASE req.changeset \in Changesets /\ Selected(sel)
  <2>1. Cleared(db, req, "changeset")
    BY <1>4 DEF Cleared
  <2>2. /\ \A p : IsNext(req, "changeset", p) => p = "nodes_by_changeset"
        /\ ~IsLast(req, "changeset")
    BY <1>1, <1>2, DownloadPlan
  <2>3. TypesBefore("nodes_by_changeset") = {} /\ ElementsBefore(db, req, "nodes_by_changeset") = {}
    BY DEF TypesBefore, ElementsBefore
  <2>4. Before(db, req, sel, "nodes_by_changeset")
    BY <1>2, <1>3, <2>3 DEF Before
  <2>5. QED
    BY <1>1, <1>3, <1>4, <2>1, <2>2, <2>4, QueryStep
<1>5. CASE req.changeset \notin Changesets /\ Throw(not_found)
  <2>1. StatusOf(db, req) = not_found
    BY <1>2, <1>3, <1>5 DEF StatusOf, StatusOfCall, Refused
  <2>2. QED
    BY <1>5, <2>1, RefusalStep DEF not_found, OK
<1>6. QED
  BY <1>4, <1>5 DEF changeset

LEMMA ByChangesetCall ==
    ASSUME ReadInv, Quiet, changeset_queries
    PROVE  CallInv'
<1> DEFINE A == Answer(db, req)
           Of(t) == {ed \in A : ed[1][1] = t}
<1>1. PICK q, t : /\ \/ q = "nodes_by_changeset" /\ t = "Node"
                     \/ q = "ways_by_changeset" /\ t = "Way"
                     \/ q = "relations_by_changeset" /\ t = "Relation"
                  /\ At(q) /\ by_changeset(t)
  BY DEF changeset_queries
<1>2. /\ 2 < Rank(q) /\ 3 <= Rank(q) /\ Rank(q) <= 21 /\ req \in Requests /\ TodoInv /\ SelectionInv
  BY <1>1, RankValues DEF ReadInv, TodoInv
<1>3. req.kind = "download"
  BY <1>1, <1>2, QueryKinds
<1>4. /\ Before(db, req, sel, q) /\ (sel.redactions <=> Privileged)
  BY <1>1, <1>2, QuietAt
<1>5. sel.elements = {} /\ sel.editions = {ed \in A : ed[1][1] \in TypesBefore(q)}
  <2>1. ElementsBefore(db, req, q) = {}
    BY <1>1 DEF ElementsBefore
  <2>2. QED
    BY <1>3, <1>4, <2>1 DEF Before
<1> DEFINE Y == {ed \in UNION {{e} \X DOMAIN db[e] : e \in OfType(t, Elements)} :
                    RowOf(db, ed).changeset = req.changeset /\ Readable(db, sel, ed)}
           s == select_by_changeset(db, sel, t, req.changeset)
<1>6. s.elements = sel.elements /\ s.editions = sel.editions \cup Y /\ s.redactions = sel.redactions
  BY <1>2, Inserted DEF select_by_changeset
<1>7. Selected(s)
  BY <1>1 DEF by_changeset
<1>8. A = {ed \in ReadableEditions(db, req) : RowOf(db, ed).changeset = req.changeset}
  BY <1>3, AnswerOfKind
<1>9. \A ed : ed \in ReadableEditions(db, req) <=>
                 \E x \in Elements : ed \in {x} \X DOMAIN db[x] /\ Readable(db, sel, ed)
  BY <1>4, ReadableFacts
<1>10. \A ed, x : ed \in {x} \X DOMAIN db[x] => ed[1] = x
  OBVIOUS
<1>11. \A ed \in A : ed[1][1] \in {"Node", "Way", "Relation"}
  BY <1>8, <1>9, <1>10, ElementsAssumption
<1>12. Y = Of(t)
  <2>1. ASSUME NEW ed PROVE ed \in Y <=> ed \in Of(t)
    <3>1. ed \in Y <=> /\ \E x \in Elements : x[1] = t /\ ed \in {x} \X DOMAIN db[x]
                       /\ RowOf(db, ed).changeset = req.changeset /\ Readable(db, sel, ed)
      BY DEF OfType
    <3>2. ed \in Of(t) <=> /\ \E x \in Elements : ed \in {x} \X DOMAIN db[x] /\ Readable(db, sel, ed)
                           /\ RowOf(db, ed).changeset = req.changeset /\ ed[1][1] = t
      BY <1>8, <1>9
    <3>3. QED
      BY <1>10, <3>1, <3>2
  <2>2. QED
    BY <2>1
<1> HIDE DEF A, Y, s
<1>13. /\ s.elements = {} /\ s.editions = {ed \in A : ed[1][1] \in TypesBefore(q) \cup {t}}
  BY <1>5, <1>6, <1>12
<1>14. Cleared(db, req, q)
  BY <1>1 DEF Cleared
<1>15. /\ \A p : IsNext(req, q, p) => \/ p = "ways_by_changeset" /\ q = "nodes_by_changeset"
                                      \/ p = "relations_by_changeset" /\ q = "ways_by_changeset"
       /\ IsLast(req, q) => q = "relations_by_changeset"
  BY <1>1, <1>2, <1>3, DownloadPlan
<1>16. /\ TypesBefore("nodes_by_changeset") = {} /\ TypesBefore("ways_by_changeset") = {"Node"}
       /\ TypesBefore("relations_by_changeset") = {"Node", "Way"}
  BY DEF TypesBefore
<1>17. ASSUME NEW p, IsNext(req, q, p) PROVE Before(db, req, s, p)
  <2>1. TypesBefore(p) = TypesBefore(q) \cup {t}
    BY <1>1, <1>15, <1>16, <1>17
  <2>2. ElementsBefore(db, req, p) = {} /\ p # "check_visibility"
    BY <1>15, <1>17 DEF ElementsBefore
  <2>3. QED
    BY <1>3, <1>13, <2>1, <2>2 DEF Before, A
<1>18. IsLast(req, q) => Chosen(db, s) = Answer(db, req)
  <2>1. ASSUME q = "relations_by_changeset" PROVE s.editions = A
    <3>1. TypesBefore(q) \cup {t} = {"Node", "Way", "Relation"}
      BY <1>1, <1>16, <2>1
    <3>2. QED
      BY <1>11, <1>13, <3>1
  <2>2. QED
    BY <1>13, <1>15, <2>1, LatestNone DEF Chosen, A
<1>19. QED
  BY <1>1, <1>2, <1>4, <1>6, <1>7, <1>14, <1>17, <1>18, QueryStep

(***************************************************************************)
(* Every step                                                              *)
(***************************************************************************)
\* A database that differs from the one the request found stays different.
LEMMA CommitCall ==
    ASSUME ReadInv, CallInv, upload \/ redact \/ rename
    PROVE  CallInv'
<1> USE DEF request
<1>1. db \in Databases /\ found \in Databases /\ Extends(db, found)
  BY DEF ReadInv, DatabaseInv, Sound, Databases
<1>2. found' = found
  BY DEF upload, redact, rename
<1>3. ASSUME upload PROVE db' # found
  <2>1. PICK e \in Elements : \E row \in NewRow(e) : db' = [db EXCEPT ![e] = Append(@, row)]
    BY <1>3 DEF upload
  <2>2. PICK row \in NewRow(e) : db' = [db EXCEPT ![e] = Append(@, row)]
    BY <2>1
  <2>3. row \in Row /\ db[e] \in Seq(Row)
    BY <1>1, RowsOf, OpenChangesetsAssumption, RefSetsAssumption DEF NewRow, Row
  <2>4. db'[e] = Append(db[e], row)
    BY <1>1, <2>2 DEF Databases
  <2>5. Len(db'[e]) = Len(db[e]) + 1
    BY <2>3, <2>4, AppendProperties
  <2>6. Len(found[e]) <= Len(db[e]) /\ Len(found[e]) \in Nat /\ Len(db[e]) \in Nat
    BY <1>1, RowsOf DEF Extends
  <2>7. Len(db'[e]) # Len(found[e])
    BY <2>5, <2>6
  <2>8. QED
    BY <2>7
<1>4. ASSUME redact PROVE db' # found
  <2>1. PICK e \in Elements : \E v \in 1..(Len(db[e]) - 1) :
            ~db[e][v].redacted /\ db' = [db EXCEPT ![e][v].redacted = TRUE]
    BY <1>4 DEF redact
  <2>2. PICK v \in 1..(Len(db[e]) - 1) :
            ~db[e][v].redacted /\ db' = [db EXCEPT ![e][v].redacted = TRUE]
    BY <2>1
  <2>3. /\ db[e] \in Seq(Row) /\ Len(db[e]) \in Nat /\ DOMAIN db[e] = 1..Len(db[e])
        /\ v \in DOMAIN db[e] /\ db[e][v] \in Row
    BY <1>1, RowsOf
  <2>4. db'[e] = [db[e] EXCEPT ![v] = [db[e][v] EXCEPT !.redacted = TRUE]]
    BY <1>1, <2>2 DEF Databases
  <2>5. db'[e][v].redacted /\ Len(db'[e]) = Len(db[e])
    <3> DEFINE row == [db[e][v] EXCEPT !.redacted = TRUE]
    <3>1. row \in Row /\ row.redacted
      BY <2>3 DEF Row
    <3>2. db'[e] = [db[e] EXCEPT ![v] = row]
      BY <2>4
    <3> HIDE DEF row
    <3>3. db'[e][v] = row
      BY <2>3, <3>2
    <3>4. Len([db[e] EXCEPT ![v] = row]) = Len(db[e])
      BY <2>3, <3>1, ExceptSeq
    <3>5. QED
      BY <3>1, <3>2, <3>3, <3>4
  <2>6. ASSUME db' = found PROVE FALSE
    <3>1. v \in DOMAIN found[e] /\ found[e][v].redacted
      BY <1>1, <2>3, <2>5, <2>6, RowsOf
    <3>2. db[e][v].redacted
      BY <1>1, <3>1 DEF Extends
    <3>3. QED
      BY <2>2, <3>2
  <2>7. QED
    BY <2>6
<1>5. ASSUME rename PROVE CallInv'
  <2>1. UNCHANGED <<db, found, req, todo, sel, rows, out, status, failed>>
    BY <1>5 DEF rename
  <2>2. QED
    BY <2>1 DEF CallInv, ConstructorInv, EditionsInv, AnsweredInv, Plan, Todo, Ahead, Done, Privileged,
                EditionsOut
<1>6. QED
  BY <1>2, <1>3, <1>4, <1>5 DEF CallInv

LEMMA FreshCall == Fresh => CallInv
<1> SUFFICES ASSUME Fresh
             PROVE  CallInv
  OBVIOUS
<1>1. req \in Requests /\ sel.elements = {} /\ sel.editions = {} /\ rows = {} /\ out = {} /\ status = 0
  BY DEF Fresh, EmptySelection
<1>2. Todo = Plan(req)
  BY <1>1, TodoStart DEF Fresh, Todo
<1>3. "authenticate" \in Todo /\ "get_roles_for_user" \in Todo
  BY <1>1, <1>2, PlanConstructor
<1>4. \A p \in Todo : Ahead(p) => Before(db, req, sel, p)
  <2> SUFFICES ASSUME NEW p \in Todo, Ahead(p) PROVE Before(db, req, sel, p)
    OBVIOUS
  <2>1. Rank(p) <= 1
    BY <1>3, RankValues DEF Ahead
  <2>2. p = "authenticate"
    BY <1>1, <1>2, <2>1, PlanRanks, RankValues, RankType
  <2>3. QED
    BY <1>1, <2>2, NothingBefore, RankValues
<1>5. ~Done
  BY <1>3, RankValues DEF Done
<1>6. Chosen(db, sel) = {}
  BY <1>1, LatestNone DEF Chosen
<1>7. ConstructorInv /\ EditionsInv
  BY <1>1, <1>2, <1>3, <1>4, <1>5, <1>6 DEF ConstructorInv, EditionsInv
<1>8. QED
  BY <1>1, <1>7 DEF CallInv

\* A query while nothing has been committed.
LEMMA QuietStep ==
    ASSUME ReadInv, Quiet,
           \/ authenticate \/ get_roles_for_user \/ select \/ check_visibility \/ nodes_from_bbox
           \/ current_queries \/ drop_elements \/ historical \/ with_history \/ changeset
           \/ changeset_queries \/ lookup \/ fetch \/ write \/ finish
    PROVE  CallInv'
<1>1. CASE current_queries
  <2>1. req \in Requests /\ TodoInv
    BY DEF ReadInv, TodoInv
  <2>2. PICK q \in {"nodes_from_relations", "ways_from_nodes", "ways_from_relations",
                    "relations_from_ways", "nodes_from_way_nodes", "relations_from_nodes",
                    "relations_from_relations", "parents_only", "members_of_relations"} : At(q)
    BY <1>1 DEF current_queries
  <2>3. 3 <= Rank(q) /\ Rank(q) <= 21
    BY RankValues
  <2>4. /\ req.kind \in {"map", "full", "ways", "relations"}
        /\ req.kind = "full" => the(req.ids)[1] \in {"Way", "Relation"}
    BY <2>1, <2>2, <2>3, QueryKinds
  <2>5. QED
    BY <1>1, <2>4, MapQueries, FullWayQueries, FullRelationQueries, ParentQueries
<1>2. CASE authenticate \/ get_roles_for_user \/ select \/ check_visibility \/ nodes_from_bbox
  BY <1>2, AuthenticateCall, RolesCall, SelectCall, VisibilityCall, BBoxCall
<1>3. CASE drop_elements \/ historical \/ with_history \/ changeset \/ changeset_queries
  BY <1>3, DropCall, HistoricalCall, WithHistoryCall, ChangesetCall, ByChangesetCall
<1>4. CASE lookup \/ fetch \/ write \/ finish
  BY <1>4, LookupCall, FetchCall, WriteCall, FinishCall
<1>5. QED
  BY <1>1, <1>2, <1>3, <1>4

\* Queries neither commit nor fail, and run while the request is processed.
LEMMA QueryKeeps ==
    ASSUME \/ authenticate \/ get_roles_for_user \/ select \/ check_visibility \/ nodes_from_bbox
           \/ current_queries \/ drop_elements \/ historical \/ with_history \/ changeset
           \/ changeset_queries \/ lookup \/ fetch \/ write \/ finish
    PROVE  UNCHANGED <<db, found, failed>> /\ status = 0
<1> USE DEF database, request, At, Selected, Throw, SkipToBody, GiveUp
<1>1. CASE authenticate \/ get_roles_for_user
  BY <1>1 DEF authenticate, get_roles_for_user
<1>2. CASE select \/ check_visibility
  BY <1>2 DEF select, check_visibility
<1>3. CASE nodes_from_bbox \/ drop_elements
  BY <1>3 DEF nodes_from_bbox, drop_elements
<1>4. CASE current_queries
  BY <1>4 DEF current_queries
<1>5. CASE historical \/ with_history \/ changeset
  BY <1>5 DEF historical, with_history, changeset
<1>6. CASE changeset_queries
  BY <1>6 DEF changeset_queries, by_changeset
<1>7. CASE lookup \/ fetch \/ write \/ finish
  BY <1>7 DEF lookup, fetch, write, finish, Writing
<1>8. QED
  BY <1>1, <1>2, <1>3, <1>4, <1>5, <1>6, <1>7

\* When nothing is committed while a request is served, its queries, run in the
\* order of the responder, select exactly what the call promises.
THEOREM CallInvariant == Spec => [](ReadInv /\ CallInv)
<1>1. Init => Fresh
  BY DatabasesAssumption DEF Init, Fresh
<1>2. Fresh' => CallInv'
  BY FreshCall, PTL
<1>3. ReadInv /\ CallInv /\ [Next]_vars => CallInv'
  <2> SUFFICES ASSUME ReadInv, CallInv, [Next]_vars
               PROVE  CallInv'
    OBVIOUS
  <2>1. CASE accept
    BY <1>2, <2>1, AcceptFresh
  <2>2. CASE \/ authenticate \/ get_roles_for_user \/ select \/ check_visibility \/ nodes_from_bbox
             \/ current_queries \/ drop_elements \/ historical \/ with_history \/ changeset
             \/ changeset_queries \/ lookup \/ fetch \/ write \/ finish
    <3>1. UNCHANGED <<db, found, failed>> /\ status = 0
      BY <2>2, QueryKeeps
    <3>2. CASE db = found /\ ~failed
      <4>1. Quiet
        BY <3>1, <3>2 DEF Quiet
      <4>2. QED
        BY <2>2, <4>1, QuietStep
    <3>3. CASE ~(db = found /\ ~failed)
      BY <3>1, <3>3 DEF CallInv
    <3>4. QED
      BY <3>2, <3>3
  <2>3. CASE query_fails
    BY <2>3 DEF query_fails, CallInv
  <2>4. CASE upload \/ redact \/ rename
    BY <2>4, CommitCall
  <2>5. CASE UNCHANGED vars
    BY <2>5 DEF vars, CallInv, ConstructorInv, EditionsInv, AnsweredInv, Plan, Todo, Ahead, Done,
                Privileged, EditionsOut
  <2>6. QED
    BY <2>1, <2>2, <2>3, <2>4, <2>5 DEF Next
<1>4. QED
  BY <1>1, <1>3, FreshCall, ReadInvariant, PTL DEF Spec

\* GET and HEAD give the status, and GET the rows, that the call promises,
\* whatever the database, the responder and its order of queries, unless
\* something was committed while the request was served.
THEOREM CallsAlwaysAnswered == Spec => []AnswersTheCall
<1>1. CallInv => AnswersTheCall
  <2> SUFFICES ASSUME CallInv, Answered, db = found
               PROVE  /\ status = StatusOf(found, req)
                      /\ Complete => EditionsOut = Answer(found, req)
    BY DEF AnswersTheCall
  <2>1. AnsweredInv
    BY DEF CallInv, Answered
  <2>2. QED
    BY <2>1 DEF AnsweredInv, Complete
<1>2. QED
  BY <1>1, CallInvariant, PTL
=============================================================================
