------------------------ MODULE ChangesetUploadProofs ------------------------
(***************************************************************************)
(* What holds of the uploads for every database, every document and any    *)
(* number of uploads.  The statements of the updaters are taken one by one *)
(* first; then the three kinds of write (create, modify, delete), which    *)
(* all rewrite some elements of one type; then what such a rewrite keeps   *)
(* of the tables; and last the actions of an upload.                       *)
(***************************************************************************)
EXTENDS ChangesetUpload, FiniteSetTheorems, WellFoundedInduction, TLAPS

-----------------------------------------------------------------------------
(* The statements that write. *)

\* A list of elements in which the placeholders have been replaced.
Listed(l) == DOMAIN l \subseteq Nat /\ \A i \in DOMAIN l : l[i] \in Resolved

\* All but some of the tables are as they were.
SameBut(tb, nt, fields) ==
    /\ "current" \in fields \/ nt.current = tb.current
    /\ "tags" \in fields \/ nt.tags = tb.tags
    /\ "members" \in fields \/ nt.members = tb.members
    /\ "history" \in fields \/ nt.history = tb.history
    /\ "history_tags" \in fields \/ nt.history_tags = tb.history_tags
    /\ "history_members" \in fields \/ nt.history_members = tb.history_members
    /\ "id_seq" \in fields \/ nt.id_seq = tb.id_seq

LEMMA SeqElement ==
    ASSUME NEW S, NEW s \in Seq(S), NEW k \in DOMAIN s
    PROVE  k \in Nat /\ s[k] \in S
  OBVIOUS

LEMMA TablesFields ==
    ASSUME NEW tb \in Tables
    PROVE  /\ tb.current \in [Types -> [Ids -> Row]]
           /\ tb.tags \in [Types -> SUBSET TagRow]
           /\ tb.members \in [Types -> SUBSET MemberRow]
           /\ tb.history \in [Types -> SUBSET HistoryRow]
           /\ tb.history_tags \in [Types -> SUBSET HistoryTagRow]
           /\ tb.history_members \in [Types -> SUBSET HistoryMemberRow]
           /\ tb.id_seq \in [Types -> 0..MaxId]
  BY DEF Tables

LEMMA TagsInserted ==
    ASSUME NEW tb \in Tables, NEW t \in Types, NEW l, Listed(l)
    PROVE  LET nt == InsertTags(tb, t, l)
           IN  /\ nt \in Tables
               /\ SameBut(tb, nt, {"tags"})
               /\ \A u \in Types \ {t} : nt.tags[u] = tb.tags[u]
               /\ \A r : r \in nt.tags[t] <=>
                    \/ r \in tb.tags[t]
                    \/ \E i \in DOMAIN l : \E g \in l[i].tags : r = [id |-> l[i].id, tag |-> g]
<1> DEFINE new == UNION {{[id |-> l[i].id, tag |-> g] : g \in l[i].tags} : i \in DOMAIN l}
<1>1. new \subseteq TagRow
  BY DEF Listed, Resolved, TagRow
<1>2. \A r : r \in new <=> \E i \in DOMAIN l : \E g \in l[i].tags : r = [id |-> l[i].id, tag |-> g]
  OBVIOUS
<1> HIDE DEF new
<1>3. InsertTags(tb, t, l) = [tb EXCEPT !.tags[t] = @ \cup new]
  BY DEF InsertTags, new
<1>4. tb.tags[t] \cup new \in SUBSET TagRow
  BY <1>1, TablesFields
<1> DEFINE nt == InsertTags(tb, t, l)
<1>5. nt.tags = [tb.tags EXCEPT ![t] = @ \cup new] /\ SameBut(tb, nt, {"tags"})
  BY <1>3 DEF Tables, SameBut
<1>6. nt.tags \in [Types -> SUBSET TagRow]
  BY <1>4, <1>5, TablesFields
<1>7. nt \in Tables
  BY <1>3, <1>6, <1>4 DEF Tables
<1>8. QED
  BY <1>2, <1>5, <1>7, TablesFields

LEMMA MembersInserted ==
    ASSUME NEW tb \in Tables, NEW t \in Types, NEW l, Listed(l)
    PROVE  LET nt == InsertMembers(tb, t, l)
           IN  /\ nt \in Tables
               /\ SameBut(tb, nt, {"members"})
               /\ \A u \in Types \ {t} : nt.members[u] = tb.members[u]
               /\ \A r : r \in nt.members[t] <=>
                    \/ r \in tb.members[t]
                    \/ \E i \in DOMAIN l : \E k \in DOMAIN l[i].members :
                         r = [id |-> l[i].id, seq |-> k, type |-> l[i].members[k].type,
                              ref |-> l[i].members[k].ref]
<1> DEFINE new == UNION {{[id |-> l[i].id, seq |-> k, type |-> l[i].members[k].type,
                             ref |-> l[i].members[k].ref] : k \in DOMAIN l[i].members} :
                           i \in DOMAIN l}
<1>1. new \subseteq MemberRow
  <2>1. \A i \in DOMAIN l : l[i].id \in Ids /\ l[i].members \in Seq([type: Types, ref: Ids])
    BY DEF Listed, Resolved
  <2>2. \A i \in DOMAIN l : \A k \in DOMAIN l[i].members :
            k \in Nat /\ l[i].members[k] \in [type: Types, ref: Ids]
    BY <2>1, SeqElement, Zenon
  <2>3. \A i \in DOMAIN l : \A k \in DOMAIN l[i].members :
            [id |-> l[i].id, seq |-> k, type |-> l[i].members[k].type,
             ref |-> l[i].members[k].ref] \in MemberRow
    BY <2>1, <2>2 DEF MemberRow
  <2>4. QED
    BY <2>3
<1>2. \A r : r \in new <=> \E i \in DOMAIN l : \E k \in DOMAIN l[i].members :
                         r = [id |-> l[i].id, seq |-> k, type |-> l[i].members[k].type,
                              ref |-> l[i].members[k].ref]
  OBVIOUS
<1> HIDE DEF new
<1>3. InsertMembers(tb, t, l) = [tb EXCEPT !.members[t] = @ \cup new]
  BY DEF InsertMembers, new
<1>4. tb.members[t] \cup new \in SUBSET MemberRow
  BY <1>1, TablesFields
<1> DEFINE nt == InsertMembers(tb, t, l)
<1>5. nt.members = [tb.members EXCEPT ![t] = @ \cup new] /\ SameBut(tb, nt, {"members"})
  BY <1>3 DEF Tables, SameBut
<1>6. nt.members \in [Types -> SUBSET MemberRow]
  BY <1>4, <1>5, TablesFields
<1>7. nt \in Tables
  BY <1>3, <1>6, <1>4 DEF Tables
<1>8. QED
  BY <1>2, <1>5, <1>7, TablesFields

LEMMA HistorySaved ==
    ASSUME NEW tb \in Tables, NEW t \in Types, NEW ids \in SUBSET Ids
    PROVE  LET nt == SaveHistory(tb, t, ids)
           IN  /\ nt \in Tables
               /\ SameBut(tb, nt, {"history"})
               /\ \A u \in Types \ {t} : nt.history[u] = tb.history[u]
               /\ \A r : r \in nt.history[t] <=>
                    \/ r \in tb.history[t]
                    \/ \E id \in ids : r = [id |-> id, version |-> tb.current[t][id].version,
                                            visible |-> tb.current[t][id].visible,
                                            loc |-> tb.current[t][id].loc]
<1> DEFINE new == {[id |-> id, version |-> tb.current[t][id].version,
                    visible |-> tb.current[t][id].visible,
                    loc |-> tb.current[t][id].loc] : id \in ids}
<1>1. new \subseteq HistoryRow
  BY TablesFields DEF HistoryRow, Row
<1>2. \A r : r \in new <=> \E id \in ids : r = [id |-> id, version |-> tb.current[t][id].version,
                                            visible |-> tb.current[t][id].visible,
                                            loc |-> tb.current[t][id].loc]
  OBVIOUS
<1> HIDE DEF new
<1>3. SaveHistory(tb, t, ids) = [tb EXCEPT !.history[t] = @ \cup new]
  BY DEF SaveHistory, new
<1>4. tb.history[t] \cup new \in SUBSET HistoryRow
  BY <1>1, TablesFields
<1> DEFINE nt == SaveHistory(tb, t, ids)
<1>5. nt.history = [tb.history EXCEPT ![t] = @ \cup new] /\ SameBut(tb, nt, {"history"})
  BY <1>3 DEF Tables, SameBut
<1>6. nt.history \in [Types -> SUBSET HistoryRow]
  BY <1>4, <1>5, TablesFields
<1>7. nt \in Tables
  BY <1>3, <1>6, <1>4 DEF Tables
<1>8. QED
  BY <1>2, <1>5, <1>7, TablesFields

LEMMA TagsHistorySaved ==
    ASSUME NEW tb \in Tables, NEW t \in Types, NEW ids \in SUBSET Ids
    PROVE  LET nt == SaveTagsHistory(tb, t, ids)
           IN  /\ nt \in Tables
               /\ SameBut(tb, nt, {"history_tags"})
               /\ \A u \in Types \ {t} : nt.history_tags[u] = tb.history_tags[u]
               /\ \A r : r \in nt.history_tags[t] <=>
                    \/ r \in tb.history_tags[t]
                    \/ \E x \in tb.tags[t] :
                         /\ x.id \in ids
                         /\ r = [id |-> x.id, version |-> tb.current[t][x.id].version, tag |-> x.tag]
<1> DEFINE new == {[id |-> x.id, version |-> tb.current[t][x.id].version, tag |-> x.tag] :
                    x \in {y \in tb.tags[t] : y.id \in ids}}
<1>1. new \subseteq HistoryTagRow
  BY TablesFields DEF HistoryTagRow, TagRow, Row
<1>2. \A r : r \in new <=> \E x \in tb.tags[t] :
                         /\ x.id \in ids
                         /\ r = [id |-> x.id, version |-> tb.current[t][x.id].version, tag |-> x.tag]
  OBVIOUS
<1> HIDE DEF new
<1>3. SaveTagsHistory(tb, t, ids) = [tb EXCEPT !.history_tags[t] = @ \cup new]
  BY DEF SaveTagsHistory, new
<1>4. tb.history_tags[t] \cup new \in SUBSET HistoryTagRow
  BY <1>1, TablesFields
<1> DEFINE nt == SaveTagsHistory(tb, t, ids)
<1>5. nt.history_tags = [tb.history_tags EXCEPT ![t] = @ \cup new] /\ SameBut(tb, nt, {"history_tags"})
  BY <1>3 DEF Tables, SameBut
<1>6. nt.history_tags \in [Types -> SUBSET HistoryTagRow]
  BY <1>4, <1>5, TablesFields
<1>7. nt \in Tables
  BY <1>3, <1>6, <1>4 DEF Tables
<1>8. QED
  BY <1>2, <1>5, <1>7, TablesFields

LEMMA MembersHistorySaved ==
    ASSUME NEW tb \in Tables, NEW t \in Types, NEW ids \in SUBSET Ids
    PROVE  LET nt == SaveMembersHistory(tb, t, ids)
           IN  /\ nt \in Tables
               /\ SameBut(tb, nt, {"history_members"})
               /\ \A u \in Types \ {t} : nt.history_members[u] = tb.history_members[u]
               /\ \A r : r \in nt.history_members[t] <=>
                    \/ r \in tb.history_members[t]
                    \/ \E x \in tb.members[t] :
                         /\ x.id \in ids
                         /\ r = [id |-> x.id, version |-> tb.current[t][x.id].version, seq |-> x.seq,
                                 type |-> x.type, ref |-> x.ref]
<1> DEFINE new == {[id |-> x.id, version |-> tb.current[t][x.id].version, seq |-> x.seq,
                     type |-> x.type, ref |-> x.ref] :
                    x \in {y \in tb.members[t] : y.id \in ids}}
<1>1. new \subseteq HistoryMemberRow
  BY TablesFields DEF HistoryMemberRow, MemberRow, Row
<1>2. \A r : r \in new <=> \E x \in tb.members[t] :
                         /\ x.id \in ids
                         /\ r = [id |-> x.id, version |-> tb.current[t][x.id].version, seq |-> x.seq,
                                 type |-> x.type, ref |-> x.ref]
  OBVIOUS
<1> HIDE DEF new
<1>3. SaveMembersHistory(tb, t, ids) = [tb EXCEPT !.history_members[t] = @ \cup new]
  BY DEF SaveMembersHistory, new
<1>4. tb.history_members[t] \cup new \in SUBSET HistoryMemberRow
  BY <1>1, TablesFields
<1> DEFINE nt == SaveMembersHistory(tb, t, ids)
<1>5. nt.history_members = [tb.history_members EXCEPT ![t] = @ \cup new] /\ SameBut(tb, nt, {"history_members"})
  BY <1>3 DEF Tables, SameBut
<1>6. nt.history_members \in [Types -> SUBSET HistoryMemberRow]
  BY <1>4, <1>5, TablesFields
<1>7. nt \in Tables
  BY <1>3, <1>6, <1>4 DEF Tables
<1>8. QED
  BY <1>2, <1>5, <1>7, TablesFields

LEMMA TagsDeleted ==
    ASSUME NEW tb \in Tables, NEW t \in Types, NEW ids
    PROVE  LET nt == DeleteTags(tb, t, ids)
           IN  /\ nt \in Tables
               /\ SameBut(tb, nt, {"tags"})
               /\ \A u \in Types \ {t} : nt.tags[u] = tb.tags[u]
               /\ \A r : r \in nt.tags[t] <=> r \in tb.tags[t] /\ r.id \notin ids
<1> DEFINE nt == DeleteTags(tb, t, ids)
           left == {r \in tb.tags[t] : r.id \notin ids}
<1>1. nt = [tb EXCEPT !.tags[t] = left]
  BY DEF DeleteTags
<1>2. left \in SUBSET TagRow
  BY TablesFields
<1>3. \A r : r \in left <=> r \in tb.tags[t] /\ r.id \notin ids
  OBVIOUS
<1> HIDE DEF left, nt
<1>4. nt.tags = [tb.tags EXCEPT ![t] = left] /\ SameBut(tb, nt, {"tags"})
  BY <1>1 DEF Tables, SameBut
<1>5. nt.tags \in [Types -> SUBSET TagRow]
  BY <1>2, <1>4, TablesFields
<1>6. nt \in Tables
  BY <1>1, <1>5, <1>2 DEF Tables
<1>7. QED
  BY <1>3, <1>4, <1>6, TablesFields DEF nt

LEMMA MembersDeleted ==
    ASSUME NEW tb \in Tables, NEW t \in Types, NEW ids
    PROVE  LET nt == DeleteMembers(tb, t, ids)
           IN  /\ nt \in Tables
               /\ SameBut(tb, nt, {"members"})
               /\ \A u \in Types \ {t} : nt.members[u] = tb.members[u]
               /\ \A r : r \in nt.members[t] <=> r \in tb.members[t] /\ r.id \notin ids
<1> DEFINE nt == DeleteMembers(tb, t, ids)
           left == {r \in tb.members[t] : r.id \notin ids}
<1>1. nt = [tb EXCEPT !.members[t] = left]
  BY DEF DeleteMembers
<1>2. left \in SUBSET MemberRow
  BY TablesFields
<1>3. \A r : r \in left <=> r \in tb.members[t] /\ r.id \notin ids
  OBVIOUS
<1> HIDE DEF left, nt
<1>4. nt.members = [tb.members EXCEPT ![t] = left] /\ SameBut(tb, nt, {"members"})
  BY <1>1 DEF Tables, SameBut
<1>5. nt.members \in [Types -> SUBSET MemberRow]
  BY <1>2, <1>4, TablesFields
<1>6. nt \in Tables
  BY <1>1, <1>5, <1>2 DEF Tables
<1>7. QED
  BY <1>3, <1>4, <1>6, TablesFields DEF nt

\* Where the ids of a list are unique, the last element with an id is the one.
LEMMA LastOfUnique ==
    ASSUME NEW l, Listed(l), Unique(l), NEW i \in DOMAIN l
    PROVE  LastOf(l, l[i].id) = l[i]
<1> DEFINE IsLast(j) == l[j].id = l[i].id /\ \A k \in DOMAIN l : l[k].id = l[i].id => k <= j
<1>1. IsLast(i)
  BY DEF Listed, Unique
<1>2. \A j \in DOMAIN l : IsLast(j) => j = i
  BY DEF Unique
<1>3. (CHOOSE j \in DOMAIN l : IsLast(j)) = i
  BY <1>1, <1>2
<1>4. QED
  BY <1>3 DEF LastOf

Shown(tb, t, l) == UpdateCurrent(tb, t, l, TRUE)
Hidden(tb, t, l) == UpdateCurrent(tb, t, l, FALSE)

\* The rows UPDATE current_* leaves, of elements that are modified and deleted.
ShownRow(e) == [version |-> e.version + 1, visible |-> TRUE, loc |-> e.loc]
HiddenRow(tb, t, e) ==
    [version |-> e.version + 1, visible |-> FALSE, loc |-> tb.current[t][e.id].loc]

LEMMA CurrentShown ==
    ASSUME NEW tb \in Tables, NEW t \in Types, NEW l, Listed(l), Unique(l)
    PROVE  LET nt == Shown(tb, t, l)
           IN  /\ nt \in Tables
               /\ SameBut(tb, nt, {"current"})
               /\ \A u \in Types \ {t} : nt.current[u] = tb.current[u]
               /\ \A id \in Ids \ IdsOf(l) : nt.current[t][id] = tb.current[t][id]
               /\ \A i \in DOMAIN l : nt.current[t][l[i].id] = ShownRow(l[i])
<1> DEFINE nt == Shown(tb, t, l)
           rows == [id \in Ids |->
                      IF id \in IdsOf(l)
                      THEN [version |-> LastOf(l, id).version + 1,
                            visible |-> TRUE,
                            loc |-> LastOf(l, id).loc]
                      ELSE tb.current[t][id]]
<1>1. nt = [tb EXCEPT !.current[t] = rows]
  BY DEF Shown, UpdateCurrent
<1>2. \A i \in DOMAIN l : l[i].id \in Ids /\ l[i].id \in IdsOf(l) /\ l[i].version \in Nat /\ l[i].loc \in Coord
  BY DEF Listed, Resolved, IdsOf
<1>3. \A i \in DOMAIN l : rows[l[i].id] = ShownRow(l[i])
  BY <1>2, LastOfUnique DEF ShownRow
<1>4. \A id \in Ids \ IdsOf(l) : rows[id] = tb.current[t][id]
  OBVIOUS
<1>5. rows \in [Ids -> Row]
  <2> SUFFICES ASSUME NEW id \in Ids PROVE rows[id] \in Row
    OBVIOUS
  <2>1. tb.current[t][id] \in Row
    BY TablesFields
  <2>2. CASE id \notin IdsOf(l)
    BY <2>1, <2>2
  <2>3. CASE id \in IdsOf(l)
    <3>1. PICK i \in DOMAIN l : l[i].id = id
      BY <2>3 DEF IdsOf
    <3>2. ShownRow(l[i]) \in Row
      BY <3>1, <2>1, <1>2 DEF ShownRow, Row
    <3>3. QED
      BY <3>1, <3>2, <1>3
  <2>4. QED
    BY <2>2, <2>3
<1> HIDE DEF rows, nt
<1>6. nt.current = [tb.current EXCEPT ![t] = rows] /\ SameBut(tb, nt, {"current"})
  BY <1>1 DEF Tables, SameBut
<1>7. nt.current \in [Types -> [Ids -> Row]]
  BY <1>5, <1>6, TablesFields
<1>8. nt \in Tables
  BY <1>1, <1>7, <1>5 DEF Tables
<1>9. QED
  BY <1>3, <1>4, <1>6, <1>8, TablesFields DEF nt

LEMMA CurrentHidden ==
    ASSUME NEW tb \in Tables, NEW t \in Types, NEW l, Listed(l), Unique(l)
    PROVE  LET nt == Hidden(tb, t, l)
           IN  /\ nt \in Tables
               /\ SameBut(tb, nt, {"current"})
               /\ \A u \in Types \ {t} : nt.current[u] = tb.current[u]
               /\ \A id \in Ids \ IdsOf(l) : nt.current[t][id] = tb.current[t][id]
               /\ \A i \in DOMAIN l : nt.current[t][l[i].id] = HiddenRow(tb, t, l[i])
<1> DEFINE nt == Hidden(tb, t, l)
           rows == [id \in Ids |->
                      IF id \in IdsOf(l)
                      THEN [version |-> LastOf(l, id).version + 1,
                            visible |-> FALSE,
                            loc |-> tb.current[t][id].loc]
                      ELSE tb.current[t][id]]
<1>1. nt = [tb EXCEPT !.current[t] = rows]
  BY DEF Hidden, UpdateCurrent
<1>2. \A i \in DOMAIN l : l[i].id \in Ids /\ l[i].id \in IdsOf(l) /\ l[i].version \in Nat /\ l[i].loc \in Coord
  BY DEF Listed, Resolved, IdsOf
<1>3. \A i \in DOMAIN l : rows[l[i].id] = HiddenRow(tb, t, l[i])
  BY <1>2, LastOfUnique DEF HiddenRow
<1>4. \A id \in Ids \ IdsOf(l) : rows[id] = tb.current[t][id]
  OBVIOUS
<1>5. rows \in [Ids -> Row]
  <2> SUFFICES ASSUME NEW id \in Ids PROVE rows[id] \in Row
    OBVIOUS
  <2>1. tb.current[t][id] \in Row
    BY TablesFields
  <2>2. CASE id \notin IdsOf(l)
    BY <2>1, <2>2
  <2>3. CASE id \in IdsOf(l)
    <3>1. PICK i \in DOMAIN l : l[i].id = id
      BY <2>3 DEF IdsOf
    <3>2. HiddenRow(tb, t, l[i]) \in Row
      BY <3>1, <2>1, <1>2 DEF HiddenRow, Row
    <3>3. QED
      BY <3>1, <3>2, <1>3
  <2>4. QED
    BY <2>2, <2>3
<1> HIDE DEF rows, nt
<1>6. nt.current = [tb.current EXCEPT ![t] = rows] /\ SameBut(tb, nt, {"current"})
  BY <1>1 DEF Tables, SameBut
<1>7. nt.current \in [Types -> [Ids -> Row]]
  BY <1>5, <1>6, TablesFields
<1>8. nt \in Tables
  BY <1>1, <1>7, <1>5 DEF Tables
<1>9. QED
  BY <1>3, <1>4, <1>6, <1>8, TablesFields DEF nt

\* INSERT INTO current_* writes the rows of new ids.
LEMMA CurrentInserted ==
    ASSUME NEW tb \in Tables, NEW t \in Types, NEW raw \in Seq(Element),
           tb.id_seq[t] + Len(raw) <= MaxId
    PROVE  LET nt == InsertCurrent(tb, t, raw)
           IN  /\ nt \in Tables
               /\ SameBut(tb, nt, {"current", "id_seq"})
               /\ \A u \in Types \ {t} : nt.current[u] = tb.current[u] /\ nt.id_seq[u] = tb.id_seq[u]
               /\ \A i \in DOMAIN raw :
                    nt.current[t][tb.id_seq[t] + i] = [version |-> 1, visible |-> TRUE, loc |-> raw[i].loc]
               /\ \A id \in Ids :
                    id - tb.id_seq[t] \notin DOMAIN raw => nt.current[t][id] = tb.current[t][id]
               /\ nt.id_seq[t] = tb.id_seq[t] + Len(raw)
<1> DEFINE nt == InsertCurrent(tb, t, raw)
           rows == [id \in Ids |->
                      IF id - tb.id_seq[t] \in DOMAIN raw
                      THEN [version |-> 1, visible |-> TRUE, loc |-> raw[id - tb.id_seq[t]].loc]
                      ELSE tb.current[t][id]]
<1>1. nt = [tb EXCEPT !.current[t] = rows, !.id_seq[t] = @ + Len(raw)]
  BY DEF InsertCurrent
<1>2. tb.id_seq[t] \in 0..MaxId /\ MaxId \in Nat /\ Len(raw) \in Nat /\ DOMAIN raw = 1..Len(raw)
  BY TablesFields, MaxIdAssumption
<1>3. \A i \in DOMAIN raw : rows[tb.id_seq[t] + i] = [version |-> 1, visible |-> TRUE, loc |-> raw[i].loc]
  <2> SUFFICES ASSUME NEW i \in DOMAIN raw
               PROVE  rows[tb.id_seq[t] + i] = [version |-> 1, visible |-> TRUE, loc |-> raw[i].loc]
    OBVIOUS
  <2>1. tb.id_seq[t] + i \in Ids /\ (tb.id_seq[t] + i) - tb.id_seq[t] = i
    BY <1>2 DEF Ids
  <2>2. QED
    BY <2>1
<1>4. \A id \in Ids : id - tb.id_seq[t] \notin DOMAIN raw => rows[id] = tb.current[t][id]
  OBVIOUS
<1>5. rows \in [Ids -> Row]
  <2> SUFFICES ASSUME NEW id \in Ids PROVE rows[id] \in Row
    OBVIOUS
  <2>1. tb.current[t][id] \in Row
    BY TablesFields
  <2>2. CASE id - tb.id_seq[t] \notin DOMAIN raw
    BY <2>1, <2>2
  <2>3. CASE id - tb.id_seq[t] \in DOMAIN raw
    <3>1. raw[id - tb.id_seq[t]] \in Element
      BY <2>3
    <3>2. raw[id - tb.id_seq[t]].loc \in Coord
      BY <3>1 DEF Element
    <3>3. QED
      BY <3>2, <2>3 DEF Row
  <2>4. QED
    BY <2>2, <2>3
<1> HIDE DEF rows, nt
<1>6. /\ nt.current = [tb.current EXCEPT ![t] = rows]
      /\ nt.id_seq = [tb.id_seq EXCEPT ![t] = @ + Len(raw)]
      /\ SameBut(tb, nt, {"current", "id_seq"})
  BY <1>1 DEF Tables, SameBut
<1>7. nt.current \in [Types -> [Ids -> Row]]
  BY <1>5, <1>6, TablesFields
<1>8. nt.id_seq \in [Types -> 0..MaxId]
  BY <1>2, <1>6, TablesFields
<1>9. nt \in Tables
  BY <1>1, <1>7, <1>8, <1>5 DEF Tables
<1>10. QED
  BY <1>3, <1>4, <1>6, <1>9, TablesFields DEF nt

-----------------------------------------------------------------------------
(* The three kinds of write.  Each leaves the elements of a list, all of   *)
(* one type, with new rows, tags and members, and adds what it leaves to   *)
(* the history.                                                            *)

TagRowOf(e, g) == [id |-> e.id, tag |-> g]
MemberRowOf(e, k) ==
    [id |-> e.id, seq |-> k, type |-> e.members[k].type, ref |-> e.members[k].ref]
HistoryRowOf(e, rw) ==
    [id |-> e.id, version |-> rw.version, visible |-> rw.visible, loc |-> rw.loc]
HistoryTagRowOf(e, rw, g) == [id |-> e.id, version |-> rw.version, tag |-> g]
HistoryMemberRowOf(e, rw, k) ==
    [id |-> e.id, version |-> rw.version, seq |-> k, type |-> e.members[k].type,
     ref |-> e.members[k].ref]

\* The current tables after the write: rw[i] is the row of element l[i].
CurrentRewritten(tb, nt, t, l, rw) ==
    /\ nt \in Tables
    /\ \A u \in Types \ {t} :
         /\ nt.current[u] = tb.current[u] /\ nt.tags[u] = tb.tags[u]
         /\ nt.members[u] = tb.members[u] /\ nt.id_seq[u] = tb.id_seq[u]
    /\ \A id \in Ids \ IdsOf(l) : nt.current[t][id] = tb.current[t][id]
    /\ \A i \in DOMAIN l : nt.current[t][l[i].id] = rw[i]
    /\ \A r : r \in nt.tags[t] <=>
         \/ r \in tb.tags[t] /\ r.id \notin IdsOf(l)
         \/ \E i \in DOMAIN l : \E g \in l[i].tags : r = TagRowOf(l[i], g)
    /\ \A r : r \in nt.members[t] <=>
         \/ r \in tb.members[t] /\ r.id \notin IdsOf(l)
         \/ \E i \in DOMAIN l : \E k \in DOMAIN l[i].members : r = MemberRowOf(l[i], k)

\* The history after it.
HistoryExtended(tb, nt, t, l, rw) ==
    /\ \A u \in Types \ {t} :
         /\ nt.history[u] = tb.history[u] /\ nt.history_tags[u] = tb.history_tags[u]
         /\ nt.history_members[u] = tb.history_members[u]
    /\ \A r : r \in nt.history[t] <=>
         r \in tb.history[t] \/ \E i \in DOMAIN l : r = HistoryRowOf(l[i], rw[i])
    /\ \A r : r \in nt.history_tags[t] <=>
         \/ r \in tb.history_tags[t]
         \/ \E i \in DOMAIN l : \E g \in l[i].tags : r = HistoryTagRowOf(l[i], rw[i], g)
    /\ \A r : r \in nt.history_members[t] <=>
         \/ r \in tb.history_members[t]
         \/ \E i \in DOMAIN l : \E k \in DOMAIN l[i].members : r = HistoryMemberRowOf(l[i], rw[i], k)

Rewritten(tb, nt, t, l, rw) ==
    CurrentRewritten(tb, nt, t, l, rw) /\ HistoryExtended(tb, nt, t, l, rw)

\* The ids of a list are ids.
LEMMA ListedIds ==
    ASSUME NEW l, Listed(l)
    PROVE  /\ IdsOf(l) \in SUBSET Ids /\ IdsWithTags(l) \in SUBSET Ids
           /\ \A i \in DOMAIN l : l[i].id \in IdsOf(l)
           /\ \A i \in DOMAIN l : l[i].tags # {} => l[i].id \in IdsWithTags(l)
  BY DEF Listed, Resolved, IdsOf, IdsWithTags

\* What save_current_*_to_history adds is what the write left.
LEMMA SavesExtend ==
    ASSUME NEW tb \in Tables, NEW mid, NEW t \in Types, NEW l, Listed(l), NEW rw,
           CurrentRewritten(tb, mid, t, l, rw),
           SameBut(tb, mid, {"current", "tags", "members", "id_seq"})
    PROVE  Rewritten(tb, SaveMembersHistory(
                            SaveTagsHistory(SaveHistory(mid, t, IdsOf(l)), t, IdsWithTags(l)),
                            t, IdsOf(l)), t, l, rw)
<1> DEFINE ids == IdsOf(l)
           tagged == IdsWithTags(l)
           s1 == SaveHistory(mid, t, ids)
           s2 == SaveTagsHistory(s1, t, tagged)
           nt == SaveMembersHistory(s2, t, ids)
<1>1. ids \in SUBSET Ids /\ tagged \in SUBSET Ids /\ mid \in Tables
  BY ListedIds DEF CurrentRewritten
<1>2. /\ s1 \in Tables
      /\ SameBut(mid, s1, {"history"})
      /\ \A u \in Types \ {t} : s1.history[u] = mid.history[u]
      /\ \A r : r \in s1.history[t] <=>
           \/ r \in mid.history[t]
           \/ \E id \in ids : r = [id |-> id, version |-> mid.current[t][id].version,
                                   visible |-> mid.current[t][id].visible,
                                   loc |-> mid.current[t][id].loc]
  BY <1>1, HistorySaved
<1> HIDE DEF s1
<1>3. /\ s2 \in Tables
      /\ SameBut(s1, s2, {"history_tags"})
      /\ \A u \in Types \ {t} : s2.history_tags[u] = s1.history_tags[u]
      /\ \A r : r \in s2.history_tags[t] <=>
           \/ r \in s1.history_tags[t]
           \/ \E x \in s1.tags[t] :
                /\ x.id \in tagged
                /\ r = [id |-> x.id, version |-> s1.current[t][x.id].version, tag |-> x.tag]
  BY <1>1, <1>2, TagsHistorySaved
<1> HIDE DEF s2
<1>4. /\ nt \in Tables
      /\ SameBut(s2, nt, {"history_members"})
      /\ \A u \in Types \ {t} : nt.history_members[u] = s2.history_members[u]
      /\ \A r : r \in nt.history_members[t] <=>
           \/ r \in s2.history_members[t]
           \/ \E x \in s2.members[t] :
                /\ x.id \in ids
                /\ r = [id |-> x.id, version |-> s2.current[t][x.id].version, seq |-> x.seq,
                        type |-> x.type, ref |-> x.ref]
  BY <1>1, <1>3, MembersHistorySaved
<1> HIDE DEF nt, ids, tagged
<1>5. /\ nt.current = mid.current /\ nt.tags = mid.tags /\ nt.members = mid.members
      /\ nt.id_seq = mid.id_seq
      /\ nt.history = s1.history /\ nt.history_tags = s2.history_tags
      /\ s1.current = mid.current /\ s2.current = mid.current
      /\ s1.tags = mid.tags /\ s2.members = mid.members
      /\ mid.history = tb.history /\ s1.history_tags = tb.history_tags
      /\ s2.history_members = tb.history_members
  BY <1>2, <1>3, <1>4 DEF SameBut
<1>6. CurrentRewritten(tb, nt, t, l, rw)
  BY <1>4, <1>5 DEF CurrentRewritten
<1>7. \A i \in DOMAIN l : l[i].id \in ids /\ mid.current[t][l[i].id] = rw[i]
  BY ListedIds DEF ids, CurrentRewritten
<1>8. \A id \in ids : \E i \in DOMAIN l : l[i].id = id
  BY DEF ids, IdsOf
<1>9. \A r : r \in nt.history[t] <=>
         r \in tb.history[t] \/ \E i \in DOMAIN l : r = HistoryRowOf(l[i], rw[i])
  BY <1>2, <1>5, <1>7, <1>8 DEF HistoryRowOf
<1>10. \A r : r \in nt.history_tags[t] <=>
         \/ r \in tb.history_tags[t]
         \/ \E i \in DOMAIN l : \E g \in l[i].tags : r = HistoryTagRowOf(l[i], rw[i], g)
  <2>1. \A x \in mid.tags[t] : x.id \in tagged =>
            \E i \in DOMAIN l : \E g \in l[i].tags : x = TagRowOf(l[i], g)
    BY DEF CurrentRewritten, tagged, IdsWithTags, IdsOf
  <2>2. \A i \in DOMAIN l : \A g \in l[i].tags :
            TagRowOf(l[i], g) \in mid.tags[t] /\ TagRowOf(l[i], g).id \in tagged
    BY ListedIds DEF CurrentRewritten, tagged, TagRowOf
  <2>3. \A i \in DOMAIN l : \A g \in l[i].tags :
            HistoryTagRowOf(l[i], rw[i], g) =
               [id |-> TagRowOf(l[i], g).id,
                version |-> mid.current[t][TagRowOf(l[i], g).id].version,
                tag |-> TagRowOf(l[i], g).tag]
    BY <1>7 DEF TagRowOf, HistoryTagRowOf
  <2>4. ASSUME NEW r, r \in nt.history_tags[t], r \notin tb.history_tags[t]
        PROVE  \E i \in DOMAIN l : \E g \in l[i].tags : r = HistoryTagRowOf(l[i], rw[i], g)
    <3>1. PICK x \in mid.tags[t] :
            /\ x.id \in tagged
            /\ r = [id |-> x.id, version |-> mid.current[t][x.id].version, tag |-> x.tag]
      BY <1>3, <1>5, <2>4
    <3>2. PICK i \in DOMAIN l : \E g \in l[i].tags : x = TagRowOf(l[i], g)
      BY <2>1, <3>1
    <3>3. PICK g \in l[i].tags : x = TagRowOf(l[i], g)
      BY <3>2
    <3>4. r = HistoryTagRowOf(l[i], rw[i], g)
      BY <3>1, <3>3, <2>3
    <3>5. QED
      BY <3>4
  <2>5. ASSUME NEW i \in DOMAIN l, NEW g \in l[i].tags
        PROVE  HistoryTagRowOf(l[i], rw[i], g) \in nt.history_tags[t]
    <3> DEFINE x == TagRowOf(l[i], g)
    <3>1. x \in s1.tags[t] /\ x.id \in tagged
      BY <2>2, <1>5
    <3>2. HistoryTagRowOf(l[i], rw[i], g) =
            [id |-> x.id, version |-> s1.current[t][x.id].version, tag |-> x.tag]
      BY <2>3, <1>5
    <3> HIDE DEF x
    <3>3. QED
      BY <3>1, <3>2, <1>3, <1>5
  <2>6. QED
    BY <2>4, <2>5, <1>3, <1>5
<1>11. \A r : r \in nt.history_members[t] <=>
         \/ r \in tb.history_members[t]
         \/ \E i \in DOMAIN l : \E k \in DOMAIN l[i].members : r = HistoryMemberRowOf(l[i], rw[i], k)
  <2>1. \A x \in mid.members[t] : x.id \in ids =>
            \E i \in DOMAIN l : \E k \in DOMAIN l[i].members : x = MemberRowOf(l[i], k)
    BY DEF CurrentRewritten, ids
  <2>2. \A i \in DOMAIN l : \A k \in DOMAIN l[i].members :
            MemberRowOf(l[i], k) \in mid.members[t] /\ MemberRowOf(l[i], k).id \in ids
    BY ListedIds DEF CurrentRewritten, ids, MemberRowOf
  <2>3. \A i \in DOMAIN l : \A k \in DOMAIN l[i].members :
            HistoryMemberRowOf(l[i], rw[i], k) =
               [id |-> MemberRowOf(l[i], k).id,
                version |-> mid.current[t][MemberRowOf(l[i], k).id].version,
                seq |-> MemberRowOf(l[i], k).seq, type |-> MemberRowOf(l[i], k).type,
                ref |-> MemberRowOf(l[i], k).ref]
    BY <1>7 DEF MemberRowOf, HistoryMemberRowOf
  <2>4. ASSUME NEW r, r \in nt.history_members[t], r \notin tb.history_members[t]
        PROVE  \E i \in DOMAIN l : \E k \in DOMAIN l[i].members : r = HistoryMemberRowOf(l[i], rw[i], k)
    <3>1. PICK x \in mid.members[t] :
            /\ x.id \in ids
            /\ r = [id |-> x.id, version |-> mid.current[t][x.id].version, seq |-> x.seq,
                    type |-> x.type, ref |-> x.ref]
      BY <1>4, <1>5, <2>4
    <3>2. PICK i \in DOMAIN l : \E k \in DOMAIN l[i].members : x = MemberRowOf(l[i], k)
      BY <2>1, <3>1
    <3>3. PICK k \in DOMAIN l[i].members : x = MemberRowOf(l[i], k)
      BY <3>2
    <3>4. r = HistoryMemberRowOf(l[i], rw[i], k)
      BY <3>1, <3>3, <2>3
    <3>5. QED
      BY <3>4
  <2>5. ASSUME NEW i \in DOMAIN l, NEW k \in DOMAIN l[i].members
        PROVE  HistoryMemberRowOf(l[i], rw[i], k) \in nt.history_members[t]
    <3> DEFINE x == MemberRowOf(l[i], k)
    <3>1. x \in s2.members[t] /\ x.id \in ids
      BY <2>2, <1>5
    <3>2. HistoryMemberRowOf(l[i], rw[i], k) =
            [id |-> x.id, version |-> s2.current[t][x.id].version, seq |-> x.seq,
             type |-> x.type, ref |-> x.ref]
      BY <2>3, <1>5
    <3> HIDE DEF x
    <3>3. QED
      BY <3>1, <3>2, <1>4, <1>5
  <2>6. QED
    BY <2>4, <2>5, <1>4, <1>5
<1>12. \A u \in Types \ {t} :
         /\ nt.history[u] = tb.history[u] /\ nt.history_tags[u] = tb.history_tags[u]
         /\ nt.history_members[u] = tb.history_members[u]
  BY <1>2, <1>3, <1>4, <1>5
<1>13. HistoryExtended(tb, nt, t, l, rw)
  BY <1>9, <1>10, <1>11, <1>12 DEF HistoryExtended
<1>14. QED
  BY <1>6, <1>13 DEF Rewritten, nt, s2, s1, ids, tagged

\* What process_new_* leaves of the elements of a list, before the history.
Inserted(tb, t, raw, l) == InsertMembers(InsertTags(InsertCurrent(tb, t, raw), t, l), t, l)

\* What a package of process_modify_* leaves of them, before the history.
Updated(tb, t, l) ==
    InsertMembers(InsertTags(Shown(
        DeleteMembers(DeleteTags(tb, t, IdsOf(l)), t, IdsOf(l)), t, l), t, l), t, l)

\* The history of the elements that were inserted or updated.
Saved(mid, t, l) ==
    SaveMembersHistory(
        SaveTagsHistory(SaveHistory(mid, t, IdsOf(l)), t, IdsWithTags(l)), t, IdsOf(l))

\* What process_delete_* leaves of them.
Deleted(tb, t, l) ==
    SaveHistory(DeleteMembers(DeleteTags(Hidden(tb, t, l), t, IdsOf(l)),
                              t, IdsOf(l)), t, IdsOf(l))

CreatedRows(raw) == [i \in DOMAIN raw |-> [version |-> 1, visible |-> TRUE, loc |-> raw[i].loc]]
ShownRows(l) == [i \in DOMAIN l |-> ShownRow(l[i])]
HiddenRows(tb, t, l) == [i \in DOMAIN l |-> HiddenRow(tb, t, l[i])]

\* Tags and members that are inserted where there are none for these ids.
LEMMA InsertsRewrite ==
    ASSUME NEW tb \in Tables, NEW t \in Types, NEW l, Listed(l),
           \A r \in tb.tags[t] \cup tb.members[t] : r.id \notin IdsOf(l)
    PROVE  LET nt == InsertMembers(InsertTags(tb, t, l), t, l)
           IN  /\ nt \in Tables
               /\ SameBut(tb, nt, {"tags", "members"})
               /\ \A u \in Types \ {t} : nt.tags[u] = tb.tags[u] /\ nt.members[u] = tb.members[u]
               /\ \A r : r \in nt.tags[t] <=>
                    \/ r \in tb.tags[t] /\ r.id \notin IdsOf(l)
                    \/ \E i \in DOMAIN l : \E g \in l[i].tags : r = TagRowOf(l[i], g)
               /\ \A r : r \in nt.members[t] <=>
                    \/ r \in tb.members[t] /\ r.id \notin IdsOf(l)
                    \/ \E i \in DOMAIN l : \E k \in DOMAIN l[i].members : r = MemberRowOf(l[i], k)
<1> DEFINE s1 == InsertTags(tb, t, l)
           nt == InsertMembers(s1, t, l)
<1>1. /\ s1 \in Tables
      /\ SameBut(tb, s1, {"tags"})
      /\ \A u \in Types \ {t} : s1.tags[u] = tb.tags[u]
      /\ \A r : r \in s1.tags[t] <=>
           \/ r \in tb.tags[t]
           \/ \E i \in DOMAIN l : \E g \in l[i].tags : r = TagRowOf(l[i], g)
  BY TagsInserted DEF TagRowOf
<1> HIDE DEF s1
<1>2. /\ nt \in Tables
      /\ SameBut(s1, nt, {"members"})
      /\ \A u \in Types \ {t} : nt.members[u] = s1.members[u]
      /\ \A r : r \in nt.members[t] <=>
           \/ r \in s1.members[t]
           \/ \E i \in DOMAIN l : \E k \in DOMAIN l[i].members : r = MemberRowOf(l[i], k)
  BY <1>1, MembersInserted DEF MemberRowOf
<1> HIDE DEF nt
<1>3. SameBut(tb, nt, {"tags", "members"}) /\ nt.tags = s1.tags /\ s1.members = tb.members
  BY <1>1, <1>2 DEF SameBut
<1>4. QED
  BY <1>1, <1>2, <1>3 DEF nt, s1

LEMMA CreateRewrites ==
    ASSUME NEW tb \in Tables, NEW t \in Types, NEW raw \in Seq(Element),
           tb.id_seq[t] + Len(raw) <= MaxId,
           NEW l, Listed(l), DOMAIN l = DOMAIN raw,
           \A i \in DOMAIN l : l[i].id = tb.id_seq[t] + i,
           \A r \in tb.tags[t] \cup tb.members[t] : r.id \notin IdsOf(l)
    PROVE  /\ Rewritten(tb, Saved(Inserted(tb, t, raw, l), t, l), t, l, CreatedRows(raw))
           /\ Saved(Inserted(tb, t, raw, l), t, l).id_seq[t] = tb.id_seq[t] + Len(raw)
<1> DEFINE s1 == InsertCurrent(tb, t, raw)
           mid == InsertMembers(InsertTags(s1, t, l), t, l)
           rw == CreatedRows(raw)
<1>1. /\ s1 \in Tables
      /\ SameBut(tb, s1, {"current", "id_seq"})
      /\ \A u \in Types \ {t} : s1.current[u] = tb.current[u] /\ s1.id_seq[u] = tb.id_seq[u]
      /\ \A i \in DOMAIN raw :
           s1.current[t][tb.id_seq[t] + i] = [version |-> 1, visible |-> TRUE, loc |-> raw[i].loc]
      /\ \A id \in Ids :
           id - tb.id_seq[t] \notin DOMAIN raw => s1.current[t][id] = tb.current[t][id]
      /\ s1.id_seq[t] = tb.id_seq[t] + Len(raw)
  BY CurrentInserted
<1> HIDE DEF s1
<1>2. s1.tags = tb.tags /\ s1.members = tb.members
  BY <1>1 DEF SameBut
<1>3. /\ mid \in Tables
      /\ SameBut(s1, mid, {"tags", "members"})
      /\ \A u \in Types \ {t} : mid.tags[u] = s1.tags[u] /\ mid.members[u] = s1.members[u]
      /\ \A r : r \in mid.tags[t] <=>
           \/ r \in s1.tags[t] /\ r.id \notin IdsOf(l)
           \/ \E i \in DOMAIN l : \E g \in l[i].tags : r = TagRowOf(l[i], g)
      /\ \A r : r \in mid.members[t] <=>
           \/ r \in s1.members[t] /\ r.id \notin IdsOf(l)
           \/ \E i \in DOMAIN l : \E k \in DOMAIN l[i].members : r = MemberRowOf(l[i], k)
  BY <1>1, <1>2, InsertsRewrite
<1> HIDE DEF mid
<1>4. mid.current = s1.current /\ mid.id_seq = s1.id_seq
      /\ SameBut(tb, mid, {"current", "tags", "members", "id_seq"})
  BY <1>1, <1>3 DEF SameBut
<1>5. \A id \in Ids \ IdsOf(l) : mid.current[t][id] = tb.current[t][id]
  <2> SUFFICES ASSUME NEW id \in Ids \ IdsOf(l) PROVE mid.current[t][id] = tb.current[t][id]
    OBVIOUS
  <2>1. id \in Nat /\ tb.id_seq[t] \in Nat
    BY TablesFields, MaxIdAssumption DEF Ids
  <2>2. id - tb.id_seq[t] \notin DOMAIN raw
    <3>1. SUFFICES ASSUME id - tb.id_seq[t] \in DOMAIN l PROVE FALSE
      OBVIOUS
    <3>2. l[id - tb.id_seq[t]].id = id
      BY <3>1, <2>1
    <3>3. QED
      BY <3>1, <3>2 DEF IdsOf
  <2>3. QED
    BY <2>2, <1>1, <1>4
<1>6. \A i \in DOMAIN l : mid.current[t][l[i].id] = rw[i]
  BY <1>1, <1>4 DEF CreatedRows
<1>7. CurrentRewritten(tb, mid, t, l, rw)
  BY <1>1, <1>2, <1>3, <1>4, <1>5, <1>6 DEF CurrentRewritten
<1>8. Rewritten(tb, Saved(mid, t, l), t, l, rw)
  BY <1>4, <1>7, SavesExtend DEF Saved
<1>9. Saved(mid, t, l).id_seq = mid.id_seq
  <2>1. IdsOf(l) \in SUBSET Ids /\ IdsWithTags(l) \in SUBSET Ids
    BY ListedIds
  <2> DEFINE h1 == SaveHistory(mid, t, IdsOf(l))
             h2 == SaveTagsHistory(h1, t, IdsWithTags(l))
             h3 == SaveMembersHistory(h2, t, IdsOf(l))
  <2>2. h1 \in Tables /\ h1.id_seq = mid.id_seq
    BY <2>1, <1>3, HistorySaved DEF SameBut
  <2> HIDE DEF h1
  <2>3. h2 \in Tables /\ h2.id_seq = h1.id_seq
    BY <2>1, <2>2, TagsHistorySaved DEF SameBut
  <2> HIDE DEF h2
  <2>4. h3.id_seq = h2.id_seq
    BY <2>1, <2>3, MembersHistorySaved DEF SameBut
  <2>5. QED
    BY <2>2, <2>3, <2>4 DEF Saved, h1, h2
<1>10. QED
  BY <1>1, <1>4, <1>8, <1>9 DEF Inserted, mid, s1

LEMMA ModifyRewrites ==
    ASSUME NEW tb \in Tables, NEW t \in Types, NEW l, Listed(l), Unique(l)
    PROVE  /\ Rewritten(tb, Saved(Updated(tb, t, l), t, l), t, l, ShownRows(l))
           /\ Saved(Updated(tb, t, l), t, l).id_seq = tb.id_seq
<1> DEFINE s1 == DeleteTags(tb, t, IdsOf(l))
           s2 == DeleteMembers(s1, t, IdsOf(l))
           s3 == Shown(s2, t, l)
           mid == InsertMembers(InsertTags(s3, t, l), t, l)
           rw == ShownRows(l)
<1>1. /\ s1 \in Tables
      /\ SameBut(tb, s1, {"tags"})
      /\ \A u \in Types \ {t} : s1.tags[u] = tb.tags[u]
      /\ \A r : r \in s1.tags[t] <=> r \in tb.tags[t] /\ r.id \notin IdsOf(l)
  BY TagsDeleted
<1> HIDE DEF s1
<1>2. /\ s2 \in Tables
      /\ SameBut(s1, s2, {"members"})
      /\ \A u \in Types \ {t} : s2.members[u] = s1.members[u]
      /\ \A r : r \in s2.members[t] <=> r \in s1.members[t] /\ r.id \notin IdsOf(l)
  BY <1>1, MembersDeleted
<1> HIDE DEF s2
<1>3. /\ s3 \in Tables
      /\ SameBut(s2, s3, {"current"})
      /\ \A u \in Types \ {t} : s3.current[u] = s2.current[u]
      /\ \A id \in Ids \ IdsOf(l) : s3.current[t][id] = s2.current[t][id]
      /\ \A i \in DOMAIN l : s3.current[t][l[i].id] = ShownRow(l[i])
  BY <1>2, CurrentShown
<1> HIDE DEF s3
<1>4. /\ s3.tags = s1.tags /\ s3.members = s2.members /\ s1.members = tb.members
      /\ s2.current = tb.current
      /\ SameBut(tb, s3, {"current", "tags", "members"})
  BY <1>1, <1>2, <1>3 DEF SameBut
<1>5. /\ mid \in Tables
      /\ SameBut(s3, mid, {"tags", "members"})
      /\ \A u \in Types \ {t} : mid.tags[u] = s3.tags[u] /\ mid.members[u] = s3.members[u]
      /\ \A r : r \in mid.tags[t] <=>
           \/ r \in s3.tags[t] /\ r.id \notin IdsOf(l)
           \/ \E i \in DOMAIN l : \E g \in l[i].tags : r = TagRowOf(l[i], g)
      /\ \A r : r \in mid.members[t] <=>
           \/ r \in s3.members[t] /\ r.id \notin IdsOf(l)
           \/ \E i \in DOMAIN l : \E k \in DOMAIN l[i].members : r = MemberRowOf(l[i], k)
  <2>1. \A r \in s3.tags[t] \cup s3.members[t] : r.id \notin IdsOf(l)
    BY <1>1, <1>2, <1>4
  <2>2. QED
    BY <2>1, <1>3, InsertsRewrite
<1> HIDE DEF mid
<1>6. /\ mid.current = s3.current /\ mid.id_seq = tb.id_seq
      /\ SameBut(tb, mid, {"current", "tags", "members", "id_seq"})
  BY <1>4, <1>5 DEF SameBut
<1>7. \A i \in DOMAIN l : mid.current[t][l[i].id] = rw[i]
  BY <1>3, <1>6 DEF ShownRows
<1> HIDE DEF rw
<1>8. CurrentRewritten(tb, mid, t, l, rw)
  <2>1. \A u \in Types \ {t} :
          /\ mid.current[u] = tb.current[u] /\ mid.tags[u] = tb.tags[u]
          /\ mid.members[u] = tb.members[u] /\ mid.id_seq[u] = tb.id_seq[u]
    BY <1>1, <1>2, <1>3, <1>4, <1>5, <1>6
  <2>2. \A id \in Ids \ IdsOf(l) : mid.current[t][id] = tb.current[t][id]
    BY <1>3, <1>4, <1>6
  <2>3. \A r : r \in s3.tags[t] <=> r \in tb.tags[t] /\ r.id \notin IdsOf(l)
    BY <1>1, <1>4
  <2>4. \A r : r \in s3.members[t] <=> r \in tb.members[t] /\ r.id \notin IdsOf(l)
    BY <1>2, <1>4
  <2>5. QED
    BY <2>1, <2>2, <2>3, <2>4, <1>5, <1>7 DEF CurrentRewritten
<1>9. Rewritten(tb, Saved(mid, t, l), t, l, rw)
  BY <1>6, <1>8, SavesExtend DEF Saved
<1>10. Saved(mid, t, l).id_seq = mid.id_seq
  <2>1. IdsOf(l) \in SUBSET Ids /\ IdsWithTags(l) \in SUBSET Ids
    BY ListedIds
  <2> DEFINE h1 == SaveHistory(mid, t, IdsOf(l))
             h2 == SaveTagsHistory(h1, t, IdsWithTags(l))
             h3 == SaveMembersHistory(h2, t, IdsOf(l))
  <2>2. h1 \in Tables /\ h1.id_seq = mid.id_seq
    BY <2>1, <1>5, HistorySaved DEF SameBut
  <2> HIDE DEF h1
  <2>3. h2 \in Tables /\ h2.id_seq = h1.id_seq
    BY <2>1, <2>2, TagsHistorySaved DEF SameBut
  <2> HIDE DEF h2
  <2>4. h3.id_seq = h2.id_seq
    BY <2>1, <2>3, MembersHistorySaved DEF SameBut
  <2>5. QED
    BY <2>2, <2>3, <2>4 DEF Saved, h1, h2
<1>11. QED
  BY <1>6, <1>9, <1>10 DEF Updated, mid, s3, s2, s1, rw

LEMMA DeleteRewrites ==
    ASSUME NEW tb \in Tables, NEW t \in Types, NEW l, Listed(l), Unique(l),
           \A i \in DOMAIN l : l[i].tags = {} /\ l[i].members = <<>>
    PROVE  /\ Rewritten(tb, Deleted(tb, t, l), t, l, HiddenRows(tb, t, l))
           /\ Deleted(tb, t, l).id_seq = tb.id_seq
<1> DEFINE s1 == Hidden(tb, t, l)
           s2 == DeleteTags(s1, t, IdsOf(l))
           s3 == DeleteMembers(s2, t, IdsOf(l))
           nt == SaveHistory(s3, t, IdsOf(l))
           rw == HiddenRows(tb, t, l)
<1>1. /\ s1 \in Tables
      /\ SameBut(tb, s1, {"current"})
      /\ \A u \in Types \ {t} : s1.current[u] = tb.current[u]
      /\ \A id \in Ids \ IdsOf(l) : s1.current[t][id] = tb.current[t][id]
      /\ \A i \in DOMAIN l : s1.current[t][l[i].id] = HiddenRow(tb, t, l[i])
  BY CurrentHidden
<1> HIDE DEF s1
<1>2. /\ s2 \in Tables
      /\ SameBut(s1, s2, {"tags"})
      /\ \A u \in Types \ {t} : s2.tags[u] = s1.tags[u]
      /\ \A r : r \in s2.tags[t] <=> r \in s1.tags[t] /\ r.id \notin IdsOf(l)
  BY <1>1, TagsDeleted
<1> HIDE DEF s2
<1>3. /\ s3 \in Tables
      /\ SameBut(s2, s3, {"members"})
      /\ \A u \in Types \ {t} : s3.members[u] = s2.members[u]
      /\ \A r : r \in s3.members[t] <=> r \in s2.members[t] /\ r.id \notin IdsOf(l)
  BY <1>2, MembersDeleted
<1> HIDE DEF s3
<1>4. /\ nt \in Tables
      /\ SameBut(s3, nt, {"history"})
      /\ \A u \in Types \ {t} : nt.history[u] = s3.history[u]
      /\ \A r : r \in nt.history[t] <=>
           \/ r \in s3.history[t]
           \/ \E id \in IdsOf(l) : r = [id |-> id, version |-> s3.current[t][id].version,
                                        visible |-> s3.current[t][id].visible,
                                        loc |-> s3.current[t][id].loc]
  BY <1>3, ListedIds, HistorySaved
<1> HIDE DEF nt
<1>5. /\ nt.current = s1.current /\ nt.tags = s2.tags /\ s1.tags = tb.tags
      /\ nt.members = s3.members /\ s2.members = tb.members /\ nt.id_seq = tb.id_seq
      /\ s3.history = tb.history /\ nt.history_tags = tb.history_tags
      /\ nt.history_members = tb.history_members /\ s3.current = s1.current
  BY <1>1, <1>2, <1>3, <1>4 DEF SameBut
<1>6. \A i \in DOMAIN l : nt.current[t][l[i].id] = rw[i]
  BY <1>1, <1>5 DEF HiddenRows
<1> HIDE DEF rw
<1>7. CurrentRewritten(tb, nt, t, l, rw)
  <2>1. \A u \in Types \ {t} :
          /\ nt.current[u] = tb.current[u] /\ nt.tags[u] = tb.tags[u]
          /\ nt.members[u] = tb.members[u] /\ nt.id_seq[u] = tb.id_seq[u]
    BY <1>1, <1>2, <1>3, <1>5
  <2>2. \A id \in Ids \ IdsOf(l) : nt.current[t][id] = tb.current[t][id]
    BY <1>1, <1>5
  <2>3. \A r : r \in nt.tags[t] <=> r \in tb.tags[t] /\ r.id \notin IdsOf(l)
    BY <1>2, <1>5
  <2>4. \A r : r \in nt.members[t] <=> r \in tb.members[t] /\ r.id \notin IdsOf(l)
    BY <1>3, <1>5
  <2>5. \A i \in DOMAIN l : l[i].tags = {} /\ DOMAIN l[i].members = {}
    OBVIOUS
  <2>6. QED
    BY <2>1, <2>2, <2>3, <2>4, <2>5, <1>4, <1>6 DEF CurrentRewritten
<1>8. \A r : r \in nt.history[t] <=>
         r \in tb.history[t] \/ \E i \in DOMAIN l : r = HistoryRowOf(l[i], rw[i])
  <2>1. \A i \in DOMAIN l : l[i].id \in IdsOf(l) /\ s3.current[t][l[i].id] = rw[i]
    BY <1>5, <1>6, ListedIds
  <2>2. \A id \in IdsOf(l) : \E i \in DOMAIN l : l[i].id = id
    BY DEF IdsOf
  <2>3. \A i \in DOMAIN l :
          HistoryRowOf(l[i], rw[i]) =
             [id |-> l[i].id, version |-> s3.current[t][l[i].id].version,
              visible |-> s3.current[t][l[i].id].visible, loc |-> s3.current[t][l[i].id].loc]
    BY <2>1 DEF HistoryRowOf
  <2>4. \A r : (\E id \in IdsOf(l) : r = [id |-> id, version |-> s3.current[t][id].version,
                                        visible |-> s3.current[t][id].visible,
                                        loc |-> s3.current[t][id].loc])
               <=> \E i \in DOMAIN l : r = HistoryRowOf(l[i], rw[i])
    <3>1. ASSUME NEW r, NEW id \in IdsOf(l),
                 r = [id |-> id, version |-> s3.current[t][id].version,
                      visible |-> s3.current[t][id].visible, loc |-> s3.current[t][id].loc]
          PROVE  \E i \in DOMAIN l : r = HistoryRowOf(l[i], rw[i])
      <4>1. PICK i \in DOMAIN l : l[i].id = id
        BY <2>2
      <4>2. r = HistoryRowOf(l[i], rw[i])
        BY <3>1, <4>1, <2>3
      <4>3. QED
        BY <4>2
    <3>2. \A i \in DOMAIN l : l[i].id \in IdsOf(l)
      BY <2>1
    <3>3. QED
      BY <3>1, <3>2, <2>3
  <2>5. QED
    BY <2>4, <1>4, <1>5
<1>9. HistoryExtended(tb, nt, t, l, rw)
  <2>1. \A i \in DOMAIN l : l[i].tags = {} /\ DOMAIN l[i].members = {}
    OBVIOUS
  <2>2. \A u \in Types \ {t} :
          /\ nt.history[u] = tb.history[u] /\ nt.history_tags[u] = tb.history_tags[u]
          /\ nt.history_members[u] = tb.history_members[u]
    BY <1>4, <1>5
  <2>3. QED
    BY <2>1, <2>2, <1>5, <1>8 DEF HistoryExtended
<1>10. QED
  BY <1>5, <1>7, <1>9 DEF Rewritten, Deleted, nt, s3, s2, s1, rw

-----------------------------------------------------------------------------
(* What a rewrite keeps. *)

\* The rows of a write: each has the version after the current one, and what
\* is deleted loses its tags and members.
GoodRows(tb, t, l, rw) ==
    /\ Listed(l) /\ Unique(l)
    /\ rw \in [DOMAIN l -> Row]
    /\ \A i \in DOMAIN l :
         /\ rw[i].version = tb.current[t][l[i].id].version + 1
         /\ ~rw[i].visible => l[i].tags = {} /\ l[i].members = <<>>
         /\ t = "Node" => l[i].members = <<>>
         /\ t = "Way" => \A k \in DOMAIN l[i].members : l[i].members[k].type = "Node"

\* The row of every element of the type after the write.
LEMMA RowsAfter ==
    ASSUME NEW tb \in Tables, NEW nt, NEW t \in Types, NEW l, NEW rw,
           Rewritten(tb, nt, t, l, rw), GoodRows(tb, t, l, rw)
    PROVE  /\ nt \in Tables
           /\ \A u \in Types \ {t} : nt.current[u] = tb.current[u]
           /\ \A id \in Ids : \/ nt.current[t][id] = tb.current[t][id] /\ id \notin IdsOf(l)
                              \/ \E i \in DOMAIN l : l[i].id = id /\ nt.current[t][id] = rw[i]
           /\ \A i \in DOMAIN l : l[i].id \in Ids /\ l[i].id \in IdsOf(l) /\ rw[i] \in Row
           /\ \A u \in Types, id \in Ids :
                /\ tb.current[u][id] \in Row /\ nt.current[u][id] \in Row
                /\ tb.current[u][id].version <= nt.current[u][id].version
<1>1. nt \in Tables /\ \A u \in Types \ {t} : nt.current[u] = tb.current[u]
  BY DEF Rewritten, CurrentRewritten
<1>2. \A i \in DOMAIN l : l[i].id \in Ids /\ l[i].id \in IdsOf(l) /\ rw[i] \in Row
  BY ListedIds DEF GoodRows
<1>3. \A id \in Ids : \/ nt.current[t][id] = tb.current[t][id] /\ id \notin IdsOf(l)
                      \/ \E i \in DOMAIN l : l[i].id = id /\ nt.current[t][id] = rw[i]
  BY DEF Rewritten, CurrentRewritten, IdsOf
<1>4. \A u \in Types, id \in Ids : tb.current[u][id] \in Row /\ nt.current[u][id] \in Row
  BY <1>1, TablesFields
<1>5. \A u \in Types, id \in Ids : tb.current[u][id].version <= nt.current[u][id].version
  <2> SUFFICES ASSUME NEW u \in Types, NEW id \in Ids
               PROVE  tb.current[u][id].version <= nt.current[u][id].version
    OBVIOUS
  <2>1. tb.current[u][id].version \in Nat
    BY <1>4 DEF Row
  <2>2. CASE nt.current[u][id] = tb.current[u][id]
    BY <2>1, <2>2
  <2>3. CASE u = t /\ \E i \in DOMAIN l : l[i].id = id /\ nt.current[t][id] = rw[i]
    BY <2>1, <2>3 DEF GoodRows
  <2>4. QED
    BY <1>1, <1>3, <2>2, <2>3
<1>6. QED
  BY <1>1, <1>2, <1>3, <1>4, <1>5

LEMMA RefsKept ==
    ASSUME NEW tb \in Tables, NEW nt, NEW t \in Types, NEW l, NEW rw,
           Rewritten(tb, nt, t, l, rw), GoodRows(tb, t, l, rw),
           RefsVisible(tb), Regular(tb),
           \A i \in DOMAIN l : \A k \in DOMAIN l[i].members :
             l[i].members[k].type \in {"Node", "Way"} =>
               Visible(tb, l[i].members[k].type, l[i].members[k].ref),
           \A i \in DOMAIN l : ~rw[i].visible =>
             \A p \in Types : \A m \in tb.members[p] :
               m.type = t /\ m.ref = l[i].id => t = "Relation"
    PROVE  RefsVisible(nt)
<1> SUFFICES ASSUME NEW p \in Types, NEW m \in nt.members[p], m.type \in {"Node", "Way"}
             PROVE  Visible(nt, m.type, m.ref)
  BY DEF RefsVisible
<1>1. /\ nt \in Tables
      /\ \A u \in Types \ {t} : nt.current[u] = tb.current[u]
      /\ \A id \in Ids : \/ nt.current[t][id] = tb.current[t][id] /\ id \notin IdsOf(l)
                         \/ \E i \in DOMAIN l : l[i].id = id /\ nt.current[t][id] = rw[i]
  BY RowsAfter
<1>2. m \in MemberRow
  BY <1>1, TablesFields
<1>3. m.ref \in Ids /\ m.type \in Types
  BY <1>2 DEF MemberRow
<1>4. CASE m \in tb.members[p]
  <2>1. Visible(tb, m.type, m.ref)
    BY <1>4 DEF RefsVisible
  <2>2. CASE m.type # t
    BY <2>1, <2>2, <1>1, <1>3 DEF Visible
  <2>3. CASE m.type = t
    <3>1. CASE nt.current[t][m.ref] = tb.current[t][m.ref]
      BY <3>1, <2>1, <2>3 DEF Visible
    <3>2. CASE \E i \in DOMAIN l : l[i].id = m.ref /\ nt.current[t][m.ref] = rw[i]
      <4>1. PICK i \in DOMAIN l : l[i].id = m.ref /\ nt.current[t][m.ref] = rw[i]
        BY <3>2
      <4>2. rw[i].visible
        BY <4>1, <1>4, <2>3
      <4>3. QED
        BY <4>1, <4>2, <2>3 DEF Visible
    <3>3. QED
      BY <3>1, <3>2, <1>1, <1>3
  <2>4. QED
    BY <2>2, <2>3
<1>5. CASE m \notin tb.members[p]
  <2>1. p = t
    BY <1>5 DEF Rewritten, CurrentRewritten
  <2>2. PICK i \in DOMAIN l : \E k \in DOMAIN l[i].members : m = MemberRowOf(l[i], k)
    BY <2>1, <1>5 DEF Rewritten, CurrentRewritten
  <2>3. PICK k \in DOMAIN l[i].members : m = MemberRowOf(l[i], k)
    BY <2>2
  <2>4. m.type = l[i].members[k].type /\ m.ref = l[i].members[k].ref
    BY <2>3 DEF MemberRowOf
  <2>5. Visible(tb, m.type, m.ref)
    BY <2>4
  <2>6. m.type # t
    BY <2>4 DEF GoodRows
  <2>7. QED
    BY <2>5, <2>6, <1>1, <1>3 DEF Visible
<1>6. QED
  BY <1>4, <1>5

LEMMA IdsFinite == IsFiniteSet(Ids)
<1>1. 1 \in Int /\ MaxId \in Int
  BY MaxIdAssumption
<1>2. QED
  BY <1>1, FS_Interval DEF Ids

LEMMA ImageFinite ==
    ASSUME NEW S, IsFiniteSet(S), NEW f, DOMAIN f = S
    PROVE  IsFiniteSet({f[x] : x \in S})
<1> DEFINE T == {f[x] : x \in S}
           g == [x \in S |-> f[x]]
<1>1. g \in Surjection(S, T)
  BY DEF Surjection
<1>2. QED
  BY <1>1, FS_Surjection

LEMMA RegularKept ==
    ASSUME NEW tb \in Tables, NEW nt, NEW t \in Types, NEW l, NEW rw,
           Rewritten(tb, nt, t, l, rw), GoodRows(tb, t, l, rw), Regular(tb),
           tb.id_seq[t] <= nt.id_seq[t],
           \A i \in DOMAIN l : l[i].id <= nt.id_seq[t]
    PROVE  Regular(nt)
<1>1. /\ nt \in Tables
      /\ \A u \in Types \ {t} : nt.current[u] = tb.current[u]
      /\ \A id \in Ids : \/ nt.current[t][id] = tb.current[t][id] /\ id \notin IdsOf(l)
                         \/ \E i \in DOMAIN l : l[i].id = id /\ nt.current[t][id] = rw[i]
      /\ \A i \in DOMAIN l : l[i].id \in Ids /\ l[i].id \in IdsOf(l) /\ rw[i] \in Row
      /\ \A u \in Types, id \in Ids :
           /\ tb.current[u][id] \in Row /\ nt.current[u][id] \in Row
           /\ tb.current[u][id].version <= nt.current[u][id].version
  BY RowsAfter
<1>2. \A i \in DOMAIN l : nt.current[t][l[i].id] = rw[i]
  BY DEF Rewritten, CurrentRewritten
<1>3. \A u \in Types : \A r \in nt.members[u] \ tb.members[u] :
        u = t /\ \E i \in DOMAIN l : \E k \in DOMAIN l[i].members : r = MemberRowOf(l[i], k)
  BY DEF Rewritten, CurrentRewritten
<1>4. nt.members["Node"] = {}
  <2>1. tb.members["Node"] = {}
    BY DEF Regular
  <2>2. ASSUME NEW r \in nt.members["Node"] PROVE FALSE
    <3>1. "Node" = t /\ \E i \in DOMAIN l : \E k \in DOMAIN l[i].members : r = MemberRowOf(l[i], k)
      BY <1>3, <2>1 DEF Types
    <3>2. PICK i \in DOMAIN l : \E k \in DOMAIN l[i].members : r = MemberRowOf(l[i], k)
      BY <3>1
    <3>3. l[i].members = <<>>
      BY <3>1 DEF GoodRows
    <3>4. DOMAIN l[i].members = {}
      BY <3>3
    <3>5. QED
      BY <3>2, <3>4
  <2>3. QED
    BY <2>2
<1>5. \A m \in nt.members["Way"] : m.type = "Node"
  <2> SUFFICES ASSUME NEW m \in nt.members["Way"] PROVE m.type = "Node"
    OBVIOUS
  <2>1. CASE m \in tb.members["Way"]
    BY <2>1 DEF Regular
  <2>2. CASE m \notin tb.members["Way"]
    <3>1. "Way" = t /\ \E i \in DOMAIN l : \E k \in DOMAIN l[i].members : m = MemberRowOf(l[i], k)
      BY <1>3, <2>2 DEF Types
    <3>2. PICK i \in DOMAIN l : \E k \in DOMAIN l[i].members : m = MemberRowOf(l[i], k)
      BY <3>1
    <3>3. PICK k \in DOMAIN l[i].members : m = MemberRowOf(l[i], k)
      BY <3>2
    <3>4. l[i].members[k].type = "Node"
      BY <3>1 DEF GoodRows
    <3>5. QED
      BY <3>3, <3>4 DEF MemberRowOf
  <2>3. QED
    BY <2>1, <2>2
<1>6. ASSUME NEW u \in Types, NEW id \in Ids
      PROVE  /\ Exists(nt, u, id) => id <= nt.id_seq[u]
             /\ Visible(nt, u, id) => Exists(nt, u, id)
  <2>1. CASE u # t
    <3>1. nt.current[u] = tb.current[u] /\ nt.id_seq[u] = tb.id_seq[u]
      BY <2>1 DEF Rewritten, CurrentRewritten
    <3>2. QED
      BY <3>1 DEF Regular, Exists, Visible
  <2>2. CASE u = t
    <3>1. tb.id_seq[t] \in Nat /\ nt.id_seq[t] \in Nat /\ id \in Nat
      BY <1>1, TablesFields, MaxIdAssumption DEF Ids
    <3>2. CASE nt.current[t][id] = tb.current[t][id]
      <4>1. /\ Exists(tb, t, id) => id <= tb.id_seq[t]
            /\ Visible(tb, t, id) => Exists(tb, t, id)
        BY DEF Regular
      <4>2. QED
        BY <4>1, <3>1, <3>2, <2>2 DEF Exists, Visible
    <3>3. CASE \E i \in DOMAIN l : l[i].id = id /\ nt.current[t][id] = rw[i]
      <4>1. PICK i \in DOMAIN l : l[i].id = id /\ nt.current[t][id] = rw[i]
        BY <3>3
      <4>2. tb.current[t][id].version \in Nat /\ rw[i].version = tb.current[t][id].version + 1
        BY <1>1, <4>1 DEF Row, GoodRows
      <4>3. nt.current[t][id].version > 0
        BY <4>1, <4>2
      <4>4. QED
        BY <4>1, <4>3, <2>2 DEF Exists
    <3>4. QED
      BY <1>1, <3>2, <3>3
  <2>3. QED
    BY <2>1, <2>2
<1>7. ASSUME NEW u \in Types, NEW r \in nt.history_tags[u] \cup nt.history_members[u]
      PROVE  r.version <= nt.current[u][r.id].version
  <2>1. CASE r \in tb.history_tags[u] \cup tb.history_members[u]
    <3>1. r \in HistoryTagRow \/ r \in HistoryMemberRow
      BY <2>1, TablesFields
    <3>2. r.id \in Ids /\ r.version \in Nat
      BY <3>1 DEF HistoryTagRow, HistoryMemberRow
    <3>3. r.version <= tb.current[u][r.id].version
      BY <2>1 DEF Regular
    <3>4. tb.current[u][r.id].version \in Nat /\ nt.current[u][r.id].version \in Nat
      BY <3>2, <1>1 DEF Row
    <3>5. QED
      BY <1>1, <3>2, <3>3, <3>4
  <2>2. CASE r \notin tb.history_tags[u] \cup tb.history_members[u]
    <3>1. u = t
      BY <2>2 DEF Rewritten, HistoryExtended
    <3>2. \/ \E i \in DOMAIN l : \E g \in l[i].tags : r = HistoryTagRowOf(l[i], rw[i], g)
          \/ \E i \in DOMAIN l : \E k \in DOMAIN l[i].members :
               r = HistoryMemberRowOf(l[i], rw[i], k)
      BY <3>1, <2>2 DEF Rewritten, HistoryExtended
    <3>3. \E i \in DOMAIN l : r.id = l[i].id /\ r.version = rw[i].version
      BY <3>2 DEF HistoryTagRowOf, HistoryMemberRowOf
    <3>4. PICK i \in DOMAIN l : r.id = l[i].id /\ r.version = rw[i].version
      BY <3>3
    <3>5. nt.current[u][r.id].version = r.version /\ r.version \in Nat
      BY <3>1, <3>4, <1>1, <1>2 DEF Row
    <3>6. QED
      BY <3>5
  <2>3. QED
    BY <2>1, <2>2
<1>8. ASSUME NEW u \in Types PROVE IsFiniteSet(nt.history[u])
  <2>1. IsFiniteSet(tb.history[u])
    BY DEF Regular
  <2>2. CASE u # t
    BY <2>1, <2>2 DEF Rewritten, HistoryExtended
  <2>3. CASE u = t
    <3> DEFINE Saves == [id \in Ids |->
                           [id |-> id, version |-> nt.current[t][id].version,
                            visible |-> nt.current[t][id].visible,
                            loc |-> nt.current[t][id].loc]]
               new == {Saves[id] : id \in Ids}
    <3>1. \A id \in Ids :
            Saves[id] = [id |-> id, version |-> nt.current[t][id].version,
                         visible |-> nt.current[t][id].visible,
                         loc |-> nt.current[t][id].loc]
      OBVIOUS
    <3>2. IsFiniteSet(new)
      <4>1. DOMAIN Saves = Ids
        OBVIOUS
      <4> HIDE DEF Saves
      <4>2. QED
        BY <4>1, IdsFinite, ImageFinite
    <3> HIDE DEF Saves
    <3>3. IsFiniteSet(tb.history[t] \cup new)
      BY <3>2, <2>1, <2>3, FS_Union
    <3>4. nt.history[t] \subseteq tb.history[t] \cup new
      <4>1. ASSUME NEW i \in DOMAIN l PROVE HistoryRowOf(l[i], rw[i]) = Saves[l[i].id]
        BY <1>1, <1>2, <3>1 DEF HistoryRowOf
      <4>2. \A r \in nt.history[t] :
              r \in tb.history[t] \/ \E i \in DOMAIN l : r = HistoryRowOf(l[i], rw[i])
        BY DEF Rewritten, HistoryExtended
      <4>3. QED
        BY <4>1, <4>2, <1>1
    <3>5. QED
      BY <3>3, <3>4, <2>3, FS_Subset
  <2>4. QED
    BY <2>2, <2>3
<1>9. QED
  BY <1>4, <1>5, <1>6, <1>7, <1>8 DEF Regular

\* What the tables hold about an element that is not written is the same.
LEMMA HistoryOfOthers ==
    ASSUME NEW tb \in Tables, NEW nt, NEW t \in Types, NEW l, NEW rw,
           Rewritten(tb, nt, t, l, rw), Listed(l),
           NEW u \in Types, NEW id \in Ids, u # t \/ id \notin IdsOf(l),
           HistoryMatches(tb, u, id)
    PROVE  HistoryMatches(nt, u, id)
<1>1. nt.current[u][id] = tb.current[u][id]
  BY DEF Rewritten, CurrentRewritten
<1>2. CASE u # t
  <2>1. /\ nt.tags[u] = tb.tags[u] /\ nt.members[u] = tb.members[u]
        /\ nt.history[u] = tb.history[u] /\ nt.history_tags[u] = tb.history_tags[u]
        /\ nt.history_members[u] = tb.history_members[u]
    BY <1>2 DEF Rewritten, CurrentRewritten, HistoryExtended
  <2>2. QED
    BY <1>1, <2>1 DEF HistoryMatches, HistoryOf, TagsAt, MembersAt, CurrentTags, CurrentMembers
<1>3. CASE u = t /\ id \notin IdsOf(l)
  <2>1. \A i \in DOMAIN l : l[i].id # id
    BY <1>3, ListedIds
  <2>2. \A r : r.id = id => (r \in nt.tags[t] <=> r \in tb.tags[t])
    BY <1>3, <2>1 DEF Rewritten, CurrentRewritten, TagRowOf
  <2>3. \A r : r.id = id => (r \in nt.members[t] <=> r \in tb.members[t])
    BY <1>3, <2>1 DEF Rewritten, CurrentRewritten, MemberRowOf
  <2>4. \A r : r.id = id => (r \in nt.history[t] <=> r \in tb.history[t])
    BY <1>3, <2>1 DEF Rewritten, HistoryExtended, HistoryRowOf
  <2>5. \A r : r.id = id => (r \in nt.history_tags[t] <=> r \in tb.history_tags[t])
    BY <1>3, <2>1 DEF Rewritten, HistoryExtended, HistoryTagRowOf
  <2>6. \A r : r.id = id => (r \in nt.history_members[t] <=> r \in tb.history_members[t])
    BY <1>3, <2>1 DEF Rewritten, HistoryExtended, HistoryMemberRowOf
  <2>7. HistoryOf(nt, t, id) = HistoryOf(tb, t, id)
    BY <2>4 DEF HistoryOf
  <2>8. CurrentTags(nt, t, id) = CurrentTags(tb, t, id)
    <3>1. {x \in nt.tags[t] : x.id = id} = {x \in tb.tags[t] : x.id = id}
      BY <2>2
    <3>2. QED
      BY <3>1 DEF CurrentTags
  <2>9. CurrentMembers(nt, t, id) = CurrentMembers(tb, t, id)
    <3>1. {x \in nt.members[t] : x.id = id} = {x \in tb.members[t] : x.id = id}
      BY <2>3
    <3>2. QED
      BY <3>1 DEF CurrentMembers
  <2>10. \A v : TagsAt(nt, t, id, v) = TagsAt(tb, t, id, v)
    <3>1. ASSUME NEW v
          PROVE  {x \in nt.history_tags[t] : x.id = id /\ x.version = v}
                   = {x \in tb.history_tags[t] : x.id = id /\ x.version = v}
      BY <2>5
    <3>2. QED
      BY <3>1 DEF TagsAt
  <2>11. \A v : MembersAt(nt, t, id, v) = MembersAt(tb, t, id, v)
    <3>1. ASSUME NEW v
          PROVE  {x \in nt.history_members[t] : x.id = id /\ x.version = v}
                   = {x \in tb.history_members[t] : x.id = id /\ x.version = v}
      BY <2>6
    <3>2. QED
      BY <3>1 DEF MembersAt
  <2>12. QED
    BY <1>1, <1>3, <2>7, <2>8, <2>9, <2>10, <2>11 DEF HistoryMatches
<1>4. QED
  BY <1>2, <1>3

\* The history of an element that is written gets the version it has now.
LEMMA HistoryOfWritten ==
    ASSUME NEW tb \in Tables, NEW nt, NEW t \in Types, NEW l, NEW rw,
           Rewritten(tb, nt, t, l, rw), GoodRows(tb, t, l, rw), Regular(tb),
           NEW i \in DOMAIN l, HistoryMatches(tb, t, l[i].id)
    PROVE  HistoryMatches(nt, t, l[i].id)
<1> DEFINE id == l[i].id
           v == tb.current[t][id].version
           new == HistoryRowOf(l[i], rw[i])
           MemberOf(k) == [seq |-> k, type |-> l[i].members[k].type, ref |-> l[i].members[k].ref]
<1>1. id \in Ids /\ rw[i] \in Row /\ nt.current[t][id] = rw[i] /\ id \in IdsOf(l)
  BY ListedIds DEF GoodRows, Rewritten, CurrentRewritten
<1>2. v \in Nat /\ rw[i].version = v + 1
  <2>1. tb.current[t][id] \in Row
    BY <1>1, TablesFields
  <2>2. QED
    BY <2>1 DEF Row, GoodRows
<1>3. \A j \in DOMAIN l : l[j].id = id => j = i
  BY DEF GoodRows, Unique
<1>4. new.id = id /\ new.version = v + 1 /\ new \in nt.history[t]
  BY <1>2 DEF HistoryRowOf, Rewritten, HistoryExtended
<1>5. \A r : r \in HistoryOf(nt, t, id) <=> r \in HistoryOf(tb, t, id) \/ r = new
  <2>1. ASSUME NEW r \in HistoryOf(nt, t, id), r \notin HistoryOf(tb, t, id)
        PROVE  r = new
    <3>1. PICK j \in DOMAIN l : r = HistoryRowOf(l[j], rw[j])
      BY <2>1 DEF HistoryOf, Rewritten, HistoryExtended
    <3>2. l[j].id = id
      BY <2>1, <3>1 DEF HistoryOf, HistoryRowOf
    <3>3. QED
      BY <3>1, <3>2, <1>3
  <2>2. ASSUME NEW r \in HistoryOf(tb, t, id) PROVE r \in HistoryOf(nt, t, id)
    BY DEF HistoryOf, Rewritten, HistoryExtended
  <2>3. new \in HistoryOf(nt, t, id)
    BY <1>4 DEF HistoryOf
  <2>4. QED
    BY <2>1, <2>2, <2>3
<1>6. /\ {r.version : r \in HistoryOf(tb, t, id)} = 1..v
      /\ \A r, q \in HistoryOf(tb, t, id) : r.version = q.version => r = q
  BY DEF HistoryMatches
<1>7. {r.version : r \in HistoryOf(nt, t, id)} = 1..(v + 1)
  <2>1. \A n \in 1..v : \E r \in HistoryOf(tb, t, id) : r.version = n
    BY <1>6
  <2>2. \A r \in HistoryOf(tb, t, id) : r.version \in 1..v
    BY <1>6
  <2>3. \A r \in HistoryOf(nt, t, id) : r.version \in 1..(v + 1)
    BY <2>2, <1>5, <1>4, <1>2
  <2>4. \A n \in 1..(v + 1) : \E r \in HistoryOf(nt, t, id) : r.version = n
    BY <2>1, <1>5, <1>4, <1>2
  <2>5. QED
    BY <2>3, <2>4
<1>8. \A r, q \in HistoryOf(nt, t, id) : r.version = q.version => r = q
  <2>1. \A r \in HistoryOf(tb, t, id) : r.version \in 1..v
    BY <1>6
  <2>2. QED
    BY <2>1, <1>2, <1>4, <1>5, <1>6
<1>9. [id |-> id, version |-> nt.current[t][id].version, visible |-> nt.current[t][id].visible,
       loc |-> nt.current[t][id].loc] = new
  BY <1>1 DEF HistoryRowOf
<1>10. CurrentTags(nt, t, id) = l[i].tags
  <2>1. \A r : r \in nt.tags[t] /\ r.id = id <=> \E g \in l[i].tags : r = TagRowOf(l[i], g)
    <3>1. ASSUME NEW r \in nt.tags[t], r.id = id
          PROVE  \E g \in l[i].tags : r = TagRowOf(l[i], g)
      <4>1. PICK j \in DOMAIN l : \E g \in l[j].tags : r = TagRowOf(l[j], g)
        BY <3>1, <1>1 DEF Rewritten, CurrentRewritten
      <4>2. l[j].id = id
        BY <4>1, <3>1 DEF TagRowOf
      <4>3. QED
        BY <4>1, <4>2, <1>3
    <3>2. ASSUME NEW g \in l[i].tags
          PROVE  TagRowOf(l[i], g) \in nt.tags[t] /\ TagRowOf(l[i], g).id = id
      BY DEF Rewritten, CurrentRewritten, TagRowOf
    <3>3. QED
      BY <3>1, <3>2
  <2>2. \A g \in l[i].tags : TagRowOf(l[i], g).tag = g
    BY DEF TagRowOf
  <2>3. QED
    BY <2>1, <2>2 DEF CurrentTags
<1>11. TagsAt(nt, t, id, v + 1) = l[i].tags
  <2>1. \A r : r \in nt.history_tags[t] /\ r.id = id /\ r.version = v + 1
               <=> \E g \in l[i].tags : r = HistoryTagRowOf(l[i], rw[i], g)
    <3>1. ASSUME NEW r \in nt.history_tags[t], r.id = id, r.version = v + 1
          PROVE  \E g \in l[i].tags : r = HistoryTagRowOf(l[i], rw[i], g)
      <4>1. r \notin tb.history_tags[t]
        BY <3>1, <1>2 DEF Regular
      <4>2. PICK j \in DOMAIN l : \E g \in l[j].tags : r = HistoryTagRowOf(l[j], rw[j], g)
        BY <4>1, <3>1 DEF Rewritten, HistoryExtended
      <4>3. l[j].id = id
        BY <4>2, <3>1 DEF HistoryTagRowOf
      <4>4. QED
        BY <4>2, <4>3, <1>3
    <3>2. ASSUME NEW g \in l[i].tags
          PROVE  /\ HistoryTagRowOf(l[i], rw[i], g) \in nt.history_tags[t]
                 /\ HistoryTagRowOf(l[i], rw[i], g).id = id
                 /\ HistoryTagRowOf(l[i], rw[i], g).version = v + 1
      BY <1>2 DEF Rewritten, HistoryExtended, HistoryTagRowOf
    <3>3. QED
      BY <3>1, <3>2
  <2>2. \A g \in l[i].tags : HistoryTagRowOf(l[i], rw[i], g).tag = g
    BY DEF HistoryTagRowOf
  <2>3. QED
    BY <2>1, <2>2 DEF TagsAt
<1>12. CurrentMembers(nt, t, id) = {MemberOf(k) : k \in DOMAIN l[i].members}
  <2>1. \A r : r \in nt.members[t] /\ r.id = id
               <=> \E k \in DOMAIN l[i].members : r = MemberRowOf(l[i], k)
    <3>1. ASSUME NEW r \in nt.members[t], r.id = id
          PROVE  \E k \in DOMAIN l[i].members : r = MemberRowOf(l[i], k)
      <4>1. PICK j \in DOMAIN l : \E k \in DOMAIN l[j].members : r = MemberRowOf(l[j], k)
        BY <3>1, <1>1 DEF Rewritten, CurrentRewritten
      <4>2. l[j].id = id
        BY <4>1, <3>1 DEF MemberRowOf
      <4>3. QED
        BY <4>1, <4>2, <1>3
    <3>2. ASSUME NEW k \in DOMAIN l[i].members
          PROVE  MemberRowOf(l[i], k) \in nt.members[t] /\ MemberRowOf(l[i], k).id = id
      BY DEF Rewritten, CurrentRewritten, MemberRowOf
    <3>3. QED
      BY <3>1, <3>2
  <2>2. \A k : [seq |-> MemberRowOf(l[i], k).seq, type |-> MemberRowOf(l[i], k).type,
                ref |-> MemberRowOf(l[i], k).ref] = MemberOf(k)
    BY DEF MemberRowOf
  <2> HIDE DEF id, MemberOf
  <2>3. {x \in nt.members[t] : x.id = id} = {MemberRowOf(l[i], k) : k \in DOMAIN l[i].members}
    BY <2>1
  <2>4. QED
    BY <2>2, <2>3 DEF CurrentMembers
<1>13. MembersAt(nt, t, id, v + 1) = {MemberOf(k) : k \in DOMAIN l[i].members}
  <2>1. \A r : r \in nt.history_members[t] /\ r.id = id /\ r.version = v + 1
               <=> \E k \in DOMAIN l[i].members : r = HistoryMemberRowOf(l[i], rw[i], k)
    <3>1. ASSUME NEW r \in nt.history_members[t], r.id = id, r.version = v + 1
          PROVE  \E k \in DOMAIN l[i].members : r = HistoryMemberRowOf(l[i], rw[i], k)
      <4>1. r \notin tb.history_members[t]
        BY <3>1, <1>2 DEF Regular
      <4>2. PICK j \in DOMAIN l :
              \E k \in DOMAIN l[j].members : r = HistoryMemberRowOf(l[j], rw[j], k)
        BY <4>1, <3>1 DEF Rewritten, HistoryExtended
      <4>3. l[j].id = id
        BY <4>2, <3>1 DEF HistoryMemberRowOf
      <4>4. QED
        BY <4>2, <4>3, <1>3
    <3>2. ASSUME NEW k \in DOMAIN l[i].members
          PROVE  /\ HistoryMemberRowOf(l[i], rw[i], k) \in nt.history_members[t]
                 /\ HistoryMemberRowOf(l[i], rw[i], k).id = id
                 /\ HistoryMemberRowOf(l[i], rw[i], k).version = v + 1
      BY <1>2 DEF Rewritten, HistoryExtended, HistoryMemberRowOf
    <3>3. QED
      BY <3>1, <3>2
  <2>2. \A k : [seq |-> HistoryMemberRowOf(l[i], rw[i], k).seq,
                type |-> HistoryMemberRowOf(l[i], rw[i], k).type,
                ref |-> HistoryMemberRowOf(l[i], rw[i], k).ref] = MemberOf(k)
    BY DEF HistoryMemberRowOf
  <2> HIDE DEF id, MemberOf, v
  <2>3. {x \in nt.history_members[t] : x.id = id /\ x.version = v + 1}
          = {HistoryMemberRowOf(l[i], rw[i], k) : k \in DOMAIN l[i].members}
    BY <2>1
  <2>4. QED
    BY <2>2, <2>3 DEF MembersAt
<1>14. ~rw[i].visible => l[i].tags = {} /\ DOMAIN l[i].members = {}
  BY DEF GoodRows
<1>15. nt.current[t][id].version = v + 1 /\ nt.current[t][id].visible = rw[i].visible
  BY <1>1, <1>2
<1> HIDE DEF id, v, new, MemberOf
<1>16. new \in HistoryOf(nt, t, id)
  BY <1>5
<1>17. QED
  <2>1. HistoryMatches(nt, t, id)
    BY <1>7, <1>8, <1>9, <1>10, <1>11, <1>12, <1>13, <1>14, <1>15, <1>16 DEF HistoryMatches
  <2>2. QED
    BY <2>1 DEF id

\* tb has all of the history that old has, and only newer versions besides.
Grows(old, tb) ==
    \A t \in Types :
        /\ old.history[t] \subseteq tb.history[t]
        /\ old.history_tags[t] \subseteq tb.history_tags[t]
        /\ old.history_members[t] \subseteq tb.history_members[t]
        /\ \A id \in Ids : old.current[t][id].version <= tb.current[t][id].version
        /\ \A h \in tb.history[t] \ old.history[t] : h.version > old.current[t][h.id].version
        /\ \A r \in tb.history_tags[t] \ old.history_tags[t] :
               r.version > old.current[t][r.id].version

LEMMA GrowsOn ==
    ASSUME NEW old \in Tables, NEW tb \in Tables, Grows(old, tb),
           NEW nt, NEW t \in Types, NEW l, NEW rw,
           Rewritten(tb, nt, t, l, rw), GoodRows(tb, t, l, rw)
    PROVE  Grows(old, nt)
<1>1. /\ nt \in Tables
      /\ \A i \in DOMAIN l : l[i].id \in Ids /\ l[i].id \in IdsOf(l) /\ rw[i] \in Row
      /\ \A u \in Types, id \in Ids :
           /\ tb.current[u][id] \in Row /\ nt.current[u][id] \in Row
           /\ tb.current[u][id].version <= nt.current[u][id].version
  BY RowsAfter
<1>2. \A u \in Types, id \in Ids :
        /\ old.current[u][id].version \in Nat /\ tb.current[u][id].version \in Nat
        /\ nt.current[u][id].version \in Nat
        /\ old.current[u][id].version <= tb.current[u][id].version
  <2>1. \A u \in Types, id \in Ids : old.current[u][id] \in Row
    BY TablesFields
  <2>2. QED
    BY <1>1, <2>1 DEF Row, Grows
<1>3. \A u \in Types : /\ tb.history[u] \subseteq nt.history[u]
                       /\ tb.history_tags[u] \subseteq nt.history_tags[u]
                       /\ tb.history_members[u] \subseteq nt.history_members[u]
  <2> SUFFICES ASSUME NEW u \in Types
               PROVE  /\ tb.history[u] \subseteq nt.history[u]
                      /\ tb.history_tags[u] \subseteq nt.history_tags[u]
                      /\ tb.history_members[u] \subseteq nt.history_members[u]
    OBVIOUS
  <2>1. CASE u = t
    BY <2>1 DEF Rewritten, HistoryExtended
  <2>2. CASE u # t
    BY <2>2 DEF Rewritten, HistoryExtended
  <2>3. QED
    BY <2>1, <2>2
<1>4. \A i \in DOMAIN l : rw[i].version > old.current[t][l[i].id].version
  <2> SUFFICES ASSUME NEW i \in DOMAIN l
               PROVE  rw[i].version > old.current[t][l[i].id].version
    OBVIOUS
  <2>1. rw[i].version = tb.current[t][l[i].id].version + 1
    BY DEF GoodRows
  <2>2. QED
    BY <2>1, <1>1, <1>2
<1>5. ASSUME NEW u \in Types, NEW h \in nt.history[u] \ old.history[u]
      PROVE  h.version > old.current[u][h.id].version
  <2>1. CASE h \in tb.history[u]
    BY <2>1 DEF Grows
  <2>2. CASE h \notin tb.history[u]
    <3>1. u = t
      BY <2>2 DEF Rewritten, HistoryExtended
    <3>2. PICK i \in DOMAIN l : h = HistoryRowOf(l[i], rw[i])
      BY <2>2, <3>1 DEF Rewritten, HistoryExtended
    <3>3. h.id = l[i].id /\ h.version = rw[i].version
      BY <3>2 DEF HistoryRowOf
    <3>4. QED
      BY <3>1, <3>3, <1>4
  <2>3. QED
    BY <2>1, <2>2
<1>6. ASSUME NEW u \in Types, NEW r \in nt.history_tags[u] \ old.history_tags[u]
      PROVE  r.version > old.current[u][r.id].version
  <2>1. CASE r \in tb.history_tags[u]
    BY <2>1 DEF Grows
  <2>2. CASE r \notin tb.history_tags[u]
    <3>1. u = t
      BY <2>2 DEF Rewritten, HistoryExtended
    <3>2. PICK i \in DOMAIN l : \E g \in l[i].tags : r = HistoryTagRowOf(l[i], rw[i], g)
      BY <2>2, <3>1 DEF Rewritten, HistoryExtended
    <3>3. r.id = l[i].id /\ r.version = rw[i].version
      BY <3>2 DEF HistoryTagRowOf
    <3>4. QED
      BY <3>1, <3>3, <1>4
  <2>3. QED
    BY <2>1, <2>2
<1>7. ASSUME NEW u \in Types
      PROVE  /\ old.history[u] \subseteq nt.history[u]
             /\ old.history_tags[u] \subseteq nt.history_tags[u]
             /\ old.history_members[u] \subseteq nt.history_members[u]
  BY <1>3 DEF Grows
<1>8. ASSUME NEW u \in Types, NEW id \in Ids
      PROVE  old.current[u][id].version <= nt.current[u][id].version
  BY <1>1, <1>2
<1>9. QED
  BY <1>5, <1>6, <1>7, <1>8 DEF Grows

\* Tables as uploads have to leave them, but for relations in relations.
Sane(tb) ==
    /\ tb \in Tables
    /\ Regular(tb)
    /\ RefsVisible(tb)
    /\ \A t \in Types, id \in Ids : HistoryMatches(tb, t, id)

\* A write as the updaters' checks allow it: the ids are within the sequence,
\* the node and way members are visible, and what is deleted is not a member
\* of a way or, for nodes and ways, of a relation.
GoodWrite(tb, nt, t, l, rw) ==
    /\ Rewritten(tb, nt, t, l, rw)
    /\ GoodRows(tb, t, l, rw)
    /\ tb.id_seq[t] <= nt.id_seq[t]
    /\ \A i \in DOMAIN l :
         /\ l[i].id <= nt.id_seq[t]
         /\ \A k \in DOMAIN l[i].members :
              l[i].members[k].type \in {"Node", "Way"} =>
                Visible(tb, l[i].members[k].type, l[i].members[k].ref)
         /\ ~rw[i].visible =>
              \A p \in Types : \A m \in tb.members[p] :
                m.type = t /\ m.ref = l[i].id => t = "Relation"

LEMMA WriteKeeps ==
    ASSUME NEW old \in Tables, NEW tb, Sane(tb), Grows(old, tb),
           NEW nt, NEW t \in Types, NEW l, NEW rw, GoodWrite(tb, nt, t, l, rw)
    PROVE  Sane(nt) /\ Grows(old, nt)
<1>1. /\ tb \in Tables /\ Regular(tb) /\ RefsVisible(tb)
      /\ Rewritten(tb, nt, t, l, rw) /\ GoodRows(tb, t, l, rw)
  BY DEF Sane, GoodWrite
<1>2. nt \in Tables /\ Grows(old, nt)
  BY <1>1, GrowsOn, RowsAfter
<1>3. Regular(nt)
  <2>1. tb.id_seq[t] <= nt.id_seq[t] /\ \A i \in DOMAIN l : l[i].id <= nt.id_seq[t]
    BY DEF GoodWrite
  <2>2. QED
    BY <1>1, <2>1, RegularKept
<1>4. RefsVisible(nt)
  <2>1. /\ \A i \in DOMAIN l : \A k \in DOMAIN l[i].members :
             l[i].members[k].type \in {"Node", "Way"} =>
               Visible(tb, l[i].members[k].type, l[i].members[k].ref)
        /\ \A i \in DOMAIN l : ~rw[i].visible =>
             \A p \in Types : \A m \in tb.members[p] :
               m.type = t /\ m.ref = l[i].id => t = "Relation"
    BY DEF GoodWrite
  <2>2. QED
    BY <1>1, <2>1, RefsKept
<1>5. ASSUME NEW u \in Types, NEW id \in Ids PROVE HistoryMatches(nt, u, id)
  <2>1. HistoryMatches(tb, u, id) /\ Listed(l)
    BY <1>1 DEF Sane, GoodRows
  <2>2. CASE u # t \/ id \notin IdsOf(l)
    BY <2>1, <2>2, <1>1, HistoryOfOthers
  <2>3. CASE u = t /\ id \in IdsOf(l)
    <3>1. PICK i \in DOMAIN l : l[i].id = id
      BY <2>3 DEF IdsOf
    <3>2. HistoryMatches(tb, t, l[i].id)
      BY <2>1, <2>3, <3>1
    <3>3. HistoryMatches(nt, t, l[i].id)
      BY <3>2, <1>1, HistoryOfWritten
    <3>4. QED
      BY <2>3, <3>1, <3>3
  <2>4. QED
    BY <2>2, <2>3
<1>6. QED
  BY <1>2, <1>3, <1>4, <1>5 DEF Sane

-----------------------------------------------------------------------------
(* The three kinds of write as the updaters' checks allow them. *)

\* A list of elements of one type, as a buffer of that type holds it: a node
\* has no members, a way only nodes.
FitList(l, t) ==
    /\ Listed(l)
    /\ \A i \in DOMAIN l :
         /\ t = "Node" => l[i].members = <<>>
         /\ t = "Way" => \A k \in DOMAIN l[i].members : l[i].members[k].type = "Node"

\* Their node and way members are visible.
FutureVisible(tb, l) ==
    \A i \in DOMAIN l : \A k \in DOMAIN l[i].members :
        l[i].members[k].type \in {"Node", "Way"} =>
            Visible(tb, l[i].members[k].type, l[i].members[k].ref)

\* No tags and no members are stored of an element that does not exist.
LEMMA NothingOfAbsent ==
    ASSUME NEW tb, Sane(tb), NEW t \in Types, NEW id \in Ids, ~Exists(tb, t, id)
    PROVE  /\ tb.current[t][id].version = 0
           /\ \A r \in tb.tags[t] \cup tb.members[t] : r.id # id
<1>1. tb.current[t][id] \in Row
  BY TablesFields DEF Sane
<1>2. tb.current[t][id].version = 0
  BY <1>1 DEF Row, Exists
<1>3. ~tb.current[t][id].visible
  BY DEF Sane, Regular, Visible
<1>4. CurrentTags(tb, t, id) = {} /\ CurrentMembers(tb, t, id) = {}
  BY <1>3 DEF Sane, HistoryMatches
<1>5. \A r \in tb.tags[t] : r.id # id
  BY <1>4 DEF CurrentTags
<1>6. \A r \in tb.members[t] : r.id # id
  BY <1>4 DEF CurrentMembers
<1>7. QED
  BY <1>2, <1>5, <1>6

LEMMA CreateGood ==
    ASSUME NEW tb, Sane(tb), NEW t \in Types, NEW raw \in Seq(Element),
           tb.id_seq[t] + Len(raw) <= MaxId,
           NEW l, FitList(l, t), DOMAIN l = DOMAIN raw,
           \A i \in DOMAIN l : l[i].id = tb.id_seq[t] + i,
           FutureVisible(tb, l)
    PROVE  LET nt == Saved(Inserted(tb, t, raw, l), t, l)
           IN  /\ GoodWrite(tb, nt, t, l, CreatedRows(raw))
               /\ nt.id_seq[t] = tb.id_seq[t] + Len(raw)
<1> DEFINE nt == Saved(Inserted(tb, t, raw, l), t, l)
           rows == CreatedRows(raw)
<1>1. tb \in Tables /\ Listed(l) /\ tb.id_seq[t] \in Nat
  BY TablesFields, MaxIdAssumption DEF Sane, FitList
<1>2. Len(raw) \in Nat /\ DOMAIN raw = 1..Len(raw)
  OBVIOUS
<1>3. \A i \in DOMAIN l : l[i].id \in Ids /\ ~Exists(tb, t, l[i].id)
  <2> SUFFICES ASSUME NEW i \in DOMAIN l PROVE l[i].id \in Ids /\ ~Exists(tb, t, l[i].id)
    OBVIOUS
  <2>1. i \in 1..Len(raw) /\ l[i].id = tb.id_seq[t] + i /\ l[i].id \in Ids
    BY <1>1, <1>2 DEF Listed, Resolved
  <2>2. ~(l[i].id <= tb.id_seq[t])
    BY <2>1, <1>1, <1>2
  <2>3. QED
    BY <2>1, <2>2 DEF Sane, Regular
<1>4. \A r \in tb.tags[t] \cup tb.members[t] : r.id \notin IdsOf(l)
  BY <1>3, NothingOfAbsent DEF IdsOf
<1>5. Rewritten(tb, nt, t, l, rows) /\ nt.id_seq[t] = tb.id_seq[t] + Len(raw)
  BY <1>1, <1>4, CreateRewrites
<1> HIDE DEF nt
<1>6. Unique(l)
  BY <1>1, <1>2 DEF Unique
<1>7. \A i \in DOMAIN l : rows[i] \in Row /\ rows[i].version = 1 /\ rows[i].visible = TRUE
  <2> SUFFICES ASSUME NEW i \in DOMAIN l
               PROVE  rows[i] \in Row /\ rows[i].version = 1 /\ rows[i].visible = TRUE
    OBVIOUS
  <2>1. raw[i] \in Element
    BY SeqElement, Zenon
  <2>2. raw[i].loc \in Coord
    BY <2>1 DEF Element
  <2>3. rows[i] = [version |-> 1, visible |-> TRUE, loc |-> raw[i].loc]
    BY DEF CreatedRows
  <2>4. QED
    BY <2>2, <2>3 DEF Row
<1>8. DOMAIN rows = DOMAIN l /\ rows = [i \in DOMAIN l |-> rows[i]]
  BY DEF CreatedRows
<1> HIDE DEF rows
<1>9. rows \in [DOMAIN l -> Row]
  BY <1>7, <1>8
<1>10. \A i \in DOMAIN l : rows[i].version = tb.current[t][l[i].id].version + 1
  BY <1>3, <1>7, NothingOfAbsent
<1>11. GoodRows(tb, t, l, rows)
  BY <1>1, <1>6, <1>7, <1>9, <1>10 DEF GoodRows, FitList
<1>12. tb.id_seq[t] <= nt.id_seq[t] /\ \A i \in DOMAIN l : l[i].id <= nt.id_seq[t]
  BY <1>1, <1>2, <1>5
<1>13. GoodWrite(tb, nt, t, l, rows)
  BY <1>5, <1>7, <1>11, <1>12 DEF GoodWrite, FutureVisible
<1>14. QED
  BY <1>5, <1>13 DEF nt, rows

LEMMA ModifyGood ==
    ASSUME NEW tb, Sane(tb), NEW t \in Types, NEW l, FitList(l, t), Unique(l),
           \A i \in DOMAIN l : /\ l[i].version = tb.current[t][l[i].id].version
                               /\ Exists(tb, t, l[i].id),
           FutureVisible(tb, l)
    PROVE  LET nt == Saved(Updated(tb, t, l), t, l)
           IN  GoodWrite(tb, nt, t, l, ShownRows(l)) /\ nt.id_seq = tb.id_seq
<1> DEFINE nt == Saved(Updated(tb, t, l), t, l)
           rows == ShownRows(l)
<1>1. tb \in Tables /\ Listed(l) /\ tb.id_seq[t] \in Nat
  BY TablesFields, MaxIdAssumption DEF Sane, FitList
<1>2. Rewritten(tb, nt, t, l, rows) /\ nt.id_seq = tb.id_seq
  BY <1>1, ModifyRewrites
<1> HIDE DEF nt
<1>3. \A i \in DOMAIN l : /\ rows[i] \in Row /\ rows[i].visible = TRUE
                          /\ rows[i].version = tb.current[t][l[i].id].version + 1
  <2> SUFFICES ASSUME NEW i \in DOMAIN l
               PROVE  /\ rows[i] \in Row /\ rows[i].visible = TRUE
                      /\ rows[i].version = tb.current[t][l[i].id].version + 1
    OBVIOUS
  <2>1. l[i].loc \in Coord /\ l[i].version \in Nat
    BY <1>1 DEF Listed, Resolved
  <2>2. rows[i] = [version |-> l[i].version + 1, visible |-> TRUE, loc |-> l[i].loc]
    BY DEF ShownRows, ShownRow
  <2>3. QED
    BY <2>1, <2>2 DEF Row
<1>4. DOMAIN rows = DOMAIN l /\ rows = [i \in DOMAIN l |-> rows[i]]
  BY DEF ShownRows
<1> HIDE DEF rows
<1>5. rows \in [DOMAIN l -> Row]
  BY <1>3, <1>4
<1>6. GoodRows(tb, t, l, rows)
  BY <1>1, <1>3, <1>5 DEF GoodRows, FitList
<1>7. tb.id_seq[t] <= nt.id_seq[t] /\ \A i \in DOMAIN l : l[i].id <= nt.id_seq[t]
  <2>1. \A i \in DOMAIN l : l[i].id \in Ids
    BY <1>1 DEF Listed, Resolved
  <2>2. QED
    BY <2>1, <1>1, <1>2 DEF Sane, Regular
<1>8. GoodWrite(tb, nt, t, l, rows)
  BY <1>2, <1>3, <1>6, <1>7 DEF GoodWrite, FutureVisible
<1>9. QED
  BY <1>2, <1>8 DEF nt, rows

LEMMA DeleteGood ==
    ASSUME NEW tb, Sane(tb), NEW t \in Types, NEW l, FitList(l, t), Unique(l),
           \A i \in DOMAIN l : /\ l[i].version = tb.current[t][l[i].id].version
                               /\ Exists(tb, t, l[i].id)
                               /\ l[i].tags = {} /\ l[i].members = <<>>,
           \A i \in DOMAIN l : \A p \in Types : \A m \in tb.members[p] :
               m.type = t /\ m.ref = l[i].id => t = "Relation"
    PROVE  LET nt == Deleted(tb, t, l)
           IN  GoodWrite(tb, nt, t, l, HiddenRows(tb, t, l)) /\ nt.id_seq = tb.id_seq
<1> DEFINE nt == Deleted(tb, t, l)
           rows == HiddenRows(tb, t, l)
<1>1. tb \in Tables /\ Listed(l) /\ tb.id_seq[t] \in Nat
  BY TablesFields, MaxIdAssumption DEF Sane, FitList
<1>2. Rewritten(tb, nt, t, l, rows) /\ nt.id_seq = tb.id_seq
  BY <1>1, DeleteRewrites
<1> HIDE DEF nt
<1>3. \A i \in DOMAIN l : /\ rows[i] \in Row
                          /\ rows[i].version = tb.current[t][l[i].id].version + 1
  <2> SUFFICES ASSUME NEW i \in DOMAIN l
               PROVE  /\ rows[i] \in Row
                      /\ rows[i].version = tb.current[t][l[i].id].version + 1
    OBVIOUS
  <2>1. l[i].id \in Ids /\ l[i].version \in Nat
    BY <1>1 DEF Listed, Resolved
  <2>2. tb.current[t][l[i].id] \in Row
    BY <1>1, <2>1, TablesFields
  <2>3. rows[i] = [version |-> l[i].version + 1, visible |-> FALSE,
                   loc |-> tb.current[t][l[i].id].loc]
    BY DEF HiddenRows, HiddenRow
  <2>4. QED
    BY <2>1, <2>2, <2>3 DEF Row
<1>4. DOMAIN rows = DOMAIN l /\ rows = [i \in DOMAIN l |-> rows[i]]
  BY DEF HiddenRows
<1> HIDE DEF rows
<1>5. rows \in [DOMAIN l -> Row]
  BY <1>3, <1>4
<1>6. GoodRows(tb, t, l, rows)
  BY <1>1, <1>3, <1>5 DEF GoodRows, FitList
<1>7. tb.id_seq[t] <= nt.id_seq[t] /\ \A i \in DOMAIN l : l[i].id <= nt.id_seq[t]
  <2>1. \A i \in DOMAIN l : l[i].id \in Ids
    BY <1>1 DEF Listed, Resolved
  <2>2. QED
    BY <2>1, <1>1, <1>2 DEF Sane, Regular
<1>8. \A i \in DOMAIN l : DOMAIN l[i].members = {}
  OBVIOUS
<1>9. GoodWrite(tb, nt, t, l, rows)
  BY <1>2, <1>6, <1>7, <1>8 DEF GoodWrite
<1>10. QED
  BY <1>2, <1>9 DEF nt, rows

(* Nodes have no members, and the node updater no statements about them.   *)

LEMMA MembersUnchanged ==
    ASSUME NEW tb \in Tables, NEW t \in Types, NEW S, S = tb.members[t]
    PROVE  [tb EXCEPT !.members[t] = S] = tb
  BY DEF Tables

LEMMA HistoryMembersUnchanged ==
    ASSUME NEW tb \in Tables, NEW t \in Types, NEW S, S = tb.history_members[t]
    PROVE  [tb EXCEPT !.history_members[t] = S] = tb
  BY DEF Tables

LEMMA NoMembersInserted ==
    ASSUME NEW tb \in Tables, NEW t \in Types, NEW l, \A i \in DOMAIN l : l[i].members = <<>>
    PROVE  InsertMembers(tb, t, l) = tb
<1> DEFINE new == UNION {{[id |-> l[i].id, seq |-> k, type |-> l[i].members[k].type,
                             ref |-> l[i].members[k].ref] : k \in DOMAIN l[i].members} :
                           i \in DOMAIN l}
<1>1. \A i \in DOMAIN l : DOMAIN l[i].members = {}
  OBVIOUS
<1>2. tb.members[t] \cup new = tb.members[t]
  BY <1>1
<1> HIDE DEF new
<1>3. InsertMembers(tb, t, l) = [tb EXCEPT !.members[t] = tb.members[t] \cup new]
  BY DEF InsertMembers, new
<1>4. QED
  BY <1>2, <1>3, MembersUnchanged

LEMMA NoMembersDeleted ==
    ASSUME NEW tb \in Tables, NEW t \in Types, NEW ids, tb.members[t] = {}
    PROVE  DeleteMembers(tb, t, ids) = tb
<1>1. {r \in tb.members[t] : r.id \notin ids} = tb.members[t]
  OBVIOUS
<1>2. DeleteMembers(tb, t, ids) = [tb EXCEPT !.members[t] = {r \in tb.members[t] : r.id \notin ids}]
  BY DEF DeleteMembers
<1>3. QED
  BY <1>1, <1>2, MembersUnchanged

LEMMA NoMembersSaved ==
    ASSUME NEW tb \in Tables, NEW t \in Types, NEW ids, tb.members[t] = {}
    PROVE  SaveMembersHistory(tb, t, ids) = tb
<1> DEFINE new == {[id |-> r.id, version |-> tb.current[t][r.id].version, seq |-> r.seq,
                    type |-> r.type, ref |-> r.ref] :
                    r \in {x \in tb.members[t] : x.id \in ids}}
<1>1. tb.history_members[t] \cup new = tb.history_members[t]
  OBVIOUS
<1> HIDE DEF new
<1>2. SaveMembersHistory(tb, t, ids)
        = [tb EXCEPT !.history_members[t] = tb.history_members[t] \cup new]
  BY DEF SaveMembersHistory, new
<1>3. QED
  BY <1>1, <1>2, HistoryMembersUnchanged

\* The history of nodes, saved by two statements.
LEMMA NodesSaved ==
    ASSUME NEW mid \in Tables, NEW l, Listed(l), mid.members["Node"] = {}
    PROVE  Saved(mid, "Node", l)
             = SaveTagsHistory(SaveHistory(mid, "Node", IdsOf(l)), "Node", IdsWithTags(l))
<1> DEFINE s1 == SaveHistory(mid, "Node", IdsOf(l))
           s2 == SaveTagsHistory(s1, "Node", IdsWithTags(l))
<1>0. "Node" \in Types
  BY DEF Types
<1>1. s1 \in Tables /\ s1.members = mid.members
  BY <1>0, ListedIds, HistorySaved DEF SameBut
<1> HIDE DEF s1
<1>2. s2 \in Tables /\ s2.members = s1.members
  BY <1>0, <1>1, ListedIds, TagsHistorySaved DEF SameBut
<1> HIDE DEF s2
<1>3. SaveMembersHistory(s2, "Node", IdsOf(l)) = s2
  BY <1>0, <1>1, <1>2, NoMembersSaved
<1>4. QED
  BY <1>3 DEF Saved, s1, s2

LEMMA NodesInserted ==
    ASSUME NEW tb, Sane(tb), NEW raw \in Seq(Element),
           tb.id_seq["Node"] + Len(raw) <= MaxId,
           NEW l, FitList(l, "Node")
    PROVE  LET mid == InsertTags(InsertCurrent(tb, "Node", raw), "Node", l)
           IN  Saved(Inserted(tb, "Node", raw, l), "Node", l)
                 = SaveTagsHistory(SaveHistory(mid, "Node", IdsOf(l)), "Node", IdsWithTags(l))
<1> DEFINE s1 == InsertCurrent(tb, "Node", raw)
           mid == InsertTags(s1, "Node", l)
<1>0. "Node" \in Types /\ tb \in Tables /\ tb.members["Node"] = {}
  BY DEF Types, Sane, Regular
<1>1. s1 \in Tables /\ s1.members = tb.members
  BY <1>0, CurrentInserted DEF SameBut
<1> HIDE DEF s1
<1>2. mid \in Tables /\ mid.members = s1.members
  BY <1>0, <1>1, TagsInserted DEF SameBut, FitList
<1> HIDE DEF mid
<1>3. InsertMembers(mid, "Node", l) = mid
  BY <1>0, <1>2, NoMembersInserted DEF FitList
<1>4. Inserted(tb, "Node", raw, l) = mid
  BY <1>3 DEF Inserted, mid, s1
<1>5. Saved(mid, "Node", l)
        = SaveTagsHistory(SaveHistory(mid, "Node", IdsOf(l)), "Node", IdsWithTags(l))
  BY <1>0, <1>1, <1>2, NodesSaved DEF FitList
<1>6. QED
  BY <1>4, <1>5 DEF mid, s1

LEMMA NodesUpdated ==
    ASSUME NEW tb, Sane(tb), NEW l, FitList(l, "Node"), Unique(l)
    PROVE  LET mid == InsertTags(Shown(DeleteTags(tb, "Node", IdsOf(l)), "Node", l), "Node", l)
           IN  /\ Updated(tb, "Node", l) = mid
               /\ Saved(Updated(tb, "Node", l), "Node", l)
                   = SaveTagsHistory(SaveHistory(mid, "Node", IdsOf(l)), "Node", IdsWithTags(l))
<1> DEFINE s1 == DeleteTags(tb, "Node", IdsOf(l))
           s2 == Shown(s1, "Node", l)
           mid == InsertTags(s2, "Node", l)
<1>0. "Node" \in Types /\ tb \in Tables /\ tb.members["Node"] = {} /\ Listed(l)
  BY DEF Types, Sane, Regular, FitList
<1>1. s1 \in Tables /\ s1.members = tb.members
  BY <1>0, TagsDeleted DEF SameBut
<1> HIDE DEF s1
<1>2. DeleteMembers(s1, "Node", IdsOf(l)) = s1
  BY <1>0, <1>1, NoMembersDeleted
<1>3. s2 \in Tables /\ s2.members = s1.members
  BY <1>0, <1>1, CurrentShown DEF SameBut
<1> HIDE DEF s2
<1>4. mid \in Tables /\ mid.members = s2.members
  BY <1>0, <1>3, TagsInserted DEF SameBut
<1> HIDE DEF mid
<1>5. InsertMembers(mid, "Node", l) = mid
  BY <1>0, <1>4, NoMembersInserted DEF FitList
<1>6. Updated(tb, "Node", l) = mid
  BY <1>2, <1>5 DEF Updated, mid, s2, s1
<1>7. Saved(mid, "Node", l)
        = SaveTagsHistory(SaveHistory(mid, "Node", IdsOf(l)), "Node", IdsWithTags(l))
  BY <1>0, <1>1, <1>3, <1>4, NodesSaved
<1>8. QED
  BY <1>6, <1>7 DEF mid, s2, s1

LEMMA NodesDeleted ==
    ASSUME NEW tb, Sane(tb), NEW l, FitList(l, "Node"), Unique(l)
    PROVE  Deleted(tb, "Node", l)
             = SaveHistory(DeleteTags(Hidden(tb, "Node", l), "Node", IdsOf(l)), "Node", IdsOf(l))
<1> DEFINE s1 == Hidden(tb, "Node", l)
           s2 == DeleteTags(s1, "Node", IdsOf(l))
<1>0. "Node" \in Types /\ tb \in Tables /\ tb.members["Node"] = {} /\ Listed(l)
  BY DEF Types, Sane, Regular, FitList
<1>1. s1 \in Tables /\ s1.members = tb.members
  BY <1>0, CurrentHidden DEF SameBut
<1> HIDE DEF s1
<1>2. s2 \in Tables /\ s2.members = s1.members
  BY <1>0, <1>1, TagsDeleted DEF SameBut
<1> HIDE DEF s2
<1>3. DeleteMembers(s2, "Node", IdsOf(l)) = s2
  BY <1>0, <1>1, <1>2, NoMembersDeleted
<1>4. QED
  BY <1>3 DEF Deleted, s2, s1

-----------------------------------------------------------------------------
(* The placeholders of a list are replaced. *)

LEMMA SeqImage ==
    ASSUME NEW S, NEW s \in Seq(S), NEW T, NEW f \in [DOMAIN s -> T]
    PROVE  f \in Seq(T)
<1>1. DOMAIN s = 1..Len(s) /\ Len(s) \in Nat
  OBVIOUS
<1>2. QED
  BY <1>1

LEMMA ResolvedId ==
    ASSUME NEW created \in [Types -> SUBSET Mapping], NEW t \in Types,
           NEW ref \in Ids \cup Placeholders, Known(created, t, ref)
    PROVE  /\ Resolve(created, t, ref) \in Ids
           /\ ref < 0 => \E m \in created[t] : m.old_id = ref /\ Resolve(created, t, ref) = m.new_id
           /\ ref \in Ids => Resolve(created, t, ref) = ref
<1>1. CASE ref < 0
  <2>1. \E m \in created[t] : m.old_id = ref
    BY <1>1 DEF Known
  <2> DEFINE c == CHOOSE m \in created[t] : m.old_id = ref
  <2>2. c \in created[t] /\ c.old_id = ref
    BY <2>1
  <2>3. Resolve(created, t, ref) = c.new_id
    BY <1>1 DEF Resolve
  <2> HIDE DEF c
  <2>4. c \in Mapping
    BY <2>2
  <2>5. c.new_id \in Ids
    BY <2>4 DEF Mapping
  <2>6. ref \notin Ids
    BY <1>1, MaxIdAssumption DEF Ids
  <2>7. QED
    BY <2>2, <2>3, <2>5, <2>6
<1>2. CASE ~(ref < 0)
  <2>1. ref \in Ids
    BY <1>2, PlaceholdersAssumption
  <2>2. QED
    BY <1>2, <2>1 DEF Resolve
<1>3. QED
  BY <1>1, <1>2

\* An element with its id and its members replaced.
ResolvedElement(e, id, members) == [e EXCEPT !.id = id, !.members = members]

LEMMA ResolvedElementTyped ==
    ASSUME NEW e \in Element, NEW id \in Ids, NEW members \in Seq([type: Types, ref: Ids])
    PROVE  LET r == ResolvedElement(e, id, members)
           IN  /\ r \in Resolved
               /\ r.id = id /\ r.members = members
               /\ r.op = e.op /\ r.type = e.type /\ r.old_id = e.old_id
               /\ r.version = e.version /\ r.loc = e.loc /\ r.tags = e.tags
               /\ r.if_unused = e.if_unused
<1> DEFINE S == Seq([type: Types, ref: Ids])
           U == Seq([type: Types, ref: Ids \cup Placeholders])
<1>1. Element = [op: Ops, type: Types, old_id: Ids \cup Placeholders, id: Ids \cup {0},
                 version: Nat, loc: Coord, tags: SUBSET Tags, members: U,
                 if_unused: BOOLEAN, same_changeset: BOOLEAN]
  BY DEF Element
<1>2. Resolved = [op: Ops, type: Types, old_id: Ids \cup Placeholders, id: Ids,
                  version: Nat, loc: Coord, tags: SUBSET Tags, members: S,
                  if_unused: BOOLEAN, same_changeset: BOOLEAN]
  BY DEF Resolved
<1>3. members \in S
  OBVIOUS
<1> HIDE DEF S, U
<1>4. QED
  BY <1>1, <1>2, <1>3 DEF ResolvedElement

LEMMA ResolvedList ==
    ASSUME NEW created \in [Types -> SUBSET Mapping], NEW t \in Types,
           NEW raw, DOMAIN raw \subseteq Nat, \A i \in DOMAIN raw : raw[i] \in Element,
           PlaceholdersKnown(created, t, raw)
    PROVE  LET l == ResolveAll(created, t, raw)
           IN  /\ Listed(l)
               /\ DOMAIN l = DOMAIN raw
               /\ \A i \in DOMAIN raw :
                    /\ l[i].id = Resolve(created, t, raw[i].old_id)
                    /\ l[i].op = raw[i].op /\ l[i].type = raw[i].type
                    /\ l[i].old_id = raw[i].old_id
                    /\ l[i].version = raw[i].version /\ l[i].loc = raw[i].loc
                    /\ l[i].tags = raw[i].tags /\ l[i].if_unused = raw[i].if_unused
                    /\ DOMAIN l[i].members = DOMAIN raw[i].members
                    /\ \A k \in DOMAIN raw[i].members :
                         /\ l[i].members[k].type = raw[i].members[k].type
                         /\ l[i].members[k].ref =
                              Resolve(created, raw[i].members[k].type, raw[i].members[k].ref)
                    /\ raw[i].members = <<>> => l[i].members = <<>>
<1> DEFINE l == ResolveAll(created, t, raw)
           M(i) == [k \in DOMAIN raw[i].members |->
                      [type |-> raw[i].members[k].type,
                       ref |-> Resolve(created, raw[i].members[k].type, raw[i].members[k].ref)]]
           Id(i) == Resolve(created, t, raw[i].old_id)
<1>1. DOMAIN l = DOMAIN raw /\ \A i \in DOMAIN raw : l[i] = ResolvedElement(raw[i], Id(i), M(i))
  BY DEF ResolveAll, ResolvedElement
<1>2. ASSUME NEW i \in DOMAIN raw
      PROVE  /\ Id(i) \in Ids
             /\ M(i) \in Seq([type: Types, ref: Ids])
             /\ DOMAIN M(i) = DOMAIN raw[i].members
             /\ \A k \in DOMAIN raw[i].members :
                  /\ M(i)[k].type = raw[i].members[k].type
                  /\ M(i)[k].ref =
                       Resolve(created, raw[i].members[k].type, raw[i].members[k].ref)
             /\ raw[i].members = <<>> => M(i) = <<>>
  <2>1. raw[i] \in Element
    OBVIOUS
  <2>2. /\ raw[i].old_id \in Ids \cup Placeholders
        /\ raw[i].members \in Seq([type: Types, ref: Ids \cup Placeholders])
    BY <2>1 DEF Element
  <2>3. Id(i) \in Ids
    BY <2>2, ResolvedId DEF PlaceholdersKnown
  <2>4. \A k \in DOMAIN raw[i].members : raw[i].members[k] \in [type: Types, ref: Ids \cup Placeholders]
    BY <2>2, SeqElement, Zenon
  <2>5. \A k \in DOMAIN raw[i].members :
          [type |-> raw[i].members[k].type,
           ref |-> Resolve(created, raw[i].members[k].type, raw[i].members[k].ref)]
             \in [type: Types, ref: Ids]
    BY <2>4, ResolvedId DEF PlaceholdersKnown
  <2>6. M(i) \in [DOMAIN raw[i].members -> [type: Types, ref: Ids]]
    BY <2>5
  <2>7. M(i) \in Seq([type: Types, ref: Ids])
    <3> DEFINE m == M(i)
               given == raw[i].members
               S == [type: Types, ref: Ids \cup Placeholders]
               T == [type: Types, ref: Ids]
    <3>1. given \in Seq(S) /\ m \in [DOMAIN given -> T]
      BY <2>2, <2>6
    <3> HIDE DEF m, given, S, T
    <3>2. m \in Seq(T)
      BY <3>1, SeqImage
    <3>3. QED
      BY <3>2 DEF m, T
  <2>8. raw[i].members = <<>> => M(i) = <<>>
    OBVIOUS
  <2>9. QED
    BY <2>3, <2>7, <2>8
<1> HIDE DEF l, M, Id
<1>3. ASSUME NEW i \in DOMAIN raw
      PROVE  /\ l[i] \in Resolved
             /\ l[i].id = Id(i) /\ l[i].members = M(i)
             /\ l[i].op = raw[i].op /\ l[i].type = raw[i].type /\ l[i].old_id = raw[i].old_id
             /\ l[i].version = raw[i].version /\ l[i].loc = raw[i].loc
             /\ l[i].tags = raw[i].tags /\ l[i].if_unused = raw[i].if_unused
  <2> DEFINE e == raw[i]
             m == M(i)
             id == Id(i)
  <2>1. e \in Element /\ id \in Ids /\ m \in Seq([type: Types, ref: Ids])
    BY <1>2
  <2>2. l[i] = ResolvedElement(e, id, m)
    BY <1>1
  <2> HIDE DEF e, m, id
  <2>3. /\ l[i] \in Resolved
        /\ l[i].id = id /\ l[i].members = m
        /\ l[i].op = e.op /\ l[i].type = e.type /\ l[i].old_id = e.old_id
        /\ l[i].version = e.version /\ l[i].loc = e.loc
        /\ l[i].tags = e.tags /\ l[i].if_unused = e.if_unused
    <3> DEFINE r == ResolvedElement(e, id, m)
    <3>1. /\ r \in Resolved
          /\ r.id = id /\ r.members = m
          /\ r.op = e.op /\ r.type = e.type /\ r.old_id = e.old_id
          /\ r.version = e.version /\ r.loc = e.loc /\ r.tags = e.tags
          /\ r.if_unused = e.if_unused
      BY <2>1, ResolvedElementTyped, Zenon
    <3> HIDE DEF r
    <3>2. l[i] = r
      BY <2>2 DEF r
    <3>3. QED
      BY <3>1, <3>2, Zenon
  <2>4. QED
    BY <2>3 DEF e, m, id
<1>4. Listed(l)
  BY <1>1, <1>3 DEF Listed
<1>5. QED
  BY <1>1, <1>2, <1>3, <1>4 DEF l, Id

\* What a buffer holds: created elements have placeholders, nodes have no
\* members and ways only nodes, and of a deleted element only the id is kept.
Fits(e, op, t) ==
    /\ op = "create" => e.old_id < 0
    /\ t = "Node" => e.members = <<>>
    /\ t = "Way" => \A k \in DOMAIN e.members : e.members[k].type = "Node"
    /\ op = "delete" => e.tags = {} /\ e.members = <<>>

Fitting(op, t) == {e \in Element : Fits(e, op, t)}

\* Some of the elements of a list, at their positions.
Part(m, l) == DOMAIN m \subseteq DOMAIN l /\ \A i \in DOMAIN m : m[i] = l[i]

LEMMA PartFits ==
    ASSUME NEW t, NEW l, FitList(l, t), NEW m, Part(m, l)
    PROVE  FitList(m, t)
  BY DEF FitList, Part, Listed

LEMMA WithoutIsPart ==
    ASSUME NEW l, NEW ids
    PROVE  /\ Part(Without(l, ids), l)
           /\ \A i \in DOMAIN l : i \in DOMAIN Without(l, ids) <=> l[i].id \notin ids
           /\ \A i \in DOMAIN Without(l, ids) : l[i].id \notin ids
  BY DEF Part, Without

LEMMA FittingTyped ==
    ASSUME NEW op, NEW t, NEW raw \in Seq(Fitting(op, t))
    PROVE  /\ raw \in Seq(Element)
           /\ DOMAIN raw \subseteq Nat
           /\ \A i \in DOMAIN raw : raw[i] \in Element /\ Fits(raw[i], op, t)
<1>1. ASSUME NEW i \in DOMAIN raw PROVE i \in Nat /\ raw[i] \in Fitting(op, t)
  <2> DEFINE S == Fitting(op, t)
  <2>1. raw \in Seq(S)
    OBVIOUS
  <2> HIDE DEF S
  <2>2. i \in Nat /\ raw[i] \in S
    BY <2>1, SeqElement
  <2>3. QED
    BY <2>2 DEF S
<1>2. \A i \in DOMAIN raw : raw[i] \in Element /\ Fits(raw[i], op, t)
  BY <1>1 DEF Fitting
<1>3. raw \in Seq(Element)
  <2> DEFINE S == Fitting(op, t)
             T == Element
  <2>1. raw \in Seq(S) /\ \A i \in DOMAIN raw : raw[i] \in T
    BY <1>2
  <2> HIDE DEF S, T
  <2>2. raw \in Seq(T)
    BY <2>1
  <2>3. QED
    BY <2>2 DEF T
<1>4. QED
  BY <1>1, <1>2, <1>3

LEMMA FitResolved ==
    ASSUME NEW created \in [Types -> SUBSET Mapping], NEW op, NEW t \in Types,
           NEW raw \in Seq(Fitting(op, t)), PlaceholdersKnown(created, t, raw)
    PROVE  LET l == ResolveAll(created, t, raw)
           IN  /\ FitList(l, t)
               /\ DOMAIN l = DOMAIN raw
               /\ op = "delete" => \A i \in DOMAIN l : l[i].tags = {} /\ l[i].members = <<>>
<1> DEFINE l == ResolveAll(created, t, raw)
<1>1. DOMAIN raw \subseteq Nat /\ \A i \in DOMAIN raw : raw[i] \in Element /\ Fits(raw[i], op, t)
  BY FittingTyped
<1>2. /\ Listed(l)
      /\ DOMAIN l = DOMAIN raw
      /\ \A i \in DOMAIN raw :
           /\ l[i].tags = raw[i].tags
           /\ DOMAIN l[i].members = DOMAIN raw[i].members
           /\ \A k \in DOMAIN raw[i].members : l[i].members[k].type = raw[i].members[k].type
           /\ raw[i].members = <<>> => l[i].members = <<>>
  BY <1>1, ResolvedList
<1> HIDE DEF l
<1>3. FitList(l, t)
  BY <1>1, <1>2 DEF FitList, Fits
<1>4. op = "delete" => \A i \in DOMAIN l : l[i].tags = {} /\ l[i].members = <<>>
  BY <1>1, <1>2 DEF Fits
<1>5. QED
  BY <1>2, <1>3, <1>4 DEF l

\* The map of created elements once those of the list raw are added to it.
CreatedFrom(tb, t, old, seen, raw, created) ==
    /\ tb \in Tables /\ t \in Types /\ old \in [Types -> SUBSET Mapping]
    /\ \A m \in old[t] : m.old_id \in seen
    /\ raw \in Seq(Fitting("create", t)) /\ PlaceholdersUnique(seen, raw)
    /\ tb.id_seq[t] + Len(raw) <= MaxId
    /\ created = [old EXCEPT ![t] = @ \cup CreatedMappings(tb, t, raw)]

\* The i-th gets the i-th id of the sequence.
LEMMA CreatedIds ==
    ASSUME NEW tb, NEW t, NEW old, NEW seen, NEW raw, NEW created,
           CreatedFrom(tb, t, old, seen, raw, created)
    PROVE  /\ created \in [Types -> SUBSET Mapping]
           /\ \A m \in created[t] : m.old_id \in seen \cup {raw[i].old_id : i \in DOMAIN raw}
           /\ \A i \in DOMAIN raw : Resolve(created, t, raw[i].old_id) = tb.id_seq[t] + i
<1>0. /\ tb \in Tables /\ t \in Types /\ old \in [Types -> SUBSET Mapping]
      /\ \A m \in old[t] : m.old_id \in seen
      /\ raw \in Seq(Fitting("create", t)) /\ PlaceholdersUnique(seen, raw)
      /\ tb.id_seq[t] + Len(raw) <= MaxId
      /\ created = [old EXCEPT ![t] = @ \cup CreatedMappings(tb, t, raw)]
  BY DEF CreatedFrom
<1> DEFINE new == CreatedMappings(tb, t, raw)
           Map(i) == [old_id |-> raw[i].old_id, new_id |-> tb.id_seq[t] + i, new_version |-> 1]
<1>1. /\ raw \in Seq(Element)
      /\ \A i \in DOMAIN raw : raw[i] \in Element /\ Fits(raw[i], "create", t)
  BY <1>0, FittingTyped
<1>2. Len(raw) \in Nat /\ DOMAIN raw = 1..Len(raw) /\ tb.id_seq[t] \in Nat
  BY <1>0, <1>1, TablesFields, MaxIdAssumption
<1>3. \A i \in DOMAIN raw : raw[i].old_id \in Ids \cup Placeholders /\ raw[i].old_id < 0
  BY <1>1 DEF Element, Fits
<1>4. \A i \in DOMAIN raw : tb.id_seq[t] + i \in Ids
  BY <1>0, <1>2, MaxIdAssumption DEF Ids
<1>5. \A m : m \in new <=> \E i \in DOMAIN raw : m = Map(i)
  BY DEF CreatedMappings
<1>6. new \subseteq Mapping
  <2>1. \A i \in DOMAIN raw : Map(i) \in Mapping
    BY <1>3, <1>4 DEF Mapping
  <2>2. QED
    BY <2>1, <1>5
<1> HIDE DEF new
<1>7. created[t] = old[t] \cup new /\ created \in [Types -> SUBSET Mapping]
  BY <1>0, <1>6 DEF new
<1>8. \A m \in created[t] : m.old_id \in seen \cup {raw[i].old_id : i \in DOMAIN raw}
  BY <1>0, <1>5, <1>7
<1>9. ASSUME NEW i \in DOMAIN raw
      PROVE  Resolve(created, t, raw[i].old_id) = tb.id_seq[t] + i
  <2> DEFINE c == CHOOSE m \in created[t] : m.old_id = raw[i].old_id
  <2>1. Map(i) \in created[t] /\ Map(i).old_id = raw[i].old_id
    BY <1>0, <1>5, <1>7
  <2>2. c \in created[t] /\ c.old_id = raw[i].old_id
    BY <2>1
  <2> HIDE DEF c
  <2>3. c \notin old[t]
    BY <1>0, <2>2 DEF PlaceholdersUnique
  <2>4. PICK j \in DOMAIN raw : c = Map(j)
    BY <2>2, <2>3, <1>5, <1>7
  <2>5. raw[j].old_id = raw[i].old_id
    BY <2>2, <2>4
  <2>6. j = i
    BY <1>0, <2>5 DEF PlaceholdersUnique
  <2>7. c.new_id = tb.id_seq[t] + i
    BY <2>4, <2>6
  <2>8. QED
    BY <2>7, <1>3 DEF Resolve, c
<1>10. QED
  BY <1>7, <1>8, <1>9

-----------------------------------------------------------------------------
(* An upload. *)

TrackingFields == {"created", "modified", "deleted", "skip_deleted", "orig_sequence"}

\* The objects of the session: what the buffers hold, which placeholders have
\* been used, and that there is an id for every element to be created.
Room(t) == tx.id_seq[t] + Len(buffer["create"][t])

BufferInv ==
    /\ buffer \in [Ops -> [Types -> Seq(Element)]]
    /\ \A op \in Ops, t \in Types : buffer[op][t] \in Seq(Fitting(op, t))

PlaceholderInv ==
    /\ TrackingFields \subseteq DOMAIN ct
    /\ ct.created \in [Types -> SUBSET Mapping]
    /\ create_placeholder_ids \in [Types -> SUBSET Placeholders]
    /\ \A t \in Types : \A m \in ct.created[t] : m.old_id \in create_placeholder_ids[t]

PendingInv ==
    /\ scenario \in Scenarios
    /\ \/ pending = EndOfDocument
       \/ pending \in scenario.elements /\ IsPlaceholder(pending)

RoomInv ==
    \A t \in Types :
        /\ Room(t) <= MaxId
        /\ phase = "flushing" /\ pending # EndOfDocument /\ pending.op = "create" /\ pending.type = t
               => Room(t) < MaxId

\* The packages of a process_modify_* that is running hold elements of its
\* type, and the rows they are about to update are there.
PackageFits(tb, l, t) ==
    FitList(l, t) /\ \A i \in DOMAIN l : Exists(tb, t, l[i].id)

PackageInv ==
    /\ todo \in Seq(Call)
    /\ \A j \in DOMAIN todo : todo[j].op = "package" =>
           j = 1 /\ \A k \in DOMAIN packages : PackageFits(tx, packages[k], todo[j].type)

TablesInv == Sane(db) /\ Sane(tx) /\ Grows(db, tx)

UploadInv == TablesInv /\ BufferInv /\ PlaceholderInv /\ PendingInv /\ RoomInv /\ PackageInv

LEMMA GrowsSame == ASSUME NEW tb \in Tables PROVE Grows(tb, tb)
<1>1. \A t \in Types, id \in Ids : tb.current[t][id].version \in Nat
  BY TablesFields DEF Row
<1>2. QED
  BY <1>1 DEF Grows

LEMMA EmptyFits ==
    /\ EmptyBuffer \in [Ops -> [Types -> Seq(Element)]]
    /\ \A op \in Ops, t \in Types : EmptyBuffer[op][t] = <<>> /\ EmptyBuffer[op][t] \in Seq(Fitting(op, t))
<1>1. \A S : <<>> \in Seq(S)
  OBVIOUS
<1>2. <<>> \in Seq(Element)
  BY <1>1
<1>3. \A op \in Ops, t \in Types : <<>> \in Seq(Fitting(op, t))
  BY <1>1
<1> DEFINE S == Seq(Element)
<1>4. <<>> \in S
  BY <1>2
<1> HIDE DEF S
<1>5. EmptyBuffer \in [Ops -> [Types -> S]]
  BY <1>4 DEF EmptyBuffer
<1>6. \A op \in Ops, t \in Types : EmptyBuffer[op][t] = <<>>
  BY DEF EmptyBuffer
<1>7. QED
  BY <1>3, <1>5, <1>6 DEF S

\* A session that has just been set up.
LEMMA FreshKeeps ==
    ASSUME Sane(db'), tx' = db', FreshSession, scenario' \in Scenarios
    PROVE  UploadInv'
<1>1. TablesInv'
  BY GrowsSame DEF TablesInv, Sane
<1>2. BufferInv'
  BY EmptyFits DEF BufferInv, FreshSession
<1>3. PlaceholderInv'
  BY DEF PlaceholderInv, FreshSession, NoTracking, TrackingFields
<1>4. PendingInv'
  BY DEF PendingInv, FreshSession
<1>5. RoomInv'
  <2>1. \A t \in Types : tx'.id_seq[t] \in 0..MaxId
    BY TablesFields DEF Sane
  <2>2. \A t \in Types : Len(buffer'["create"][t]) = 0
    BY EmptyFits DEF FreshSession, Ops
  <2>3. QED
    BY <2>1, <2>2, MaxIdAssumption DEF RoomInv, Room, FreshSession
<1>6. PackageInv'
  <2>1. todo' = <<>>
    BY DEF FreshSession
  <2>2. <<>> \in Seq(Call) /\ DOMAIN <<>> = {}
    OBVIOUS
  <2>3. QED
    BY <2>1, <2>2 DEF PackageInv
<1>7. QED
  BY <1>1, <1>2, <1>3, <1>4, <1>5, <1>6 DEF UploadInv

LEMMA InitKeeps == Init => UploadInv
<1> SUFFICES ASSUME Init PROVE UploadInv
  OBVIOUS
<1>0. scenario \in Scenarios /\ db = scenario.tables /\ tx = db
  BY DEF Init
<1>1. Sane(db) /\ db \in Tables
  BY <1>0, ScenariosAssumption DEF Sane
<1>2. TablesInv
  BY <1>0, <1>1, GrowsSame DEF TablesInv
<1>3. BufferInv
  BY EmptyFits DEF BufferInv, Init
<1>4. PlaceholderInv
  BY DEF PlaceholderInv, Init, NoTracking, TrackingFields
<1>5. PendingInv
  BY DEF PendingInv, Init
<1>6. RoomInv
  <2>1. \A t \in Types : tx.id_seq[t] \in 0..MaxId
    BY <1>0, <1>1, TablesFields
  <2>2. \A t \in Types : Len(buffer["create"][t]) = 0
    BY EmptyFits DEF Init, Ops
  <2>3. QED
    BY <2>1, <2>2, MaxIdAssumption DEF RoomInv, Room, Init
<1>7. PackageInv
  <2>1. todo = <<>>
    BY DEF Init
  <2>2. <<>> \in Seq(Call) /\ DOMAIN <<>> = {}
    OBVIOUS
  <2>3. QED
    BY <2>1, <2>2 DEF PackageInv
<1>8. QED
  BY <1>2, <1>3, <1>4, <1>5, <1>6, <1>7 DEF UploadInv

LEMMA ThrowKeeps ==
    ASSUME UploadInv, NEW code, Throw(code), scenario' = scenario
    PROVE  UploadInv'
<1>1. /\ db' = db /\ tx' = db' /\ FreshSession
  BY DEF Throw
<1>2. Sane(db') /\ scenario' \in Scenarios
  BY <1>1 DEF UploadInv, TablesInv, PendingInv
<1>3. QED
  BY <1>1, <1>2, FreshKeeps

LEMMA HeadTail ==
    ASSUME NEW S, NEW s \in Seq(S), s # <<>>
    PROVE  /\ 1 \in DOMAIN s /\ Head(s) = s[1]
           /\ Tail(s) \in Seq(S)
           /\ \A j \in DOMAIN Tail(s) : j + 1 \in DOMAIN s /\ j + 1 # 1 /\ Tail(s)[j] = s[j + 1]
  OBVIOUS

LEMMA ConsSeq ==
    ASSUME NEW S, NEW s \in Seq(S), NEW x \in S
    PROVE  /\ <<x>> \o s \in Seq(S)
           /\ (<<x>> \o s)[1] = x
           /\ \A j \in DOMAIN (<<x>> \o s) : j = 1 \/ (j - 1 \in DOMAIN s /\ (<<x>> \o s)[j] = s[j - 1])
  OBVIOUS

\* The calls after the first are none of a loop over packages.
LEMMA NoPackageLeft ==
    ASSUME PackageInv, todo # <<>>
    PROVE  /\ Tail(todo) \in Seq(Call)
           /\ Head(todo) = todo[1] /\ 1 \in DOMAIN todo
           /\ \A j \in DOMAIN Tail(todo) : Tail(todo)[j].op # "package"
<1>1. todo \in Seq(Call)
  BY DEF PackageInv
<1> DEFINE S == Call
<1>2. todo \in Seq(S)
  BY <1>1
<1> HIDE DEF S
<1>3. /\ 1 \in DOMAIN todo /\ Head(todo) = todo[1]
      /\ Tail(todo) \in Seq(S)
      /\ \A j \in DOMAIN Tail(todo) : j + 1 \in DOMAIN todo /\ j + 1 # 1 /\ Tail(todo)[j] = todo[j + 1]
  BY <1>2, HeadTail
<1>4. \A j \in DOMAIN Tail(todo) : Tail(todo)[j].op # "package"
  BY <1>3 DEF PackageInv
<1>5. QED
  BY <1>3, <1>4 DEF S

LEMMA ReturnKeeps ==
    ASSUME UploadInv, NEW op \in Ops, NEW t \in Types, todo # <<>>, Return(op, t)
    PROVE  /\ PackageInv' /\ BufferInv'
           /\ \A u \in Types : buffer'["create"][u] =
                IF op = "create" /\ u = t THEN <<>> ELSE buffer["create"][u]
<1>1. /\ Tail(todo) \in Seq(Call)
      /\ \A j \in DOMAIN Tail(todo) : Tail(todo)[j].op # "package"
  BY NoPackageLeft DEF UploadInv
<1>2. PackageInv'
  BY <1>1 DEF PackageInv, Return
<1> DEFINE S == Seq(Element)
           F(o, u) == Seq(Fitting(o, u))
<1>3. /\ buffer \in [Ops -> [Types -> S]]
      /\ \A o \in Ops, u \in Types : buffer[o][u] \in F(o, u)
      /\ <<>> \in S /\ <<>> \in F(op, t)
  BY DEF UploadInv, BufferInv
<1> HIDE DEF S, F
<1>4. buffer' = [buffer EXCEPT ![op][t] = <<>>]
  BY DEF Return
<1>5. /\ buffer' \in [Ops -> [Types -> S]]
      /\ \A o \in Ops, u \in Types : buffer'[o][u] = IF o = op /\ u = t THEN <<>> ELSE buffer[o][u]
  BY <1>3, <1>4
<1>6. \A o \in Ops, u \in Types : buffer'[o][u] \in F(o, u)
  <2> SUFFICES ASSUME NEW o \in Ops, NEW u \in Types PROVE buffer'[o][u] \in F(o, u)
    OBVIOUS
  <2>1. CASE o = op /\ u = t
    BY <2>1, <1>3, <1>5
  <2>2. CASE ~(o = op /\ u = t)
    BY <2>2, <1>3, <1>5
  <2>3. QED
    BY <2>1, <2>2
<1>7. BufferInv'
  BY <1>5, <1>6 DEF BufferInv, S, F
<1>8. "create" \in Ops
  BY DEF Ops
<1>9. QED
  BY <1>2, <1>5, <1>7, <1>8

\* Relation members that are visible, or among the ids exempt.
FutureRelations(tb, l, exempt) ==
    \A i \in DOMAIN l : \A k \in DOMAIN l[i].members :
        l[i].members[k].type = "Relation" =>
            l[i].members[k].ref \in exempt \/ Visible(tb, "Relation", l[i].members[k].ref)

\* What process_new_* does when nothing is thrown.
AddCreated(t) ==
    [ct.created EXCEPT ![t] = @ \cup CreatedMappings(tx, t, buffer["create"][t])]
CreateList(t) == ResolveAll(AddCreated(t), t, buffer["create"][t])

CreateStep(t) ==
    /\ Calling("create", t)
    /\ PlaceholdersUnique(create_placeholder_ids[t], buffer["create"][t])
    /\ PlaceholdersKnown(AddCreated(t), t, buffer["create"][t])
    /\ FutureVisible(tx, CreateList(t))
    /\ FutureRelations(tx, CreateList(t), IdsOf(CreateList(t)))
    /\ tx' = Saved(Inserted(tx, t, buffer["create"][t], CreateList(t)), t, CreateList(t))
    /\ create_placeholder_ids' = [create_placeholder_ids EXCEPT ![t] =
           @ \cup {buffer["create"][t][i].old_id : i \in DOMAIN buffer["create"][t]}]
    /\ ct' = [ct EXCEPT !.created = AddCreated(t)]
    /\ Return("create", t)
    /\ UNCHANGED <<packages, package, handlerVars, scenario>>

LEMMA CreateStepKeeps ==
    ASSUME UploadInv, NEW t \in Types, CreateStep(t)
    PROVE  /\ UploadInv'
           /\ GoodWrite(tx, tx', t, CreateList(t), CreatedRows(buffer["create"][t]))
           /\ DOMAIN CreateList(t) = DOMAIN buffer["create"][t]
           /\ \A i \in DOMAIN CreateList(t) : CreateList(t)[i].id = tx.id_seq[t] + i
           /\ tx'.id_seq[t] = tx.id_seq[t] + Len(buffer["create"][t])
<1> DEFINE raw == buffer["create"][t]
           created == AddCreated(t)
           l == CreateList(t)
<1>0. "create" \in Ops
  BY DEF Ops
<1>1. raw \in Seq(Fitting("create", t)) /\ raw \in Seq(Element)
  BY <1>0, FittingTyped DEF UploadInv, BufferInv
<1>2. Sane(tx) /\ tx \in Tables /\ Sane(db) /\ db \in Tables /\ Grows(db, tx)
  BY DEF UploadInv, TablesInv, Sane
<1>3. tx.id_seq[t] + Len(raw) <= MaxId
  BY DEF UploadInv, RoomInv, Room
<1>4. /\ created \in [Types -> SUBSET Mapping]
      /\ \A m \in created[t] :
           m.old_id \in create_placeholder_ids[t] \cup {raw[i].old_id : i \in DOMAIN raw}
      /\ \A i \in DOMAIN raw : Resolve(created, t, raw[i].old_id) = tx.id_seq[t] + i
  <2>1. /\ ct.created \in [Types -> SUBSET Mapping]
        /\ \A m \in ct.created[t] : m.old_id \in create_placeholder_ids[t]
    BY DEF UploadInv, PlaceholderInv
  <2>2. PlaceholdersUnique(create_placeholder_ids[t], raw)
    BY DEF CreateStep
  <2>3. QED
    <3> DEFINE seen == create_placeholder_ids[t]
               old == ct.created
    <3>1. created = [old EXCEPT ![t] = @ \cup CreatedMappings(tx, t, raw)]
      BY DEF AddCreated
    <3>2. old \in [Types -> SUBSET Mapping] /\ \A m \in old[t] : m.old_id \in seen
      BY <2>1
    <3>3. PlaceholdersUnique(seen, raw)
      BY <2>2
    <3> HIDE DEF seen, old, raw, created
    <3>4. /\ created \in [Types -> SUBSET Mapping]
          /\ \A m \in created[t] : m.old_id \in seen \cup {raw[i].old_id : i \in DOMAIN raw}
          /\ \A i \in DOMAIN raw : Resolve(created, t, raw[i].old_id) = tx.id_seq[t] + i
      <4>1. CreatedFrom(tx, t, old, seen, raw, created)
        BY <1>1, <1>2, <1>3, <3>1, <3>2, <3>3 DEF CreatedFrom
      <4>2. QED
        BY <4>1, CreatedIds
    <3>5. QED
      BY <3>4 DEF seen
<1>5. PlaceholdersKnown(created, t, raw)
  BY DEF CreateStep
<1> HIDE DEF created
<1>6. FitList(l, t) /\ DOMAIN l = DOMAIN raw
  BY <1>1, <1>4, <1>5, FitResolved DEF CreateList, created
<1>7. \A i \in DOMAIN l : l[i].id = tx.id_seq[t] + i
  <2>1. \A i \in DOMAIN raw : l[i].id = Resolve(created, t, raw[i].old_id)
    <3>1. DOMAIN raw \subseteq Nat /\ \A i \in DOMAIN raw : raw[i] \in Element
      BY <1>1, FittingTyped
    <3>2. QED
      BY <1>4, <1>5, <3>1, ResolvedList DEF CreateList, created
  <2>2. QED
    BY <2>1, <1>4, <1>6
<1>8. /\ GoodWrite(tx, tx', t, l, CreatedRows(raw))
      /\ tx'.id_seq[t] = tx.id_seq[t] + Len(raw)
  <2>1. FutureVisible(tx, l) /\ tx' = Saved(Inserted(tx, t, raw, l), t, l)
    BY DEF CreateStep
  <2> HIDE DEF l, raw
  <2>2. QED
    BY <1>1, <1>2, <1>3, <1>6, <1>7, <2>1, CreateGood
<1> HIDE DEF l
<1>9. Sane(tx') /\ Grows(db, tx')
  BY <1>2, <1>8, WriteKeeps
<1>10. /\ db' = db /\ pending' = pending /\ phase' = phase /\ scenario' = scenario
       /\ packages' = packages /\ Return("create", t) /\ todo # <<>>
       /\ ct' = [ct EXCEPT !.created = created]
       /\ create_placeholder_ids' = [create_placeholder_ids EXCEPT ![t] =
            @ \cup {raw[i].old_id : i \in DOMAIN raw}]
  BY DEF CreateStep, handlerVars, Calling, created
<1>11. TablesInv'
  BY <1>2, <1>9, <1>10 DEF TablesInv
<1>12. /\ PackageInv' /\ BufferInv'
       /\ \A u \in Types : buffer'["create"][u] = IF u = t THEN <<>> ELSE buffer["create"][u]
  BY <1>0, <1>10, ReturnKeeps
<1>13. PlaceholderInv'
  <2>1. /\ TrackingFields \subseteq DOMAIN ct /\ ct.created \in [Types -> SUBSET Mapping]
        /\ create_placeholder_ids \in [Types -> SUBSET Placeholders]
        /\ \A u \in Types : \A m \in ct.created[u] : m.old_id \in create_placeholder_ids[u]
    BY DEF UploadInv, PlaceholderInv
  <2>2. TrackingFields \subseteq DOMAIN ct' /\ ct'.created = created
    BY <2>1, <1>10 DEF TrackingFields
  <2>3. {raw[i].old_id : i \in DOMAIN raw} \subseteq Placeholders
    <3>1. \A i \in DOMAIN raw : raw[i] \in Element /\ Fits(raw[i], "create", t)
      BY <1>1, FittingTyped
    <3>2. \A i \in DOMAIN raw : raw[i].old_id \in Ids \cup Placeholders /\ raw[i].old_id < 0
      BY <3>1 DEF Element, Fits
    <3>3. QED
      BY <3>2, MaxIdAssumption DEF Ids
  <2> DEFINE new == {raw[i].old_id : i \in DOMAIN raw}
  <2> HIDE DEF new, raw
  <2>4. /\ create_placeholder_ids' \in [Types -> SUBSET Placeholders]
        /\ create_placeholder_ids'[t] = create_placeholder_ids[t] \cup new
        /\ \A u \in Types \ {t} : create_placeholder_ids'[u] = create_placeholder_ids[u]
    BY <2>1, <2>3, <1>10 DEF new
  <2>5. \A u \in Types \ {t} : created[u] = ct.created[u]
    BY <2>1 DEF created, AddCreated
  <2>6. \A u \in Types : \A m \in ct'.created[u] : m.old_id \in create_placeholder_ids'[u]
    <3> SUFFICES ASSUME NEW u \in Types, NEW m \in created[u]
                 PROVE  m.old_id \in create_placeholder_ids'[u]
      BY <2>2
    <3>1. CASE u = t
      BY <3>1, <1>4, <2>4 DEF new
    <3>2. CASE u # t
      BY <3>2, <2>1, <2>4, <2>5
    <3>3. QED
      BY <3>1, <3>2
  <2>7. QED
    BY <2>2, <2>4, <2>6, <1>4 DEF PlaceholderInv
<1>14. PendingInv'
  BY <1>10 DEF UploadInv, PendingInv
<1>15. RoomInv'
  <2>1. \A u \in Types : Room(u)' = Room(u)
    <3> SUFFICES ASSUME NEW u \in Types PROVE Room(u)' = Room(u)
      OBVIOUS
    <3>1. CASE u = t
      <4>1. tx.id_seq[t] \in Nat /\ Len(raw) \in Nat
        BY <1>1, <1>2, TablesFields, MaxIdAssumption
      <4>2. QED
        BY <3>1, <4>1, <1>8, <1>12 DEF Room
    <3>2. CASE u # t
      <4>1. tx'.id_seq[u] = tx.id_seq[u]
        BY <3>2, <1>8 DEF GoodWrite, Rewritten, CurrentRewritten
      <4>2. QED
        BY <3>2, <4>1, <1>12 DEF Room
    <3>3. QED
      BY <3>1, <3>2
  <2>2. QED
    BY <2>1, <1>10 DEF UploadInv, RoomInv
<1>16. QED
  BY <1>6, <1>7, <1>8, <1>11, <1>12, <1>13, <1>14, <1>15 DEF UploadInv, l

\* What is left as it is when the working tables are written.
LEMMA SteadyKeeps ==
    ASSUME UploadInv, db' = db, pending' = pending, phase' = phase, scenario' = scenario,
           create_placeholder_ids' = create_placeholder_ids,
           TrackingFields \subseteq DOMAIN ct', ct'.created = ct.created,
           \A u \in Types : buffer'["create"][u] = buffer["create"][u],
           tx'.id_seq = tx.id_seq
    PROVE  PlaceholderInv' /\ PendingInv' /\ RoomInv'
<1>1. PlaceholderInv'
  BY DEF UploadInv, PlaceholderInv
<1>2. PendingInv'
  BY DEF UploadInv, PendingInv
<1>3. \A u \in Types : Room(u)' = Room(u)
  BY DEF Room
<1>4. RoomInv'
  BY <1>3 DEF UploadInv, RoomInv
<1>5. QED
  BY <1>1, <1>2, <1>4

\* What process_modify_* does up to the loop when nothing is thrown.
ModifyList(t) == ResolveAll(ct.created, t, buffer["modify"][t])

ModifyStep(t) ==
    /\ Calling("modify", t)
    /\ PlaceholdersKnown(ct.created, t, buffer["modify"][t])
    /\ \A i \in DOMAIN ModifyList(t) : Exists(tx, t, ModifyList(t)[i].id)
    /\ packages' = BuildPackages(ModifyList(t))
    /\ package' = 1
    /\ todo' = <<[op |-> "package", type |-> t]>> \o Tail(todo)
    /\ UNCHANGED <<tx, ct, buffer, create_placeholder_ids, handlerVars, scenario>>

LEMMA PackagesAreParts ==
    ASSUME NEW l, NEW k \in DOMAIN BuildPackages(l)
    PROVE  Part(BuildPackages(l)[k], l)
  BY DEF BuildPackages, Part

LEMMA ModifyStepKeeps ==
    ASSUME UploadInv, NEW t \in Types, ModifyStep(t)
    PROVE  UploadInv' /\ FitList(ModifyList(t), t)
<1> DEFINE l == ModifyList(t)
           call == [op |-> "package", type |-> t]
<1>1. /\ db' = db /\ tx' = tx /\ ct' = ct /\ buffer' = buffer /\ pending' = pending
      /\ phase' = phase /\ scenario' = scenario /\ packages' = BuildPackages(l)
      /\ create_placeholder_ids' = create_placeholder_ids
      /\ todo' = <<call>> \o Tail(todo) /\ todo # <<>>
  BY DEF ModifyStep, handlerVars, Calling
<1>2. FitList(l, t)
  <2>1. /\ ct.created \in [Types -> SUBSET Mapping]
        /\ PlaceholdersKnown(ct.created, t, buffer["modify"][t])
        /\ buffer["modify"][t] \in Seq(Fitting("modify", t))
    BY DEF UploadInv, PlaceholderInv, BufferInv, ModifyStep, Ops
  <2>2. QED
    BY <2>1, FitResolved DEF ModifyList
<1>3. \A i \in DOMAIN l : Exists(tx, t, l[i].id)
  BY DEF ModifyStep
<1> HIDE DEF l
<1>4. \A k \in DOMAIN packages' : PackageFits(tx', packages'[k], t)
  <2> SUFFICES ASSUME NEW k \in DOMAIN BuildPackages(l)
               PROVE  PackageFits(tx', BuildPackages(l)[k], t)
    BY <1>1
  <2> DEFINE m == BuildPackages(l)[k]
  <2>1. Part(m, l)
    BY PackagesAreParts
  <2> HIDE DEF m
  <2>2. FitList(m, t)
    BY <2>1, <1>2, PartFits
  <2>3. \A i \in DOMAIN m : Exists(tx', t, m[i].id)
    BY <2>1, <1>1, <1>3 DEF Part
  <2>4. FitList(m, t) /\ \A i \in DOMAIN m : Exists(tx', t, m[i].id)
    BY <2>2, <2>3
  <2>5. QED
    BY <2>4, <1>1 DEF PackageFits, m
<1>5. PackageInv'
  <2>1. /\ Tail(todo) \in Seq(Call)
        /\ \A j \in DOMAIN Tail(todo) : Tail(todo)[j].op # "package"
    BY <1>1, NoPackageLeft DEF UploadInv
  <2>2. call \in Call
    BY DEF Call, Ops
  <2> DEFINE S == Call
             rest == Tail(todo)
  <2>3. rest \in Seq(S) /\ call \in S /\ todo' = <<call>> \o rest
        /\ \A j \in DOMAIN rest : rest[j].op # "package"
    BY <2>1, <2>2, <1>1
  <2> HIDE DEF S, call, rest
  <2>4. /\ todo' \in Seq(S)
        /\ todo'[1] = call
        /\ \A j \in DOMAIN todo' : j = 1 \/ (j - 1 \in DOMAIN rest /\ todo'[j] = rest[j - 1])
    BY <2>3, ConsSeq
  <2>5. \A j \in DOMAIN todo' : todo'[j].op = "package" => j = 1
    BY <2>3, <2>4
  <2>6. call.type = t
    BY DEF call
  <2>7. \A j \in DOMAIN todo' : todo'[j].op = "package" =>
           j = 1 /\ \A k \in DOMAIN packages' : PackageFits(tx', packages'[k], todo'[j].type)
    BY <2>4, <2>5, <2>6, <1>4
  <2>8. QED
    BY <2>4, <2>7 DEF PackageInv, S
<1>6. PlaceholderInv' /\ PendingInv' /\ RoomInv'
  <2>1. TrackingFields \subseteq DOMAIN ct'
    BY <1>1 DEF UploadInv, PlaceholderInv
  <2>2. QED
    BY <1>1, <2>1, SteadyKeeps
<1>7. TablesInv' /\ BufferInv'
  BY <1>1 DEF UploadInv, TablesInv, BufferInv
<1>8. QED
  BY <1>2, <1>5, <1>6, <1>7 DEF UploadInv, l

\* What a round of the loop does when nothing is thrown.
PackageStep(t) ==
    LET l == packages[package]
    IN  /\ Calling("package", t)
        /\ package \in DOMAIN packages
        /\ Unique(l)
        /\ \A i \in DOMAIN l : l[i].version = tx.current[t][l[i].id].version
        /\ FutureVisible(tx, l)
        /\ FutureRelations(tx, l, UNION {IdsOf(packages[k]) : k \in DOMAIN packages})
        /\ tx' = Saved(Updated(tx, t, l), t, l)
        /\ ct' = [ct EXCEPT !.modified[t] = @ \cup Mappings(Updated(tx, t, l), t, l, IdsOf(l))]
        /\ package' = package + 1
        /\ UNCHANGED <<buffer, create_placeholder_ids, packages, todo, handlerVars, scenario>>

LEMMA PackageStepKeeps ==
    ASSUME UploadInv, NEW t \in Types, PackageStep(t)
    PROVE  /\ UploadInv'
           /\ GoodWrite(tx, tx', t, packages[package], ShownRows(packages[package]))
           /\ FitList(packages[package], t) /\ tx'.id_seq = tx.id_seq
<1> DEFINE l == packages[package]
<1>1. /\ db' = db /\ buffer' = buffer /\ pending' = pending
      /\ phase' = phase /\ scenario' = scenario /\ packages' = packages
      /\ create_placeholder_ids' = create_placeholder_ids
      /\ todo' = todo /\ todo # <<>> /\ package \in DOMAIN packages
      /\ Head(todo) = [op |-> "package", type |-> t]
      /\ tx' = Saved(Updated(tx, t, l), t, l)
  BY DEF PackageStep, handlerVars, Calling
<1>2. /\ 1 \in DOMAIN todo /\ todo[1].op = "package" /\ todo[1].type = t
  BY <1>1, NoPackageLeft DEF UploadInv
<1>3. \A k \in DOMAIN packages : PackageFits(tx, packages[k], t)
  BY <1>2 DEF UploadInv, PackageInv
<1>4. FitList(l, t) /\ \A i \in DOMAIN l : Exists(tx, t, l[i].id)
  BY <1>1, <1>3 DEF PackageFits
<1>5. Sane(tx) /\ tx \in Tables /\ Sane(db) /\ db \in Tables /\ Grows(db, tx)
  BY DEF UploadInv, TablesInv, Sane
<1>6. GoodWrite(tx, tx', t, l, ShownRows(l)) /\ tx'.id_seq = tx.id_seq
  <2>1. /\ Unique(l) /\ FutureVisible(tx, l)
        /\ \A i \in DOMAIN l : l[i].version = tx.current[t][l[i].id].version
    BY DEF PackageStep
  <2> HIDE DEF l
  <2>2. QED
    BY <1>1, <1>4, <1>5, <2>1, ModifyGood
<1>7. Sane(tx') /\ Grows(db, tx')
  <2> HIDE DEF l
  <2>1. QED
    BY <1>5, <1>6, WriteKeeps
<1>8. \A k \in DOMAIN packages' : PackageFits(tx', packages'[k], t)
  <2>1. \A id \in Ids : tx.current[t][id].version <= tx'.current[t][id].version
    <3> HIDE DEF l
    <3>1. Rewritten(tx, tx', t, l, ShownRows(l)) /\ GoodRows(tx, t, l, ShownRows(l))
      BY <1>6 DEF GoodWrite
    <3>2. QED
      BY <1>5, <3>1, RowsAfter
  <2>2. \A id \in Ids : tx.current[t][id].version \in Nat /\ tx'.current[t][id].version \in Nat
    <3>1. tx' \in Tables
      BY <1>7 DEF Sane
    <3>2. \A id \in Ids : tx.current[t][id] \in Row /\ tx'.current[t][id] \in Row
      BY <1>5, <3>1, TablesFields
    <3>3. QED
      BY <3>2 DEF Row
  <2>3. \A id \in Ids : Exists(tx, t, id) => Exists(tx', t, id)
    BY <2>1, <2>2 DEF Exists
  <2>4. \A k \in DOMAIN packages : \A i \in DOMAIN packages[k] : packages[k][i].id \in Ids
    BY <1>3 DEF PackageFits, FitList, Listed, Resolved
  <2>5. \A k \in DOMAIN packages :
          FitList(packages[k], t) /\ \A i \in DOMAIN packages[k] : Exists(tx', t, packages[k][i].id)
    BY <1>3, <2>3, <2>4 DEF PackageFits
  <2>6. QED
    BY <2>5, <1>1 DEF PackageFits
<1>9. PackageInv'
  <2>1. \A j \in DOMAIN todo : todo[j].op = "package" => j = 1
    BY DEF UploadInv, PackageInv
  <2>2. \A j \in DOMAIN todo' : todo'[j].op = "package" =>
           j = 1 /\ \A k \in DOMAIN packages' : PackageFits(tx', packages'[k], todo'[j].type)
    BY <2>1, <1>1, <1>2, <1>8
  <2>3. QED
    BY <2>2, <1>1 DEF UploadInv, PackageInv
<1>10. TrackingFields \subseteq DOMAIN ct' /\ ct'.created = ct.created
  BY DEF PackageStep, UploadInv, PlaceholderInv, TrackingFields
<1>11. PlaceholderInv' /\ PendingInv' /\ RoomInv'
  BY <1>1, <1>6, <1>10, SteadyKeeps
<1>12. TablesInv' /\ BufferInv'
  BY <1>1, <1>5, <1>7 DEF UploadInv, TablesInv, BufferInv
<1>13. QED
  BY <1>4, <1>6, <1>9, <1>11, <1>12 DEF UploadInv

\* The loop has ended.
LoopEnd(t) ==
    /\ Calling("package", t)
    /\ package \notin DOMAIN packages
    /\ packages' = <<>>
    /\ package' = 1
    /\ Return("modify", t)
    /\ UNCHANGED <<tx, ct, create_placeholder_ids, handlerVars, scenario>>

LEMMA LoopEndKeeps ==
    ASSUME UploadInv, NEW t \in Types, LoopEnd(t)
    PROVE  UploadInv'
<1>1. /\ db' = db /\ tx' = tx /\ ct' = ct /\ pending' = pending
      /\ phase' = phase /\ scenario' = scenario
      /\ create_placeholder_ids' = create_placeholder_ids
      /\ todo # <<>> /\ Return("modify", t)
  BY DEF LoopEnd, handlerVars, Calling
<1>2. /\ PackageInv' /\ BufferInv'
      /\ \A u \in Types : buffer'["create"][u] = buffer["create"][u]
  BY <1>1, ReturnKeeps DEF Ops
<1>3. PlaceholderInv' /\ PendingInv' /\ RoomInv'
  <2>1. TrackingFields \subseteq DOMAIN ct'
    BY <1>1 DEF UploadInv, PlaceholderInv
  <2>2. QED
    BY <1>1, <1>2, <2>1, SteadyKeeps
<1>4. TablesInv'
  BY <1>1 DEF UploadInv, TablesInv
<1>5. QED
  BY <1>2, <1>3, <1>4 DEF UploadInv

\* What process_delete_* does when nothing is thrown: m is what is left of the
\* list without what is deleted already and what is skipped.
DeleteList(t) == ResolveAll(ct.created, t, buffer["delete"][t])

\* The relations to delete are all with or all without if-unused.  Mixed, a
\* relation that is kept may lose a member: run mixed_deletes.
UnmixedDeletes ==
    LET l == buffer["delete"]["Relation"]
    IN  \A i, j \in DOMAIN l : l[i].if_unused = l[j].if_unused

DeleteStep(t, m, skipped) ==
    /\ Calling("delete", t)
    /\ PlaceholdersKnown(ct.created, t, buffer["delete"][t])
    /\ Part(m, DeleteList(t))
    /\ Unique(m)
    /\ \A i \in DOMAIN m : /\ m[i].version = tx.current[t][m[i].id].version
                           /\ Exists(tx, t, m[i].id)
    /\ \A i \in DOMAIN m : \A p \in Types : \A x \in tx.members[p] :
           x.type = t /\ x.ref = m[i].id => t = "Relation"
    /\ UnmixedDeletes =>
           \A i \in DOMAIN m : \A x \in tx.members["Relation"] :
               x.type = t /\ x.ref = m[i].id => x.id \in IdsOf(m)
    /\ tx' = Deleted(tx, t, m)
    /\ ct' = [ct EXCEPT !.skip_deleted[t] = skipped,
                        !.deleted[t] = @ \cup Mappings(Hidden(tx, t, m), t, m, IdsOf(m))]
    /\ Return("delete", t)
    /\ UNCHANGED <<create_placeholder_ids, packages, package, handlerVars, scenario>>

LEMMA DeletedFits ==
    ASSUME UploadInv, NEW t \in Types,
           PlaceholdersKnown(ct.created, t, buffer["delete"][t])
    PROVE  /\ FitList(DeleteList(t), t)
           /\ DOMAIN DeleteList(t) = DOMAIN buffer["delete"][t]
           /\ \A i \in DOMAIN DeleteList(t) :
                DeleteList(t)[i].tags = {} /\ DeleteList(t)[i].members = <<>>
<1>1. /\ ct.created \in [Types -> SUBSET Mapping]
      /\ buffer["delete"][t] \in Seq(Fitting("delete", t))
  BY DEF UploadInv, PlaceholderInv, BufferInv, Ops
<1>2. QED
  BY <1>1, FitResolved DEF DeleteList

LEMMA DeleteStepKeeps ==
    ASSUME UploadInv, NEW t \in Types, NEW m, NEW skipped, DeleteStep(t, m, skipped)
    PROVE  /\ UploadInv'
           /\ GoodWrite(tx, tx', t, m, HiddenRows(tx, t, m))
           /\ FitList(m, t) /\ tx'.id_seq = tx.id_seq
<1>1. /\ db' = db /\ pending' = pending /\ phase' = phase /\ scenario' = scenario
      /\ packages' = packages /\ create_placeholder_ids' = create_placeholder_ids
      /\ todo # <<>> /\ Return("delete", t) /\ tx' = Deleted(tx, t, m)
  BY DEF DeleteStep, handlerVars, Calling
<1>2. Sane(tx) /\ tx \in Tables /\ Sane(db) /\ db \in Tables /\ Grows(db, tx)
  BY DEF UploadInv, TablesInv, Sane
<1>3. FitList(m, t) /\ \A i \in DOMAIN m : m[i].tags = {} /\ m[i].members = <<>>
  <2>1. PlaceholdersKnown(ct.created, t, buffer["delete"][t]) /\ Part(m, DeleteList(t))
    BY DEF DeleteStep
  <2> DEFINE l == DeleteList(t)
  <2>2. FitList(l, t) /\ \A i \in DOMAIN l : l[i].tags = {} /\ l[i].members = <<>>
    BY <2>1, DeletedFits
  <2>3. Part(m, l)
    BY <2>1
  <2> HIDE DEF l
  <2>4. FitList(m, t)
    BY <2>2, <2>3, PartFits
  <2>5. QED
    BY <2>2, <2>3, <2>4 DEF Part
<1>4. GoodWrite(tx, tx', t, m, HiddenRows(tx, t, m)) /\ tx'.id_seq = tx.id_seq
  <2>1. /\ Unique(m)
        /\ \A i \in DOMAIN m : /\ m[i].version = tx.current[t][m[i].id].version
                               /\ Exists(tx, t, m[i].id)
        /\ \A i \in DOMAIN m : \A p \in Types : \A x \in tx.members[p] :
             x.type = t /\ x.ref = m[i].id => t = "Relation"
    BY DEF DeleteStep
  <2>2. QED
    BY <1>1, <1>2, <1>3, <2>1, DeleteGood
<1>5. Sane(tx') /\ Grows(db, tx')
  BY <1>2, <1>4, WriteKeeps
<1>6. /\ PackageInv' /\ BufferInv'
      /\ \A u \in Types : buffer'["create"][u] = buffer["create"][u]
  BY <1>1, ReturnKeeps DEF Ops
<1>7. TrackingFields \subseteq DOMAIN ct' /\ ct'.created = ct.created
  BY DEF DeleteStep, UploadInv, PlaceholderInv, TrackingFields
<1>8. PlaceholderInv' /\ PendingInv' /\ RoomInv'
  BY <1>1, <1>4, <1>6, <1>7, SteadyKeeps
<1>9. TablesInv'
  BY <1>1, <1>2, <1>5 DEF TablesInv
<1>10. QED
  BY <1>3, <1>4, <1>6, <1>8, <1>9 DEF UploadInv

-----------------------------------------------------------------------------
(* Each process_* function throws, or does one of these. *)

LEMMA AllOK ==
    ASSUME NEW a, NEW b, Then(a, b) = OK
    PROVE  a = OK /\ b = OK
  BY DEF Then

Throws == \E code : Throw(code)

LEMMA LocksOK ==
    ASSUME NEW tb, NEW l
    PROVE  /\ \A t : LockCurrent(tb, t, IdsOf(l)) = OK =>
                \A i \in DOMAIN l : Exists(tb, t, l[i].id)
           /\ LockFuture(tb, "Node", l, {}) = OK =>
                \A i \in DOMAIN l : \A k \in DOMAIN l[i].members :
                  l[i].members[k].type = "Node" => Visible(tb, "Node", l[i].members[k].ref)
           /\ LockFuture(tb, "Way", l, {}) = OK =>
                \A i \in DOMAIN l : \A k \in DOMAIN l[i].members :
                  l[i].members[k].type = "Way" => Visible(tb, "Way", l[i].members[k].ref)
           /\ \A exempt : LockFuture(tb, "Relation", l, exempt) = OK => FutureRelations(tb, l, exempt)
  BY DEF LockCurrent, LockFuture, FutureRelations, IdsOf, OK, not_found, precondition_failed

\* Lists without members, as of nodes, and with nodes only, as of ways.
LEMMA NodeFutures ==
    ASSUME NEW tb, NEW l, FitList(l, "Node")
    PROVE  FutureVisible(tb, l) /\ \A exempt : FutureRelations(tb, l, exempt)
<1>1. \A i \in DOMAIN l : DOMAIN l[i].members = {}
  BY DEF FitList
<1>2. QED
  BY <1>1 DEF FutureVisible, FutureRelations

LEMMA WayFutures ==
    ASSUME NEW tb, NEW l, FitList(l, "Way"), LockFuture(tb, "Node", l, {}) = OK
    PROVE  FutureVisible(tb, l) /\ \A exempt : FutureRelations(tb, l, exempt)
<1>1. \A i \in DOMAIN l : \A k \in DOMAIN l[i].members : l[i].members[k].type = "Node"
  BY DEF FitList
<1>2. \A i \in DOMAIN l : \A k \in DOMAIN l[i].members : Visible(tb, "Node", l[i].members[k].ref)
  BY <1>1, LocksOK
<1>3. FutureVisible(tb, l)
  BY <1>1, <1>2 DEF FutureVisible
<1>4. \A exempt : FutureRelations(tb, l, exempt)
  BY <1>1 DEF FutureRelations
<1>5. QED
  BY <1>3, <1>4

LEMMA RelationFutures ==
    ASSUME NEW tb, NEW l, NEW exempt, lock_future_members(tb, l, exempt) = OK
    PROVE  FutureVisible(tb, l) /\ FutureRelations(tb, l, exempt)
<1>1. /\ LockFuture(tb, "Node", l, {}) = OK /\ LockFuture(tb, "Way", l, {}) = OK
      /\ LockFuture(tb, "Relation", l, exempt) = OK
  BY AllOK DEF lock_future_members, lock_future_members_nodes, lock_future_members_ways,
               lock_future_members_relations
<1>2. FutureVisible(tb, l)
  BY <1>1, LocksOK DEF FutureVisible
<1>3. QED
  BY <1>1, <1>2, LocksOK

\* The list that process_new_* makes of its buffer fits the type.
LEMMA CreateListFits ==
    ASSUME UploadInv, NEW t \in Types,
           PlaceholdersUnique(create_placeholder_ids[t], buffer["create"][t]),
           PlaceholdersKnown(AddCreated(t), t, buffer["create"][t])
    PROVE  /\ FitList(CreateList(t), t)
           /\ buffer["create"][t] \in Seq(Element)
           /\ tx.id_seq[t] + Len(buffer["create"][t]) <= MaxId
<1> DEFINE raw == buffer["create"][t]
           seen == create_placeholder_ids[t]
           old == ct.created
           created == AddCreated(t)
<1>1. raw \in Seq(Fitting("create", t)) /\ raw \in Seq(Element)
  BY FittingTyped DEF UploadInv, BufferInv, Ops
<1>2. CreatedFrom(tx, t, old, seen, raw, created)
  <2>1. tx \in Tables /\ tx.id_seq[t] + Len(raw) <= MaxId
    BY DEF UploadInv, TablesInv, Sane, RoomInv, Room
  <2>2. old \in [Types -> SUBSET Mapping] /\ \A m \in old[t] : m.old_id \in seen
    BY DEF UploadInv, PlaceholderInv
  <2>3. created = [old EXCEPT ![t] = @ \cup CreatedMappings(tx, t, raw)]
    BY DEF AddCreated
  <2>4. PlaceholdersUnique(seen, raw)
    OBVIOUS
  <2> HIDE DEF raw, seen, old, created
  <2>5. QED
    BY <1>1, <2>1, <2>2, <2>3, <2>4 DEF CreatedFrom
<1>3. PlaceholdersKnown(created, t, raw)
  OBVIOUS
<1>4. CreateList(t) = ResolveAll(created, t, raw)
  BY DEF CreateList
<1> HIDE DEF raw, seen, old, created
<1>5. created \in [Types -> SUBSET Mapping]
  BY <1>2, CreatedIds
<1>6. FitList(ResolveAll(created, t, raw), t)
  BY <1>1, <1>3, <1>5, FitResolved
<1>7. QED
  BY <1>1, <1>4, <1>6 DEF UploadInv, RoomInv, Room, raw

LEMMA NewNodes ==
    ASSUME UploadInv, process_new_nodes, scenario' = scenario
    PROVE  Throws \/ CreateStep("Node")
<1> DEFINE raw == buffer["create"]["Node"]
           created == AddCreated("Node")
           l == CreateList("Node")
           error == Then(check_unique_node_placeholder_ids(raw), NodePlaceholdersFound(raw, created))
           mid == InsertTags(InsertCurrent(tx, "Node", raw), "Node", l)
<1>0. "Node" \in Types
  BY DEF Types
<1>1. SUFFICES ASSUME ~Throws PROVE CreateStep("Node")
  OBVIOUS
<1>2. /\ Calling("create", "Node")
      /\ error = OK
      /\ tx' = SaveTagsHistory(SaveHistory(mid, "Node", IdsOf(l)), "Node", IdsWithTags(l))
      /\ create_placeholder_ids' = [create_placeholder_ids EXCEPT !["Node"] =
             @ \cup {raw[i].old_id : i \in DOMAIN raw}]
      /\ ct' = [ct EXCEPT !.created = created]
      /\ Return("create", "Node")
      /\ UNCHANGED <<packages, package, handlerVars>>
  BY <1>1 DEF process_new_nodes, Throws, AddCreated, CreateList, replace_old_ids_in_nodes,
              insert_new_current_node_tags, insert_new_nodes_to_current_table,
              save_current_node_tags_to_history, save_current_nodes_to_history
<1>3. /\ PlaceholdersUnique(create_placeholder_ids["Node"], raw)
      /\ PlaceholdersKnown(created, "Node", raw)
  <2>1. check_unique_node_placeholder_ids(raw) = OK /\ NodePlaceholdersFound(raw, created) = OK
    BY <1>2, AllOK
  <2>2. QED
    BY <2>1 DEF check_unique_node_placeholder_ids, NodePlaceholdersFound, OK, bad_request
<1>4. FitList(l, "Node") /\ raw \in Seq(Element) /\ tx.id_seq["Node"] + Len(raw) <= MaxId
  BY <1>0, <1>3, CreateListFits
<1>5. Sane(tx)
  BY DEF UploadInv, TablesInv
<1>6. FutureVisible(tx, l) /\ FutureRelations(tx, l, IdsOf(l))
  BY <1>4, NodeFutures
<1>7. tx' = Saved(Inserted(tx, "Node", raw, l), "Node", l)
  <2> HIDE DEF raw, l
  <2>1. QED
    BY <1>2, <1>4, <1>5, NodesInserted
<1>8. QED
  BY <1>2, <1>3, <1>6, <1>7 DEF CreateStep

LEMMA NewWays ==
    ASSUME UploadInv, process_new_ways, scenario' = scenario
    PROVE  Throws \/ CreateStep("Way")
<1> DEFINE raw == buffer["create"]["Way"]
           created == AddCreated("Way")
           l == CreateList("Way")
           error == Then(check_unique_way_placeholder_ids(raw),
                    Then(WayPlaceholdersFound(raw, created), lock_future_nodes(tx, l)))
<1>0. "Way" \in Types
  BY DEF Types
<1>1. SUFFICES ASSUME ~Throws PROVE CreateStep("Way")
  OBVIOUS
<1>2. /\ Calling("create", "Way")
      /\ error = OK
      /\ tx' = Saved(Inserted(tx, "Way", raw, l), "Way", l)
      /\ create_placeholder_ids' = [create_placeholder_ids EXCEPT !["Way"] =
             @ \cup {raw[i].old_id : i \in DOMAIN raw}]
      /\ ct' = [ct EXCEPT !.created = created]
      /\ Return("create", "Way")
      /\ UNCHANGED <<packages, package, handlerVars>>
  BY <1>1 DEF process_new_ways, Throws, AddCreated, CreateList, replace_old_ids_in_ways,
              Saved, Inserted, insert_new_current_way_nodes,
              insert_new_current_way_tags, insert_new_ways_to_current_table,
              save_current_way_nodes_to_history,
              save_current_way_tags_to_history, save_current_ways_to_history
<1>3. /\ PlaceholdersUnique(create_placeholder_ids["Way"], raw)
      /\ PlaceholdersKnown(created, "Way", raw)
      /\ LockFuture(tx, "Node", l, {}) = OK
  <2>1. /\ check_unique_way_placeholder_ids(raw) = OK /\ WayPlaceholdersFound(raw, created) = OK
        /\ lock_future_nodes(tx, l) = OK
    BY <1>2, AllOK
  <2>2. QED
    BY <2>1 DEF check_unique_way_placeholder_ids, WayPlaceholdersFound, OK, bad_request,
                lock_future_nodes
<1>4. FitList(l, "Way")
  BY <1>0, <1>3, CreateListFits
<1>5. FutureVisible(tx, l) /\ FutureRelations(tx, l, IdsOf(l))
  BY <1>3, <1>4, WayFutures
<1>6. QED
  BY <1>2, <1>3, <1>5 DEF CreateStep

LEMMA NewRelations ==
    ASSUME UploadInv, process_new_relations, scenario' = scenario
    PROVE  Throws \/ CreateStep("Relation")
<1> DEFINE raw == buffer["create"]["Relation"]
           created == AddCreated("Relation")
           l == CreateList("Relation")
           error == Then(check_unique_relation_placeholder_ids(raw),
                    Then(check_forward_relation_placeholders(raw),
                    Then(RelationPlaceholdersFound(raw, created),
                         lock_future_members(tx, l, IdsOf(l)))))
<1>1. SUFFICES ASSUME ~Throws PROVE CreateStep("Relation")
  OBVIOUS
<1>2. /\ Calling("create", "Relation")
      /\ error = OK
      /\ tx' = Saved(Inserted(tx, "Relation", raw, l), "Relation", l)
      /\ create_placeholder_ids' = [create_placeholder_ids EXCEPT !["Relation"] =
             @ \cup {raw[i].old_id : i \in DOMAIN raw}]
      /\ ct' = [ct EXCEPT !.created = created]
      /\ Return("create", "Relation")
      /\ UNCHANGED <<packages, package, handlerVars>>
  BY <1>1 DEF process_new_relations, Throws, AddCreated, CreateList, replace_old_ids_in_relations,
              Saved, Inserted, insert_new_current_relation_members,
              insert_new_current_relation_tags, insert_new_relations_to_current_table,
              save_current_relation_members_to_history,
              save_current_relation_tags_to_history, save_current_relations_to_history
<1>3. /\ PlaceholdersUnique(create_placeholder_ids["Relation"], raw)
      /\ PlaceholdersKnown(created, "Relation", raw)
      /\ lock_future_members(tx, l, IdsOf(l)) = OK
  <2>1. /\ check_unique_relation_placeholder_ids(raw) = OK
        /\ RelationPlaceholdersFound(raw, created) = OK
        /\ lock_future_members(tx, l, IdsOf(l)) = OK
    BY <1>2, AllOK
  <2>2. QED
    BY <2>1 DEF check_unique_relation_placeholder_ids, RelationPlaceholdersFound, OK, bad_request
<1>4. FutureVisible(tx, l) /\ FutureRelations(tx, l, IdsOf(l))
  BY <1>3, RelationFutures
<1>5. QED
  BY <1>2, <1>3, <1>4 DEF CreateStep

LEMMA ModifyNodes ==
    ASSUME UploadInv, process_modify_nodes, scenario' = scenario
    PROVE  Throws \/ ModifyStep("Node")
<1> DEFINE l == ModifyList("Node")
           error == Then(NodePlaceholdersFound(buffer["modify"]["Node"], ct.created),
                         lock_current_nodes(tx, IdsOf(l)))
<1>1. SUFFICES ASSUME ~Throws PROVE ModifyStep("Node")
  OBVIOUS
<1>2. /\ Calling("modify", "Node")
      /\ error = OK
      /\ packages' = BuildPackages(l)
      /\ package' = 1
      /\ todo' = <<[op |-> "package", type |-> "Node"]>> \o Tail(todo)
      /\ UNCHANGED <<tx, ct, buffer, create_placeholder_ids, handlerVars>>
  BY <1>1 DEF process_modify_nodes, Throws, ModifyList, replace_old_ids_in_nodes, build_node_packages
<1>3. NodePlaceholdersFound(buffer["modify"]["Node"], ct.created) = OK /\ lock_current_nodes(tx, IdsOf(l)) = OK
  BY <1>2, AllOK
<1>4. PlaceholdersKnown(ct.created, "Node", buffer["modify"]["Node"])
  BY <1>3 DEF NodePlaceholdersFound, OK, bad_request
<1>5. \A i \in DOMAIN l : Exists(tx, "Node", l[i].id)
  BY <1>3, LocksOK DEF lock_current_nodes
<1>6. QED
  BY <1>2, <1>4, <1>5 DEF ModifyStep

LEMMA ModifyWays ==
    ASSUME UploadInv, process_modify_ways, scenario' = scenario
    PROVE  Throws \/ ModifyStep("Way")
<1> DEFINE l == ModifyList("Way")
           error == Then(WayPlaceholdersFound(buffer["modify"]["Way"], ct.created),
                         lock_current_ways(tx, IdsOf(l)))
<1>1. SUFFICES ASSUME ~Throws PROVE ModifyStep("Way")
  OBVIOUS
<1>2. /\ Calling("modify", "Way")
      /\ error = OK
      /\ packages' = BuildPackages(l)
      /\ package' = 1
      /\ todo' = <<[op |-> "package", type |-> "Way"]>> \o Tail(todo)
      /\ UNCHANGED <<tx, ct, buffer, create_placeholder_ids, handlerVars>>
  BY <1>1 DEF process_modify_ways, Throws, ModifyList, replace_old_ids_in_ways, build_way_packages
<1>3. WayPlaceholdersFound(buffer["modify"]["Way"], ct.created) = OK /\ lock_current_ways(tx, IdsOf(l)) = OK
  BY <1>2, AllOK
<1>4. PlaceholdersKnown(ct.created, "Way", buffer["modify"]["Way"])
  BY <1>3 DEF WayPlaceholdersFound, OK, bad_request
<1>5. \A i \in DOMAIN l : Exists(tx, "Way", l[i].id)
  BY <1>3, LocksOK DEF lock_current_ways
<1>6. QED
  BY <1>2, <1>4, <1>5 DEF ModifyStep

LEMMA ModifyRelations ==
    ASSUME UploadInv, process_modify_relations, scenario' = scenario
    PROVE  Throws \/ ModifyStep("Relation")
<1> DEFINE l == ModifyList("Relation")
           error == Then(RelationPlaceholdersFound(buffer["modify"]["Relation"], ct.created),
                         lock_current_relations(tx, IdsOf(l)))
<1>1. SUFFICES ASSUME ~Throws PROVE ModifyStep("Relation")
  OBVIOUS
<1>2. /\ Calling("modify", "Relation")
      /\ error = OK
      /\ packages' = BuildPackages(l)
      /\ package' = 1
      /\ todo' = <<[op |-> "package", type |-> "Relation"]>> \o Tail(todo)
      /\ UNCHANGED <<tx, ct, buffer, create_placeholder_ids, handlerVars>>
  BY <1>1 DEF process_modify_relations, Throws, ModifyList, replace_old_ids_in_relations, build_relation_packages
<1>3. RelationPlaceholdersFound(buffer["modify"]["Relation"], ct.created) = OK /\ lock_current_relations(tx, IdsOf(l)) = OK
  BY <1>2, AllOK
<1>4. PlaceholdersKnown(ct.created, "Relation", buffer["modify"]["Relation"])
  BY <1>3 DEF RelationPlaceholdersFound, OK, bad_request
<1>5. \A i \in DOMAIN l : Exists(tx, "Relation", l[i].id)
  BY <1>3, LocksOK DEF lock_current_relations
<1>6. QED
  BY <1>2, <1>4, <1>5 DEF ModifyStep

LEMMA PackageListFits ==
    ASSUME UploadInv, NEW t, Calling("package", t), package \in DOMAIN packages
    PROVE  FitList(packages[package], t)
<1>1. todo # <<>> /\ Head(todo) = [op |-> "package", type |-> t]
  BY DEF Calling
<1>2. 1 \in DOMAIN todo /\ todo[1].op = "package" /\ todo[1].type = t
  BY <1>1, NoPackageLeft DEF UploadInv
<1>3. QED
  BY <1>2 DEF UploadInv, PackageInv, PackageFits

LEMMA VersionsOK ==
    ASSUME NEW tb, NEW t, NEW l
    PROVE  /\ CheckVersions(tb, t, l) = OK =>
                \A i \in DOMAIN l : l[i].version = tb.current[t][l[i].id].version
           /\ AllHit(tb, t, l) = OK => Unique(l)
  BY DEF CheckVersions, AllHit, OK, conflict, server_error

LEMMA NodePackage ==
    ASSUME UploadInv, process_modify_nodes_package, scenario' = scenario
    PROVE  Throws \/ PackageStep("Node") \/ LoopEnd("Node")
<1> DEFINE l == packages[package]
           error == Then(check_current_node_versions(tx, l), AllHit(tx, "Node", l))
           mid == InsertTags(Shown(DeleteTags(tx, "Node", IdsOf(l)), "Node", l), "Node", l)
<1>1. CASE package \notin DOMAIN packages
  BY <1>1 DEF process_modify_nodes_package, LoopEnd
<1>2. CASE package \in DOMAIN packages
  <2> SUFFICES ASSUME ~Throws PROVE PackageStep("Node")
    OBVIOUS
  <2>1. /\ Calling("package", "Node")
        /\ error = OK
        /\ tx' = SaveTagsHistory(SaveHistory(mid, "Node", IdsOf(l)), "Node", IdsWithTags(l))
        /\ ct' = [ct EXCEPT !.modified["Node"] = @ \cup Mappings(mid, "Node", l, IdsOf(l))]
        /\ package' = package + 1
        /\ UNCHANGED <<buffer, create_placeholder_ids, packages, todo, handlerVars>>
    BY <1>2 DEF process_modify_nodes_package, Throws, Shown, insert_new_current_node_tags,
                update_current_nodes, delete_current_node_tags,
                save_current_node_tags_to_history, save_current_nodes_to_history
  <2>2. Unique(l) /\ \A i \in DOMAIN l : l[i].version = tx.current["Node"][l[i].id].version
    <3>1. check_current_node_versions(tx, l) = OK /\ AllHit(tx, "Node", l) = OK
      BY <2>1, AllOK
    <3>2. QED
      BY <3>1, VersionsOK DEF check_current_node_versions
  <2>3. FitList(l, "Node") /\ Sane(tx)
    BY <1>2, <2>1, PackageListFits DEF UploadInv, TablesInv
  <2>4. FutureVisible(tx, l) /\ \A exempt : FutureRelations(tx, l, exempt)
    BY <2>3, NodeFutures
  <2>5. /\ Updated(tx, "Node", l) = mid
        /\ tx' = Saved(Updated(tx, "Node", l), "Node", l)
    <3> HIDE DEF l
    <3>1. QED
      BY <2>1, <2>2, <2>3, NodesUpdated
  <2>6. QED
    BY <1>2, <2>1, <2>2, <2>4, <2>5 DEF PackageStep
<1>3. QED
  BY <1>1, <1>2

LEMMA WayPackage ==
    ASSUME UploadInv, process_modify_ways_package, scenario' = scenario
    PROVE  Throws \/ PackageStep("Way") \/ LoopEnd("Way")
<1> DEFINE l == packages[package]
           error == Then(check_current_way_versions(tx, l),
                    Then(lock_future_nodes(tx, l), AllHit(tx, "Way", l)))
<1>1. CASE package \notin DOMAIN packages
  BY <1>1 DEF process_modify_ways_package, LoopEnd
<1>2. CASE package \in DOMAIN packages
  <2> SUFFICES ASSUME ~Throws PROVE PackageStep("Way")
    OBVIOUS
  <2>1. /\ Calling("package", "Way")
        /\ error = OK
        /\ tx' = Saved(Updated(tx, "Way", l), "Way", l)
        /\ ct' = [ct EXCEPT !.modified["Way"] =
                     @ \cup Mappings(Updated(tx, "Way", l), "Way", l, IdsOf(l))]
        /\ package' = package + 1
        /\ UNCHANGED <<buffer, create_placeholder_ids, packages, todo, handlerVars>>
    BY <1>2 DEF process_modify_ways_package, Throws, Shown, Updated, Saved,
                insert_new_current_way_tags, insert_new_current_way_nodes,
                update_current_ways, delete_current_way_tags, delete_current_way_nodes,
                save_current_way_tags_to_history, save_current_ways_to_history,
                save_current_way_nodes_to_history
  <2>2. /\ Unique(l) /\ LockFuture(tx, "Node", l, {}) = OK
        /\ \A i \in DOMAIN l : l[i].version = tx.current["Way"][l[i].id].version
    <3>1. /\ check_current_way_versions(tx, l) = OK /\ AllHit(tx, "Way", l) = OK
          /\ lock_future_nodes(tx, l) = OK
      BY <2>1, AllOK
    <3>2. QED
      BY <3>1, VersionsOK DEF check_current_way_versions, lock_future_nodes
  <2>3. FitList(l, "Way")
    BY <1>2, <2>1, PackageListFits
  <2>4. FutureVisible(tx, l) /\ \A exempt : FutureRelations(tx, l, exempt)
    BY <2>2, <2>3, WayFutures
  <2>5. QED
    BY <1>2, <2>1, <2>2, <2>4 DEF PackageStep
<1>3. QED
  BY <1>1, <1>2

LEMMA RelationPackage ==
    ASSUME UploadInv, process_modify_relations_package, scenario' = scenario
    PROVE  Throws \/ PackageStep("Relation") \/ LoopEnd("Relation")
<1> DEFINE l == packages[package]
           ids == UNION {IdsOf(packages[k]) : k \in DOMAIN packages}
           error == Then(check_current_relation_versions(tx, l),
                    Then(lock_future_members(tx, l, ids), AllHit(tx, "Relation", l)))
<1>1. CASE package \notin DOMAIN packages
  BY <1>1 DEF process_modify_relations_package, LoopEnd
<1>2. CASE package \in DOMAIN packages
  <2> SUFFICES ASSUME ~Throws PROVE PackageStep("Relation")
    OBVIOUS
  <2>1. /\ Calling("package", "Relation")
        /\ error = OK
        /\ tx' = Saved(Updated(tx, "Relation", l), "Relation", l)
        /\ ct' = [ct EXCEPT !.modified["Relation"] =
                     @ \cup Mappings(Updated(tx, "Relation", l), "Relation", l, IdsOf(l))]
        /\ package' = package + 1
        /\ UNCHANGED <<buffer, create_placeholder_ids, packages, todo, handlerVars>>
    BY <1>2 DEF process_modify_relations_package, Throws, Shown, Updated, Saved,
                insert_new_current_relation_tags, insert_new_current_relation_members,
                update_current_relations, delete_current_relation_tags,
                delete_current_relation_members,
                save_current_relation_tags_to_history, save_current_relations_to_history,
                save_current_relation_members_to_history
  <2>2. /\ Unique(l) /\ lock_future_members(tx, l, ids) = OK
        /\ \A i \in DOMAIN l : l[i].version = tx.current["Relation"][l[i].id].version
    <3>1. /\ check_current_relation_versions(tx, l) = OK /\ AllHit(tx, "Relation", l) = OK
          /\ lock_future_members(tx, l, ids) = OK
      BY <2>1, AllOK
    <3>2. QED
      BY <3>1, VersionsOK DEF check_current_relation_versions
  <2>3. FutureVisible(tx, l) /\ FutureRelations(tx, l, ids)
    BY <2>2, RelationFutures
  <2>4. QED
    BY <1>2, <2>1, <2>2, <2>3 DEF PackageStep
<1>3. QED
  BY <1>1, <1>2

\* The checks of process_delete_* on what is left (m) of the list without the
\* ids gone already and, of the rest (v), the ids used.
LEMMA LeftToDelete ==
    ASSUME UploadInv, NEW t \in Types,
           PlaceholdersKnown(ct.created, t, buffer["delete"][t]),
           LockCurrent(tx, t, IdsOf(DeleteList(t))) = OK,
           NEW absent, NEW v, v = Without(DeleteList(t), absent),
           NEW used, NEW m, m = Without(v, used),
           CheckVersions(tx, t, v) = OK, AllHit(tx, t, m) = OK
    PROVE  /\ Part(m, DeleteList(t)) /\ FitList(m, t) /\ Unique(m)
           /\ \A i \in DOMAIN m : /\ m[i].version = tx.current[t][m[i].id].version
                                  /\ Exists(tx, t, m[i].id)
                                  /\ m[i].id \in IdsOf(v) /\ m[i].id \notin used
<1> DEFINE l == DeleteList(t)
<1>1. FitList(l, t)
  BY DeletedFits
<1>2. \A i \in DOMAIN l : Exists(tx, t, l[i].id)
  BY LocksOK
<1> HIDE DEF l
<1>3. Part(v, l)
  BY WithoutIsPart DEF l
<1>4. Part(m, v) /\ \A i \in DOMAIN m : v[i].id \notin used
  BY WithoutIsPart
<1>5. Part(m, l)
  BY <1>3, <1>4 DEF Part
<1>6. FitList(m, t)
  BY <1>1, <1>5, PartFits
<1>7. Unique(m) /\ \A i \in DOMAIN v : v[i].version = tx.current[t][v[i].id].version
  BY VersionsOK
<1>8. \A i \in DOMAIN m : /\ m[i].version = tx.current[t][m[i].id].version
                          /\ Exists(tx, t, m[i].id)
                          /\ m[i].id \in IdsOf(v) /\ m[i].id \notin used
  BY <1>2, <1>3, <1>4, <1>5, <1>7 DEF Part, IdsOf
<1>9. QED
  BY <1>5, <1>6, <1>7, <1>8 DEF l

LEMMA DeleteNodes ==
    ASSUME UploadInv, process_delete_nodes, scenario' = scenario
    PROVE  Throws \/ \E m, skipped : DeleteStep("Node", m, skipped)
<1> DEFINE l == DeleteList("Node")
           absent == AlreadyDeleted(tx, "Node", l)
           v == Without(l, absent)
           used == is_node_still_referenced(tx, v)
           m == Without(v, used)
           skipped == AddSkipped(ct.skip_deleted["Node"],
                          Mappings(tx, "Node", l, absent) \cup Mappings(tx, "Node", v, used))
           error == Then(NodePlaceholdersFound(buffer["delete"]["Node"], ct.created),
                    Then(lock_current_nodes(tx, IdsOf(l)),
                    Then(AlreadyDeletedNodesSkippable(tx, l),
                    Then(check_current_node_versions(tx, v),
                    Then(ReferencedNodesSkippable(tx, v), AllHit(tx, "Node", m))))))
<1> SUFFICES ASSUME ~Throws PROVE DeleteStep("Node", m, skipped)
  OBVIOUS
<1>1. /\ Calling("delete", "Node")
      /\ error = OK
      /\ tx' = SaveHistory(DeleteTags(Hidden(tx, "Node", m), "Node", IdsOf(m)), "Node", IdsOf(m))
      /\ ct' = [ct EXCEPT !.skip_deleted["Node"] = skipped,
                          !.deleted["Node"] = @ \cup Mappings(Hidden(tx, "Node", m), "Node", m, IdsOf(m))]
      /\ Return("delete", "Node")
      /\ UNCHANGED <<create_placeholder_ids, packages, package, handlerVars>>
  BY DEF process_delete_nodes, Throws, Hidden, DeleteList, replace_old_ids_in_nodes,
         determine_already_deleted_nodes, delete_current_nodes, delete_current_node_tags,
         save_current_nodes_to_history
<1>2. /\ PlaceholdersKnown(ct.created, "Node", buffer["delete"]["Node"])
      /\ LockCurrent(tx, "Node", IdsOf(l)) = OK
      /\ CheckVersions(tx, "Node", v) = OK
      /\ AllHit(tx, "Node", m) = OK
  <2>1. /\ NodePlaceholdersFound(buffer["delete"]["Node"], ct.created) = OK
        /\ lock_current_nodes(tx, IdsOf(l)) = OK
        /\ check_current_node_versions(tx, v) = OK
        /\ AllHit(tx, "Node", m) = OK
    BY <1>1, AllOK
  <2>2. QED
    BY <2>1 DEF NodePlaceholdersFound, OK, bad_request, lock_current_nodes,
                check_current_node_versions
<1>3. "Node" \in Types
  BY DEF Types
<1> HIDE DEF l, absent, v, used, m, skipped, error
<1>4. v = Without(DeleteList("Node"), absent) /\ m = Without(v, used)
  BY DEF v, m, l
<1>5. /\ Part(m, DeleteList("Node")) /\ FitList(m, "Node") /\ Unique(m)
      /\ \A i \in DOMAIN m : /\ m[i].version = tx.current["Node"][m[i].id].version
                             /\ Exists(tx, "Node", m[i].id)
                             /\ m[i].id \in IdsOf(v) /\ m[i].id \notin used
  BY <1>2, <1>3, <1>4, LeftToDelete DEF l
<1>6. Sane(tx) /\ tx.members["Node"] = {}
  BY DEF UploadInv, TablesInv, Sane, Regular
<1>7. \A i \in DOMAIN m : \A p \in Types : \A x \in tx.members[p] :
        ~(x.type = "Node" /\ x.ref = m[i].id)
  BY <1>5, <1>6 DEF used, is_node_still_referenced, ReferencedBy, Types
<1>8. tx' = Deleted(tx, "Node", m)
  BY <1>1, <1>5, <1>6, NodesDeleted
<1>9. \A i \in DOMAIN m : \A x \in tx.members["Relation"] : ~(x.type = "Node" /\ x.ref = m[i].id)
  BY <1>7 DEF Types
<1>10. QED
  BY <1>1, <1>2, <1>5, <1>7, <1>8, <1>9 DEF DeleteStep

LEMMA DeleteWays ==
    ASSUME UploadInv, process_delete_ways, scenario' = scenario
    PROVE  Throws \/ \E m, skipped : DeleteStep("Way", m, skipped)
<1> DEFINE l == DeleteList("Way")
           absent == AlreadyDeleted(tx, "Way", l)
           v == Without(l, absent)
           used == is_way_still_referenced(tx, v)
           m == Without(v, used)
           skipped == AddSkipped(ct.skip_deleted["Way"],
                          Mappings(tx, "Way", l, absent) \cup Mappings(tx, "Way", v, used))
           error == Then(WayPlaceholdersFound(buffer["delete"]["Way"], ct.created),
                    Then(lock_current_ways(tx, IdsOf(l)),
                    Then(AlreadyDeletedWaysSkippable(tx, l),
                    Then(check_current_way_versions(tx, v),
                    Then(ReferencedWaysSkippable(tx, v), AllHit(tx, "Way", m))))))
<1> SUFFICES ASSUME ~Throws PROVE DeleteStep("Way", m, skipped)
  OBVIOUS
<1>1. /\ Calling("delete", "Way")
      /\ error = OK
      /\ tx' = Deleted(tx, "Way", m)
      /\ ct' = [ct EXCEPT !.skip_deleted["Way"] = skipped,
                          !.deleted["Way"] = @ \cup Mappings(Hidden(tx, "Way", m), "Way", m, IdsOf(m))]
      /\ Return("delete", "Way")
      /\ UNCHANGED <<create_placeholder_ids, packages, package, handlerVars>>
  BY DEF process_delete_ways, Throws, Hidden, Deleted, DeleteList, replace_old_ids_in_ways,
         determine_already_deleted_ways, update_current_ways, delete_current_way_tags,
         delete_current_way_nodes, save_current_ways_to_history
<1>2. /\ PlaceholdersKnown(ct.created, "Way", buffer["delete"]["Way"])
      /\ LockCurrent(tx, "Way", IdsOf(l)) = OK
      /\ CheckVersions(tx, "Way", v) = OK
      /\ AllHit(tx, "Way", m) = OK
  <2>1. /\ WayPlaceholdersFound(buffer["delete"]["Way"], ct.created) = OK
        /\ lock_current_ways(tx, IdsOf(l)) = OK
        /\ check_current_way_versions(tx, v) = OK
        /\ AllHit(tx, "Way", m) = OK
    BY <1>1, AllOK
  <2>2. QED
    BY <2>1 DEF WayPlaceholdersFound, OK, bad_request, lock_current_ways,
                check_current_way_versions
<1>3. "Way" \in Types
  BY DEF Types
<1> HIDE DEF l, absent, v, used, m, skipped, error
<1>4. v = Without(DeleteList("Way"), absent) /\ m = Without(v, used)
  BY DEF v, m, l
<1>5. /\ Part(m, DeleteList("Way")) /\ Unique(m)
      /\ \A i \in DOMAIN m : /\ m[i].version = tx.current["Way"][m[i].id].version
                             /\ Exists(tx, "Way", m[i].id)
                             /\ m[i].id \in IdsOf(v) /\ m[i].id \notin used
  BY <1>2, <1>3, <1>4, LeftToDelete DEF l
<1>6. tx.members["Node"] = {} /\ \A x \in tx.members["Way"] : x.type = "Node"
  BY DEF UploadInv, TablesInv, Sane, Regular
<1>7. \A i \in DOMAIN m : \A p \in Types : \A x \in tx.members[p] :
        ~(x.type = "Way" /\ x.ref = m[i].id)
  BY <1>5, <1>6 DEF used, is_way_still_referenced, ReferencedBy, Types
<1>8. \A i \in DOMAIN m : \A x \in tx.members["Relation"] : ~(x.type = "Way" /\ x.ref = m[i].id)
  BY <1>7 DEF Types
<1>9. QED
  BY <1>1, <1>2, <1>5, <1>7, <1>8 DEF DeleteStep

LEMMA DeletedKinds ==
    ASSUME UploadInv, UnmixedDeletes, "Relation" \in Types,
           PlaceholdersKnown(ct.created, "Relation", buffer["delete"]["Relation"])
    PROVE  /\ Listed(DeleteList("Relation"))
           /\ \A i, j \in DOMAIN DeleteList("Relation") :
                DeleteList("Relation")[i].if_unused = DeleteList("Relation")[j].if_unused
<1> DEFINE raw == buffer["delete"]["Relation"]
<1>1. ct.created \in [Types -> SUBSET Mapping] /\ raw \in Seq(Fitting("delete", "Relation"))
  BY DEF UploadInv, PlaceholderInv, BufferInv, Ops
<1>2. \A i, j \in DOMAIN raw : raw[i].if_unused = raw[j].if_unused
  BY DEF UnmixedDeletes
<1>3. PlaceholdersKnown(ct.created, "Relation", raw)
  OBVIOUS
<1> HIDE DEF raw
<1>4. DOMAIN raw \subseteq Nat /\ \A i \in DOMAIN raw : raw[i] \in Element
  BY <1>1, FittingTyped
<1> DEFINE l == ResolveAll(ct.created, "Relation", raw)
<1>5. Listed(l) /\ DOMAIN l = DOMAIN raw /\ \A i \in DOMAIN raw : l[i].if_unused = raw[i].if_unused
  BY <1>1, <1>3, <1>4, ResolvedList
<1> HIDE DEF l
<1>6. Listed(l) /\ \A i, j \in DOMAIN l : l[i].if_unused = l[j].if_unused
  BY <1>2, <1>5
<1>7. QED
  BY <1>6 DEF l, raw, DeleteList

\* When the relations to delete are all of one kind, nothing that stays refers
\* to a relation that goes: the set of the blocked ones is closed under "is a
\* member of" (extend_deletion_block_to_relation_children).
LEMMA NothingLeftRefers ==
    ASSUME NEW tb, Sane(tb), NEW v, Listed(v),
           \A i, j \in DOMAIN v : v[i].if_unused = v[j].if_unused,
           ReferencedRelationsSkippable(tb, v) = OK,
           NEW m, m = Without(v, is_relation_still_referenced(tb, v)),
           NEW i \in DOMAIN m, NEW x \in tb.members["Relation"], x.type = "Relation", x.ref = m[i].id
    PROVE  x.id \in IdsOf(m)
<1> DEFINE ids == IdsOf(v)
           direct == relation_still_referenced_by_relation(tb, ids)
           used == is_relation_still_referenced(tb, v)
           below == collect_recursive_relation_rel_member_ids(tb, direct)
<1> SUFFICES ASSUME x.id \notin IdsOf(m) PROVE FALSE
  OBVIOUS
<1>1. i \in DOMAIN v /\ m[i] = v[i] /\ x.ref = v[i].id /\ x.ref \in ids /\ x.ref \notin used
  BY WithoutIsPart DEF Part, IdsOf
<1>2. "Relation" \in Types /\ x.id \in Ids /\ x.ref \in Ids
  <2>1. tb.members["Relation"] \subseteq MemberRow
    BY TablesFields DEF Sane, Types
  <2>2. QED
    BY <2>1 DEF MemberRow, Types
<1>3. Visible(tb, "Relation", x.id)
  <2>1. HistoryMatches(tb, "Relation", x.id)
    BY <1>2 DEF Sane
  <2>2. CurrentMembers(tb, "Relation", x.id) # {}
    BY DEF CurrentMembers
  <2>3. QED
    BY <2>1, <2>2 DEF HistoryMatches, Visible
<1>4. direct \cap ids_without_if_unused(v) = {}
  BY DEF ReferencedRelationsSkippable, OK, precondition_failed
<1>5. used = (direct \cap ids_if_unused(v))
                \cup extend_deletion_block_to_relation_children(tb, direct, ids_if_unused(v))
  BY DEF is_relation_still_referenced
<1>6. v[i].if_unused => x.ref \in ids_if_unused(v)
  BY <1>1 DEF ids_if_unused
<1>7. ~v[i].if_unused => x.ref \in ids_without_if_unused(v)
  BY <1>1 DEF ids_without_if_unused
<1>8. CASE x.id \notin ids
  <2>1. x.ref \in direct
    BY <1>1, <1>3, <1>8 DEF relation_still_referenced_by_relation
  <2> HIDE DEF direct, used
  <2>2. QED
    BY <2>1, <1>1, <1>4, <1>5, <1>6, <1>7
<1>9. CASE x.id \in ids
  <2>1. PICK j \in DOMAIN v : v[j].id = x.id
    BY <1>9 DEF IdsOf
  <2>2. x.id \in used
    <3>1. x.id \notin used => j \in DOMAIN m /\ m[j] = v[j]
      BY <2>1, WithoutIsPart DEF Part
    <3>2. QED
      BY <2>1, <3>1 DEF IdsOf
  <2>3. direct # {} /\ ids_if_unused(v) # {} /\ (x.id \in direct \/ x.id \in below)
    <3> HIDE DEF direct, used
    <3>1. QED
      BY <2>2, <1>5 DEF extend_deletion_block_to_relation_children
  <2>4. v[i].if_unused
    BY <2>3, <1>1 DEF ids_if_unused
  <2>5. x.ref \in below
    <3> DEFINE Children(s) == MemberRefs(tb, "Relation", s, "Relation")
    <3> HIDE DEF direct
    <3>1. \A s : x.id \in s => x.ref \in Children(s)
      BY DEF MemberRefs
    <3>2. SUFFICES ASSUME NEW s \in SUBSET Ids, Children(direct) \cup Children(s) \subseteq s
                   PROVE  x.ref \in s
      BY <1>2 DEF collect_recursive_relation_rel_member_ids
    <3>3. x.id \in direct \/ x.id \in s
      BY <2>3, <3>2 DEF collect_recursive_relation_rel_member_ids
    <3>4. QED
      BY <3>1, <3>2, <3>3
  <2> HIDE DEF direct, used, below
  <2>6. x.ref \in used
    BY <2>3, <2>4, <2>5, <1>5, <1>6 DEF extend_deletion_block_to_relation_children, below
  <2>7. QED
    BY <2>6, <1>1
<1>10. QED
  BY <1>8, <1>9

LEMMA DeleteRelations ==
    ASSUME UploadInv, process_delete_relations, scenario' = scenario
    PROVE  Throws \/ \E m, skipped : DeleteStep("Relation", m, skipped)
<1> DEFINE l == DeleteList("Relation")
           absent == AlreadyDeleted(tx, "Relation", l)
           v == Without(l, absent)
           used == is_relation_still_referenced(tx, v)
           m == Without(v, used)
           skipped == AddSkipped(ct.skip_deleted["Relation"],
                          Mappings(tx, "Relation", l, absent) \cup Mappings(tx, "Relation", v, used))
           error == Then(RelationPlaceholdersFound(buffer["delete"]["Relation"], ct.created),
                    Then(lock_current_relations(tx, IdsOf(l)),
                    Then(AlreadyDeletedRelationsSkippable(tx, l),
                    Then(check_current_relation_versions(tx, v),
                    Then(ReferencedRelationsSkippable(tx, v), AllHit(tx, "Relation", m))))))
<1> SUFFICES ASSUME ~Throws PROVE DeleteStep("Relation", m, skipped)
  OBVIOUS
<1>1. /\ Calling("delete", "Relation")
      /\ error = OK
      /\ tx' = Deleted(tx, "Relation", m)
      /\ ct' = [ct EXCEPT !.skip_deleted["Relation"] = skipped,
                          !.deleted["Relation"] = @ \cup
                              Mappings(Hidden(tx, "Relation", m), "Relation", m, IdsOf(m))]
      /\ Return("delete", "Relation")
      /\ UNCHANGED <<create_placeholder_ids, packages, package, handlerVars>>
  BY DEF process_delete_relations, Throws, Hidden, Deleted, DeleteList,
         replace_old_ids_in_relations, determine_already_deleted_relations,
         update_current_relations, delete_current_relation_tags,
         remove_blocked_relations_from_deletion_list,
         delete_current_relation_members, save_current_relations_to_history
<1>2. /\ PlaceholdersKnown(ct.created, "Relation", buffer["delete"]["Relation"])
      /\ LockCurrent(tx, "Relation", IdsOf(l)) = OK
      /\ CheckVersions(tx, "Relation", v) = OK
      /\ ReferencedRelationsSkippable(tx, v) = OK
      /\ AllHit(tx, "Relation", m) = OK
  <2>1. /\ RelationPlaceholdersFound(buffer["delete"]["Relation"], ct.created) = OK
        /\ lock_current_relations(tx, IdsOf(l)) = OK
        /\ check_current_relation_versions(tx, v) = OK
        /\ ReferencedRelationsSkippable(tx, v) = OK
        /\ AllHit(tx, "Relation", m) = OK
    BY <1>1, AllOK
  <2>2. QED
    BY <2>1 DEF RelationPlaceholdersFound, OK, bad_request, lock_current_relations,
                check_current_relation_versions
<1>3. "Relation" \in Types
  BY DEF Types
<1> HIDE DEF l, absent, v, used, m, skipped, error
<1>4. v = Without(DeleteList("Relation"), absent) /\ m = Without(v, used)
  BY DEF v, m, l
<1>5. /\ Part(m, DeleteList("Relation")) /\ Unique(m)
      /\ \A i \in DOMAIN m : /\ m[i].version = tx.current["Relation"][m[i].id].version
                             /\ Exists(tx, "Relation", m[i].id)
                             /\ m[i].id \in IdsOf(v) /\ m[i].id \notin used
  BY <1>2, <1>3, <1>4, LeftToDelete DEF l
<1>6. ASSUME UnmixedDeletes, NEW i \in DOMAIN m, NEW x \in tx.members["Relation"],
             x.type = "Relation", x.ref = m[i].id
      PROVE  x.id \in IdsOf(m)
  <2>1. /\ Listed(l)
        /\ \A j, k \in DOMAIN l : l[j].if_unused = l[k].if_unused
    BY <1>2, <1>3, <1>6, DeletedKinds DEF l
  <2>2. Part(v, l)
    BY <1>4, WithoutIsPart DEF l
  <2>3. Listed(v) /\ \A j, k \in DOMAIN v : v[j].if_unused = v[k].if_unused
    BY <2>1, <2>2 DEF Listed, Part
  <2>4. Sane(tx) /\ m = Without(v, is_relation_still_referenced(tx, v))
    BY <1>4 DEF UploadInv, TablesInv, used
  <2>5. QED
    BY <1>2, <1>6, <2>3, <2>4, NothingLeftRefers
<1>7. QED
  BY <1>1, <1>2, <1>5, <1>6 DEF DeleteStep

-----------------------------------------------------------------------------
(* The parser and the handler. *)

\* What an updater buffers fits the type and the operation.
LEMMA BufferedFits ==
    ASSUME NEW e \in Element, IsPlaceholder(e),
           e.type = "Way" => \A k \in DOMAIN e.members : e.members[k].type = "Node"
    PROVE  Buffered(e) \in Fitting(e.op, e.type) /\ Buffered(e) \in Element
<1> DEFINE S == Seq([type: Types, ref: Ids \cup Placeholders])
           E == [op: Ops, type: Types, old_id: Ids \cup Placeholders, id: Ids \cup {0},
                 version: Nat, loc: Coord, tags: SUBSET Tags, members: S,
                 if_unused: BOOLEAN, same_changeset: BOOLEAN]
           f == Buffered(e)
<1>1. Element = E
  BY DEF Element
<1>2. <<>> \in S /\ DOMAIN <<>> = {}
  OBVIOUS
<1>3. 0 \in Coord /\ 1 \in Nat /\ {} \in SUBSET Tags /\ FALSE \in BOOLEAN
  BY DEF Coord
<1>4. e \in E
  BY <1>1
<1> HIDE DEF S
<1>5. /\ e.op = "create" \/ e.op = "modify" \/ e.op = "delete"
      /\ e.type = "Node" \/ e.type = "Way" \/ e.type = "Relation"
  BY <1>4 DEF Ops, Types
<1>6. f \in E /\ Fits(f, e.op, e.type)
  <2>1. CASE e.op = "create"
    <3>1. e.old_id < 0
      BY <2>1 DEF IsPlaceholder
    <3>2. QED
      BY <1>2, <1>3, <1>4, <1>5, <2>1, <3>1 DEF Buffered, Fits, add_node, add_way, add_relation
  <2>2. CASE e.op = "modify"
    BY <1>2, <1>3, <1>4, <1>5, <2>2 DEF Buffered, Fits, modify_node, modify_way, modify_relation
  <2>3. CASE e.op = "delete"
    BY <1>2, <1>3, <1>4, <1>5, <2>3 DEF Buffered, Fits, delete_node, delete_way, delete_relation
  <2>4. QED
    BY <1>5, <2>1, <2>2, <2>3
<1>7. QED
  BY <1>1, <1>6 DEF Fitting

\* The calls that empty the buffers of a state.
LEMMA FlushCalls ==
    ASSUME NEW s \in States
    PROVE  /\ flush_calls(s) \in Seq(Call)
           /\ \A j \in DOMAIN flush_calls(s) : flush_calls(s)[j].op # "package"
<1> DEFINE C == Call
<1>1. \A o \in Ops, t \in Types : Flush(o, t) \in C /\ Flush(o, t).op # "package"
  BY DEF Flush, Call, Ops
<1>2. /\ "create" \in Ops /\ "modify" \in Ops /\ "delete" \in Ops
      /\ "Node" \in Types /\ "Way" \in Types /\ "Relation" \in Types
  BY DEF Ops, Types
<1> HIDE DEF C
<1>3. \A o \in Ops, t \in Types :
        /\ <<Flush(o, t)>> \in Seq(C)
        /\ \A j \in DOMAIN <<Flush(o, t)>> : <<Flush(o, t)>>[j].op # "package"
  BY <1>1
<1>4. LET m == <<Flush("modify", "Node"), Flush("modify", "Way"), Flush("modify", "Relation")>>
      IN  m \in Seq(C) /\ \A j \in DOMAIN m : m[j].op # "package"
  BY <1>1, <1>2
<1>5. <<>> \in Seq(C) /\ DOMAIN <<>> = {}
  OBVIOUS
<1>6. /\ flush_calls(s) \in Seq(C)
      /\ \A j \in DOMAIN flush_calls(s) : flush_calls(s)[j].op # "package"
  BY <1>2, <1>3, <1>4, <1>5 DEF flush_calls, States
<1>7. QED
  BY <1>6 DEF C

LEMMA NewStates ==
    ASSUME NEW e, e = EndOfDocument \/ e \in Element
    PROVE  NewState(e) \in States
<1>1. CASE e = EndOfDocument
  BY <1>1 DEF NewState, States
<1>2. CASE e # EndOfDocument
  <2>1. e.op \in Ops /\ e.type \in Types
    <3> DEFINE S == Seq([type: Types, ref: Ids \cup Placeholders])
    <3>1. e \in [op: Ops, type: Types, old_id: Ids \cup Placeholders, id: Ids \cup {0},
                 version: Nat, loc: Coord, tags: SUBSET Tags, members: S,
                 if_unused: BOOLEAN, same_changeset: BOOLEAN]
      BY <1>2 DEF Element
    <3> HIDE DEF S
    <3>2. QED
      BY <3>1
  <2>2. QED
    BY <1>2, <2>1 DEF NewState, States, Ops, Types, process_node, process_way, process_relation
<1>3. QED
  BY <1>1, <1>2

LEMMA NewStateKeeps ==
    ASSUME UploadInv, current_state \in States, scenario' = scenario,
           NEW e, handle_new_state(e),
           e = EndOfDocument \/ (e \in scenario.elements /\ IsPlaceholder(e) /\ HasId(e))
    PROVE  UploadInv'
<1>1. /\ db' = db /\ tx' = tx /\ ct' = ct /\ buffer' = buffer /\ pending' = e
      /\ create_placeholder_ids' = create_placeholder_ids /\ packages' = packages
      /\ todo' = <<>> \/ todo' = flush_calls(current_state)
  BY DEF handle_new_state
<1>2. TablesInv' /\ BufferInv' /\ PlaceholderInv'
  BY <1>1 DEF UploadInv, TablesInv, BufferInv, PlaceholderInv
<1>3. PendingInv'
  BY <1>1 DEF UploadInv, PendingInv, IsPlaceholder
<1>4. RoomInv'
  <2>1. \A t \in Types : Room(t)' = Room(t)
    BY <1>1 DEF Room
  <2>2. \A t \in Types : e # EndOfDocument /\ e.op = "create" /\ e.type = t => Room(t) < MaxId
    BY DEF HasId, Room
  <2>3. QED
    BY <1>1, <2>1, <2>2 DEF UploadInv, RoomInv
<1>5. PackageInv'
  <2>1. <<>> \in Seq(Call) /\ DOMAIN <<>> = {}
    OBVIOUS
  <2>2. /\ todo' \in Seq(Call)
        /\ \A j \in DOMAIN todo' : todo'[j].op # "package"
    BY <1>1, <2>1, FlushCalls
  <2>3. QED
    BY <2>2 DEF PackageInv
<1>6. QED
  BY <1>2, <1>3, <1>4, <1>5 DEF UploadInv

LEMMA AppendTyped ==
    ASSUME NEW S, NEW s \in Seq(S), NEW x \in S
    PROVE  Append(s, x) \in Seq(S) /\ Len(Append(s, x)) = Len(s) + 1
  OBVIOUS

\* The element is put in its buffer.
LEMMA TransitionKeeps ==
    ASSUME UploadInv, complete_transition, scenario' = scenario
    PROVE  UploadInv' /\ current_state' \in States
<1>0. todo = <<>> /\ phase = "flushing"
  BY DEF complete_transition
<1>1. CASE pending = EndOfDocument
  <2>1. /\ db' = db /\ tx' = tx /\ ct' = ct /\ buffer' = buffer /\ pending' = pending
        /\ create_placeholder_ids' = create_placeholder_ids /\ packages' = packages
        /\ todo' = todo /\ current_state' = NewState(pending)
    BY <1>1 DEF complete_transition
  <2>2. \A t \in Types : Room(t)' = Room(t)
    BY <2>1 DEF Room
  <2>3. TablesInv' /\ BufferInv' /\ PlaceholderInv'
    BY <2>1 DEF UploadInv, TablesInv, BufferInv, PlaceholderInv
  <2>4. PendingInv' /\ PackageInv'
    BY <2>1, <1>0, <1>1 DEF UploadInv, PendingInv, PackageInv
  <2>5. RoomInv'
    BY <1>1, <2>1, <2>2 DEF UploadInv, RoomInv
  <2>6. QED
    BY <1>1, <2>1, <2>3, <2>4, <2>5, NewStates DEF UploadInv
<1>2. CASE pending # EndOfDocument
  <2> DEFINE e == pending
             f == Buffered(e)
             E == Element
             F(o, u) == Fitting(o, u)
  <2>1. /\ db' = db /\ tx' = tx /\ pending' = pending /\ phase' = "reading"
        /\ create_placeholder_ids' = create_placeholder_ids /\ packages' = packages
        /\ todo' = todo /\ current_state' = NewState(pending)
        /\ buffer' = [buffer EXCEPT ![e.op][e.type] = Append(@, f)]
        /\ ct' = [ct EXCEPT !.orig_sequence = Append(@, f)]
    BY <1>2 DEF complete_transition
  <2>2. /\ e \in Element /\ IsPlaceholder(e) /\ e.op \in Ops /\ e.type \in Types
        /\ e.type = "Way" => \A k \in DOMAIN e.members : e.members[k].type = "Node"
    <3>1. e \in scenario.elements /\ scenario \in Scenarios /\ IsPlaceholder(e)
      BY <1>2 DEF UploadInv, PendingInv
    <3>2. /\ e \in Element
          /\ e.type = "Way" => \A k \in DOMAIN e.members : e.members[k].type = "Node"
      BY <3>1, ScenariosAssumption
    <3> DEFINE S == Seq([type: Types, ref: Ids \cup Placeholders])
    <3>3. e \in [op: Ops, type: Types, old_id: Ids \cup Placeholders, id: Ids \cup {0},
                 version: Nat, loc: Coord, tags: SUBSET Tags, members: S,
                 if_unused: BOOLEAN, same_changeset: BOOLEAN]
      BY <3>2 DEF Element
    <3> HIDE DEF S
    <3>4. e.op \in Ops /\ e.type \in Types
      BY <3>3
    <3>5. QED
      BY <3>1, <3>2, <3>4
  <2>3. f \in Fitting(e.op, e.type) /\ f \in Element
    BY <2>2, BufferedFits
  <2>4. /\ buffer \in [Ops -> [Types -> Seq(E)]] /\ f \in E /\ f \in F(e.op, e.type)
        /\ \A o \in Ops, u \in Types : buffer[o][u] \in Seq(F(o, u))
        /\ \A u \in Types : Room(u) <= MaxId /\ (e.op = "create" /\ e.type = u => Room(u) < MaxId)
    BY <2>3, <1>0, <1>2 DEF UploadInv, BufferInv, RoomInv
  <2>5. TablesInv' /\ PlaceholderInv' /\ PendingInv' /\ PackageInv'
    <3>1. /\ TrackingFields \subseteq DOMAIN ct' /\ ct'.created = ct.created
      BY <2>1 DEF UploadInv, PlaceholderInv, TrackingFields
    <3>2. TablesInv' /\ PlaceholderInv'
      BY <2>1, <3>1 DEF UploadInv, TablesInv, PlaceholderInv
    <3>3. PendingInv' /\ PackageInv'
      BY <2>1, <1>0 DEF UploadInv, PendingInv, PackageInv, IsPlaceholder
    <3>4. QED
      BY <3>2, <3>3
  <2>6. current_state' \in States
    BY <2>1, <2>2, NewStates
  <2> HIDE DEF E, F, f, e
  <2>7. Append(buffer[e.op][e.type], f) \in Seq(E)
        /\ Append(buffer[e.op][e.type], f) \in Seq(F(e.op, e.type))
        /\ Len(Append(buffer[e.op][e.type], f)) = Len(buffer[e.op][e.type]) + 1
    BY <2>2, <2>4, AppendTyped
  <2> DEFINE SE == Seq(E)
             SF(o, u) == Seq(F(o, u))
             new == Append(buffer[e.op][e.type], f)
  <2>8. /\ buffer \in [Ops -> [Types -> SE]] /\ new \in SE /\ new \in SF(e.op, e.type)
        /\ \A o \in Ops, u \in Types : buffer[o][u] \in SF(o, u)
        /\ buffer' = [buffer EXCEPT ![e.op][e.type] = new]
    <3>1. buffer \in [Ops -> [Types -> SE]]
      BY <2>4
    <3>2. buffer' = [buffer EXCEPT ![e.op][e.type] = new]
      BY <3>1, <2>1, <2>2
    <3>3. QED
      BY <2>4, <2>7, <3>1, <3>2
  <2> HIDE DEF SE, SF, new
  <2>9. /\ buffer' \in [Ops -> [Types -> SE]]
        /\ \A o \in Ops, u \in Types : buffer'[o][u] =
              IF o = e.op /\ u = e.type THEN new ELSE buffer[o][u]
    BY <2>2, <2>8
  <2>10. \A o \in Ops, u \in Types : buffer'[o][u] \in SF(o, u)
    <3> SUFFICES ASSUME NEW o \in Ops, NEW u \in Types PROVE buffer'[o][u] \in SF(o, u)
      OBVIOUS
    <3>1. CASE o = e.op /\ u = e.type
      BY <3>1, <2>8, <2>9
    <3>2. CASE ~(o = e.op /\ u = e.type)
      BY <3>2, <2>8, <2>9
    <3>3. QED
      BY <3>1, <3>2
  <2>11. BufferInv'
    BY <2>9, <2>10 DEF BufferInv, SE, SF, E, F
  <2>12. RoomInv'
    <3> SUFFICES ASSUME NEW u \in Types PROVE Room(u)' <= MaxId
      BY <2>1 DEF RoomInv
    <3>1. Len(new) = Len(buffer[e.op][e.type]) + 1
      BY <2>7 DEF new
    <3>2. tx'.id_seq[u] = tx.id_seq[u] /\ "create" \in Ops
      BY <2>1 DEF Ops
    <3>3. tx.id_seq[u] \in Nat /\ MaxId \in Nat
      <4>1. tx \in Tables
        BY DEF UploadInv, TablesInv, Sane
      <4>2. tx.id_seq[u] \in 0..MaxId
        BY <4>1, TablesFields
      <4>3. QED
        BY <4>2, MaxIdAssumption
    <3>4. CASE e.op = "create" /\ e.type = u
      <4>1. Room(u) < MaxId /\ buffer'["create"][u] = new
        BY <3>2, <3>4, <2>4, <2>9
      <4>2. buffer["create"][u] \in SE
        BY <3>2, <2>8
      <4>3. Len(buffer["create"][u]) \in Nat
        BY <4>2 DEF SE
      <4>4. QED
        BY <4>1, <4>3, <3>1, <3>2, <3>3, <3>4 DEF Room
    <3>5. CASE ~(e.op = "create" /\ e.type = u)
      <4>1. Room(u) <= MaxId /\ buffer'["create"][u] = buffer["create"][u]
        BY <3>2, <3>5, <2>4, <2>9
      <4>2. QED
        BY <4>1, <3>2 DEF Room
    <3>6. QED
      BY <3>4, <3>5
  <2>13. QED
    BY <2>5, <2>6, <2>11, <2>12 DEF UploadInv
<1>3. QED
  BY <1>1, <1>2

-----------------------------------------------------------------------------
(* The invariant. *)

LEMMA ThrowsKeep ==
    ASSUME UploadInv, Throws, scenario' = scenario
    PROVE  UploadInv' /\ current_state' \in States /\ db' = db
<1>1. PICK code : Throw(code)
  BY DEF Throws
<1>2. UploadInv'
  BY <1>1, ThrowKeeps
<1>3. QED
  BY <1>1, <1>2 DEF Throw, FreshSession, States

\* One of the process_* functions, whatever it does.
LEMMA ProcessSteps ==
    ASSUME UploadInv, Process, scenario' = scenario
    PROVE  \/ Throws
           \/ \E t \in Types : \/ CreateStep(t) \/ ModifyStep(t) \/ PackageStep(t) \/ LoopEnd(t)
                               \/ \E m, skipped : DeleteStep(t, m, skipped)
<1>0. "Node" \in Types /\ "Way" \in Types /\ "Relation" \in Types
  BY DEF Types
<1>1. CASE process_new_nodes \/ process_new_ways \/ process_new_relations
  BY <1>1, <1>0, NewNodes, NewWays, NewRelations
<1>2. CASE process_modify_nodes \/ process_modify_ways \/ process_modify_relations
  BY <1>2, <1>0, ModifyNodes, ModifyWays, ModifyRelations
<1>3. CASE \/ process_modify_nodes_package \/ process_modify_ways_package
           \/ process_modify_relations_package
  BY <1>3, <1>0, NodePackage, WayPackage, RelationPackage
<1>4. CASE process_delete_nodes \/ process_delete_ways \/ process_delete_relations
  BY <1>4, <1>0, DeleteNodes, DeleteWays, DeleteRelations
<1>5. QED
  BY <1>1, <1>2, <1>3, <1>4 DEF Process

LEMMA ProcessKeeps ==
    ASSUME UploadInv, Process, scenario' = scenario, current_state \in States
    PROVE  UploadInv' /\ current_state' \in States /\ db' = db
<1>1. \/ Throws
      \/ \E t \in Types : \/ CreateStep(t) \/ ModifyStep(t) \/ PackageStep(t) \/ LoopEnd(t)
                          \/ \E m, skipped : DeleteStep(t, m, skipped)
  BY ProcessSteps
<1>2. CASE Throws
  BY <1>2, ThrowsKeep
<1>3. ASSUME NEW t \in Types, CreateStep(t) PROVE UploadInv' /\ UNCHANGED handlerVars
  BY <1>3, CreateStepKeeps DEF CreateStep
<1>4. ASSUME NEW t \in Types, ModifyStep(t) PROVE UploadInv' /\ UNCHANGED handlerVars
  BY <1>4, ModifyStepKeeps DEF ModifyStep
<1>5. ASSUME NEW t \in Types, PackageStep(t) PROVE UploadInv' /\ UNCHANGED handlerVars
  BY <1>5, PackageStepKeeps DEF PackageStep
<1>6. ASSUME NEW t \in Types, LoopEnd(t) PROVE UploadInv' /\ UNCHANGED handlerVars
  BY <1>6, LoopEndKeeps DEF LoopEnd
<1>7. ASSUME NEW t \in Types, NEW m, NEW skipped, DeleteStep(t, m, skipped)
      PROVE  UploadInv' /\ UNCHANGED handlerVars
  BY <1>7, DeleteStepKeeps DEF DeleteStep
<1>8. CASE ~Throws
  <2>1. UploadInv' /\ UNCHANGED handlerVars
    BY <1>1, <1>3, <1>4, <1>5, <1>6, <1>7, <1>8
  <2>2. QED
    BY <2>1 DEF handlerVars
<1>9. QED
  BY <1>2, <1>8

\* What is committed is what the transaction saw, or stays as it is.
CommitOnly ==
    \/ db' = db
    \/ db' = tx /\ response'.code = OK

LEMMA StepKeeps ==
    ASSUME UploadInv, current_state \in States, [Next]_upload_vars
    PROVE  UploadInv' /\ current_state' \in States /\ CommitOnly
<1>1. ASSUME NEW e \in scenario.elements, process_element(e), scenario' = scenario
      PROVE  UploadInv' /\ current_state' \in States /\ CommitOnly
  <2>1. CASE Then(is_valid(e), check_osm_object(e)) # OK
    <3>1. Throws
      BY <1>1, <2>1 DEF process_element, Throws
    <3>2. QED
      BY <1>1, <3>1, ThrowsKeep DEF CommitOnly
  <2>2. CASE Then(is_valid(e), check_osm_object(e)) = OK
    <3>1. handle_new_state(e) /\ HasId(e)
      BY <1>1, <2>2 DEF process_element
    <3>2. IsPlaceholder(e)
      <4>1. is_valid(e) = OK
        BY <2>2, AllOK
      <4>2. (IF IsPlaceholder(e) THEN OK ELSE bad_request) = OK
        BY <4>1, AllOK DEF is_valid
      <4>3. QED
        BY <4>2 DEF OK, bad_request
    <3>3. UploadInv'
      BY <1>1, <3>1, <3>2, NewStateKeeps
    <3>4. QED
      BY <3>1, <3>3 DEF handle_new_state, CommitOnly
  <2>3. QED
    BY <2>1, <2>2
<1>2. CASE end_document /\ scenario' = scenario
  <2>1. handle_new_state(EndOfDocument)
    BY <1>2 DEF end_document
  <2>2. UploadInv'
    BY <1>2, <2>1, NewStateKeeps
  <2>3. QED
    BY <2>1, <2>2 DEF handle_new_state, CommitOnly
<1>3. CASE complete_transition /\ scenario' = scenario
  BY <1>3, TransitionKeeps DEF complete_transition, CommitOnly
<1>4. CASE Process /\ scenario' = scenario
  BY <1>4, ProcessKeeps DEF CommitOnly
<1>5. CASE finish_upload /\ scenario' = scenario
  <2>1. CASE Throws
    BY <1>5, <2>1, ThrowsKeep DEF CommitOnly
  <2>2. CASE ~Throws
    <3>1. /\ db' = tx /\ tx' = tx /\ FreshSession /\ response'.code = OK
      BY <1>5, <2>2 DEF finish_upload, Throws
    <3>2. Sane(db') /\ tx' = db' /\ scenario' \in Scenarios
      BY <3>1, <1>5 DEF UploadInv, TablesInv, PendingInv
    <3>3. UploadInv'
      BY <3>1, <3>2, FreshKeeps
    <3>4. QED
      BY <3>1, <3>3 DEF FreshSession, States, CommitOnly
  <2>3. QED
    BY <2>1, <2>2
<1>6. CASE begin_upload /\ scenario' = scenario
  <2>1. /\ db' = db /\ tx' = tx /\ ct' = ct /\ buffer' = buffer /\ pending' = pending
        /\ create_placeholder_ids' = create_placeholder_ids /\ packages' = packages
        /\ todo' = todo /\ current_state' = current_state
        /\ phase' = phase \/ phase' = "reading"
    BY <1>6 DEF begin_upload
  <2>2. \A t \in Types : Room(t)' = Room(t)
    BY <2>1 DEF Room
  <2>3. TablesInv' /\ BufferInv' /\ PlaceholderInv'
    BY <2>1 DEF UploadInv, TablesInv, BufferInv, PlaceholderInv
  <2>4. PendingInv' /\ PackageInv'
    BY <1>6, <2>1 DEF UploadInv, PendingInv, PackageInv, IsPlaceholder
  <2>5. RoomInv'
    BY <2>1, <2>2 DEF UploadInv, RoomInv
  <2>6. QED
    BY <2>1, <2>3, <2>4, <2>5 DEF UploadInv, CommitOnly
<1>7. CASE (parse_error \/ upload_fails) /\ scenario' = scenario
  <2>1. Throws
    BY <1>7 DEF parse_error, upload_fails, Throws
  <2>2. QED
    BY <1>7, <2>1, ThrowsKeep DEF CommitOnly
<1>8. CASE UNCHANGED <<vars, scenario>>
  <2>1. /\ db' = db /\ tx' = tx /\ ct' = ct /\ buffer' = buffer /\ pending' = pending
        /\ create_placeholder_ids' = create_placeholder_ids /\ packages' = packages
        /\ todo' = todo /\ current_state' = current_state /\ phase' = phase
        /\ scenario' = scenario
    BY <1>8 DEF vars, sessionVars
  <2>2. \A t \in Types : Room(t)' = Room(t)
    BY <2>1 DEF Room
  <2>3. TablesInv' /\ BufferInv' /\ PlaceholderInv'
    BY <2>1 DEF UploadInv, TablesInv, BufferInv, PlaceholderInv
  <2>4. PendingInv' /\ PackageInv'
    BY <2>1 DEF UploadInv, PendingInv, PackageInv, IsPlaceholder
  <2>5. RoomInv'
    BY <2>1, <2>2 DEF UploadInv, RoomInv
  <2>6. QED
    BY <2>1, <2>3, <2>4, <2>5 DEF UploadInv, CommitOnly
<1>9. QED
  BY <1>1, <1>2, <1>3, <1>4, <1>5, <1>6, <1>7, <1>8
     DEF Next, Serve, no_more_requests, upload_vars

\* The tables, committed and working, are in order in every state, and the
\* objects of the session are what the updaters rely on.
THEOREM UploadInvariant == Spec => [](UploadInv /\ current_state \in States)
<1>1. Init => UploadInv /\ current_state \in States
  BY InitKeeps DEF Init, States
<1>2. (UploadInv /\ current_state \in States) /\ [Next]_upload_vars
        => (UploadInv /\ current_state \in States)'
  BY StepKeeps
<1>3. QED
  BY <1>1, <1>2, PTL DEF Spec

\* MembersVisible, for every database, every document and any number of
\* uploads: the nodes of every committed way, and the node and way members of
\* every committed relation, are visible (lock_future_nodes and
\* lock_future_members before a write, is_node_still_referenced and
\* is_way_still_referenced before a delete).
THEOREM MembersAlwaysVisible == Spec => []MembersVisible
<1>1. UploadInv => MembersVisible
  BY DEF UploadInv, TablesInv, Sane, MembersVisible
<1>2. QED
  BY <1>1, UploadInvariant, PTL

\* HistoryComplete, for every database, every document and any number of
\* uploads: each version up to the current one is in the history once, the
\* last one with the current tags and members (the save_current_*_to_history
\* calls of the updaters miss nothing and repeat nothing, also when an
\* element is written several times in one upload).
THEOREM HistoryAlwaysComplete == Spec => []HistoryComplete
<1>1. UploadInv => HistoryComplete
  BY DEF UploadInv, TablesInv, Sane, HistoryComplete
<1>2. QED
  BY <1>1, UploadInvariant, PTL

\* HistoryAppendOnly: a step of an upload, failed ones and the commit
\* included, leaves every committed row of the history, adds only versions
\* newer than the committed ones, and changes the committed tables only with
\* a response of 200 (changeset_upload_responder commits last).
THEOREM HistoryAlwaysAppendOnly == Spec => HistoryAppendOnly
<1> DEFINE A == /\ db' # db => response'.code = OK
                /\ \A t \in Types :
                     /\ db.history[t] \subseteq db'.history[t]
                     /\ db.history_tags[t] \subseteq db'.history_tags[t]
                     /\ db.history_members[t] \subseteq db'.history_members[t]
                     /\ \A h \in Written(t) : h.version > db.current[t][h.id].version
                     /\ \A r \in db'.history_tags[t] \ db.history_tags[t] :
                            r.version > db.current[t][r.id].version
<1>1. (UploadInv /\ current_state \in States) /\ [Next]_upload_vars => A
  <2> SUFFICES ASSUME UploadInv, current_state \in States, [Next]_upload_vars PROVE A
    OBVIOUS
  <2>1. CommitOnly
    BY StepKeeps
  <2>2. Grows(db, tx) /\ db \in Tables
    BY DEF UploadInv, TablesInv, Sane
  <2>3. Grows(db, db') /\ (db' # db => response'.code = OK)
    BY <2>1, <2>2, GrowsSame DEF CommitOnly
  <2>4. QED
    BY <2>3 DEF Grows, Written
<1>2. QED
  BY <1>1, UploadInvariant, PTL DEF Spec, HistoryAppendOnly

-----------------------------------------------------------------------------
(* The number of changes.  Every write adds as many rows to the history as *)
(* the updaters report elements created, modified or deleted.              *)

LEMMA ImageSize ==
    ASSUME NEW S, IsFiniteSet(S), NEW f, DOMAIN f = S,
           \A x, y \in S : f[x] = f[y] => x = y
    PROVE  /\ IsFiniteSet({f[x] : x \in S})
           /\ Cardinality({f[x] : x \in S}) = Cardinality(S)
<1> DEFINE T == {f[x] : x \in S}
           g == [x \in S |-> f[x]]
<1>1. g \in Bijection(S, T)
  BY DEF Bijection, Injection, Surjection, IsInjective
<1>2. ExistsBijection(S, T)
  BY <1>1 DEF ExistsBijection
<1>3. QED
  BY <1>2, FS_Bijection

LEMMA SizeOfBoth ==
    ASSUME NEW A, IsFiniteSet(A), NEW B, IsFiniteSet(B), A \cap B = {}
    PROVE  /\ IsFiniteSet(A \cup B)
           /\ Cardinality(A \cup B) = Cardinality(A) + Cardinality(B)
           /\ Cardinality(A) \in Nat /\ Cardinality(B) \in Nat
<1>1. Cardinality(A \cap B) = 0
  BY FS_EmptySet
<1>2. Cardinality(A) \in Nat /\ Cardinality(B) \in Nat
  BY FS_CardinalityType
<1>3. /\ IsFiniteSet(A \cup B)
      /\ Cardinality(A \cup B) = Cardinality(A) + Cardinality(B) - Cardinality(A \cap B)
  BY FS_Union
<1>4. QED
  BY <1>1, <1>2, <1>3

\* The rows a transaction has added to a history.
Added(old, tb, t) == tb.history[t] \ old.history[t]

LEMMA WriteAdds ==
    ASSUME NEW old \in Tables, NEW tb, Sane(tb), Grows(old, tb),
           NEW nt, NEW t \in Types, NEW l, NEW rw, GoodWrite(tb, nt, t, l, rw)
    PROVE  /\ IsFiniteSet(IdsOf(l)) /\ IsFiniteSet(Added(old, tb, t))
           /\ Cardinality(Added(old, nt, t)) = Cardinality(Added(old, tb, t)) + Cardinality(IdsOf(l))
           /\ \A u \in Types \ {t} : Added(old, nt, u) = Added(old, tb, u)
           /\ \A id \in IdsOf(l) : nt.current[t][id].version = tb.current[t][id].version + 1
           /\ \A u \in Types, id \in Ids : /\ tb.current[u][id].version \in Nat
                                          /\ nt.current[u][id].version \in Nat
                                          /\ tb.current[u][id].version <= nt.current[u][id].version
<1> DEFINE f == [id \in IdsOf(l) |->
                   [id |-> id, version |-> nt.current[t][id].version,
                    visible |-> nt.current[t][id].visible, loc |-> nt.current[t][id].loc]]
           new == {f[id] : id \in IdsOf(l)}
<1>1. Rewritten(tb, nt, t, l, rw) /\ GoodRows(tb, t, l, rw) /\ tb \in Tables
  BY DEF GoodWrite, Sane
<1>2. /\ nt \in Tables
      /\ \A i \in DOMAIN l : l[i].id \in Ids /\ l[i].id \in IdsOf(l) /\ rw[i] \in Row
      /\ \A u \in Types, id \in Ids :
           /\ tb.current[u][id] \in Row /\ nt.current[u][id] \in Row
           /\ tb.current[u][id].version <= nt.current[u][id].version
  BY <1>1, RowsAfter
<1>3. \A i \in DOMAIN l : nt.current[t][l[i].id] = rw[i] /\ rw[i].version = tb.current[t][l[i].id].version + 1
  BY <1>1 DEF Rewritten, CurrentRewritten, GoodRows
<1>4. \A id \in IdsOf(l) : id \in Ids /\ \E i \in DOMAIN l : l[i].id = id
  BY <1>2 DEF IdsOf
<1>5. IsFiniteSet(IdsOf(l))
  BY <1>4, IdsFinite, FS_Subset
<1>6. IsFiniteSet(new) /\ Cardinality(new) = Cardinality(IdsOf(l))
  <2>1. \A x, y \in IdsOf(l) : f[x] = f[y] => x = y
    OBVIOUS
  <2> HIDE DEF f
  <2>2. DOMAIN f = IdsOf(l)
    BY DEF f
  <2>3. QED
    BY <1>5, <2>1, <2>2, ImageSize
<1>7. \A r : r \in new <=> \E i \in DOMAIN l : r = HistoryRowOf(l[i], rw[i])
  <2>1. \A i \in DOMAIN l : f[l[i].id] = HistoryRowOf(l[i], rw[i])
    BY <1>2, <1>3 DEF HistoryRowOf
  <2>2. \A id \in IdsOf(l) : \E i \in DOMAIN l : f[id] = HistoryRowOf(l[i], rw[i])
    <3> HIDE DEF f
    <3> TAKE id \in IdsOf(l)
    <3>1. PICK i \in DOMAIN l : l[i].id = id
      BY <1>4
    <3>2. f[id] = HistoryRowOf(l[i], rw[i])
      BY <2>1, <3>1
    <3>3. QED
      BY <3>2
  <2> HIDE DEF f
  <2>3. QED
    BY <2>1, <2>2, <1>2
<1>8. nt.history[t] = tb.history[t] \cup new
  BY <1>1, <1>7 DEF Rewritten, HistoryExtended
<1>9. \A h \in new : h \notin tb.history[t]
  <2> SUFFICES ASSUME NEW i \in DOMAIN l, HistoryRowOf(l[i], rw[i]) \in tb.history[t] PROVE FALSE
    BY <1>7
  <2>1. HistoryMatches(tb, t, l[i].id)
    BY <1>2 DEF Sane
  <2>2. HistoryRowOf(l[i], rw[i]) \in HistoryOf(tb, t, l[i].id)
    BY DEF HistoryOf, HistoryRowOf
  <2>3. HistoryRowOf(l[i], rw[i]).version \in 1..tb.current[t][l[i].id].version
    BY <2>1, <2>2 DEF HistoryMatches
  <2>4. tb.current[t][l[i].id].version \in Nat
    BY <1>2 DEF Row
  <2>5. QED
    BY <2>3, <2>4, <1>3 DEF HistoryRowOf
<1>10. old.history[t] \subseteq tb.history[t]
  BY DEF Grows
<1> HIDE DEF new, f
<1>11. Added(old, nt, t) = Added(old, tb, t) \cup new /\ Added(old, tb, t) \cap new = {}
  BY <1>8, <1>9, <1>10 DEF Added
<1>12. IsFiniteSet(Added(old, tb, t))
  <2>1. IsFiniteSet(tb.history[t])
    BY DEF Sane, Regular
  <2>2. QED
    BY <2>1, FS_Subset DEF Added
<1>13. Cardinality(Added(old, nt, t)) = Cardinality(Added(old, tb, t)) + Cardinality(IdsOf(l))
  BY <1>6, <1>11, <1>12, SizeOfBoth
<1>14. \A u \in Types \ {t} : Added(old, nt, u) = Added(old, tb, u)
  BY <1>1 DEF Rewritten, HistoryExtended, Added
<1>15. \A id \in IdsOf(l) : nt.current[t][id].version = tb.current[t][id].version + 1
  BY <1>3, <1>4
<1>16. \A u \in Types, id \in Ids : /\ tb.current[u][id].version \in Nat
                                   /\ nt.current[u][id].version \in Nat
                                   /\ tb.current[u][id].version <= nt.current[u][id].version
  BY <1>2 DEF Row
<1>17. QED
  BY <1>5, <1>12, <1>13, <1>14, <1>15, <1>16

\* The working tables between the statements of a call.
LEMMA BetweenStatements ==
    ASSUME NEW tb \in Tables, NEW t \in Types, NEW l, Listed(l)
    PROVE  /\ Unique(l) => Updated(tb, t, l) \in Tables
           /\ \A raw \in Seq(Element) :
                tb.id_seq[t] + Len(raw) <= MaxId => Inserted(tb, t, raw, l) \in Tables
           /\ \A mid \in Tables : /\ Saved(mid, t, l).current = mid.current
                                /\ Saved(mid, t, l).members = mid.members
           /\ Unique(l) => /\ Hidden(tb, t, l) \in Tables
                           /\ Deleted(tb, t, l).current = Hidden(tb, t, l).current
<1>0. IdsOf(l) \in SUBSET Ids /\ IdsWithTags(l) \in SUBSET Ids
  BY ListedIds
<1>1. ASSUME Unique(l) PROVE Updated(tb, t, l) \in Tables
  <2> DEFINE s1 == DeleteTags(tb, t, IdsOf(l))
             s2 == DeleteMembers(s1, t, IdsOf(l))
             s3 == Shown(s2, t, l)
             s4 == InsertTags(s3, t, l)
  <2>1. s1 \in Tables
    BY TagsDeleted
  <2> HIDE DEF s1
  <2>2. s2 \in Tables
    BY <2>1, MembersDeleted
  <2> HIDE DEF s2
  <2>3. s3 \in Tables
    BY <2>2, <1>1, CurrentShown
  <2> HIDE DEF s3
  <2>4. s4 \in Tables
    BY <2>3, TagsInserted
  <2> HIDE DEF s4
  <2>5. InsertMembers(s4, t, l) \in Tables
    BY <2>4, MembersInserted
  <2>6. QED
    BY <2>5 DEF Updated, s4, s3, s2, s1
<1>2. ASSUME NEW raw \in Seq(Element), tb.id_seq[t] + Len(raw) <= MaxId
      PROVE  Inserted(tb, t, raw, l) \in Tables
  <2> DEFINE s1 == InsertCurrent(tb, t, raw)
             s2 == InsertTags(s1, t, l)
  <2>1. s1 \in Tables
    BY <1>2, CurrentInserted
  <2> HIDE DEF s1
  <2>2. s2 \in Tables
    BY <2>1, TagsInserted
  <2> HIDE DEF s2
  <2>3. InsertMembers(s2, t, l) \in Tables
    BY <2>2, MembersInserted
  <2>4. QED
    BY <2>3 DEF Inserted, s2, s1
<1>3. ASSUME NEW mid \in Tables
      PROVE  Saved(mid, t, l).current = mid.current /\ Saved(mid, t, l).members = mid.members
  <2> DEFINE s1 == SaveHistory(mid, t, IdsOf(l))
             s2 == SaveTagsHistory(s1, t, IdsWithTags(l))
             s3 == SaveMembersHistory(s2, t, IdsOf(l))
  <2>1. s1 \in Tables /\ s1.current = mid.current /\ s1.members = mid.members
    BY <1>0, HistorySaved DEF SameBut
  <2> HIDE DEF s1
  <2>2. s2 \in Tables /\ s2.current = s1.current /\ s2.members = s1.members
    BY <1>0, <2>1, TagsHistorySaved DEF SameBut
  <2> HIDE DEF s2
  <2>3. s3.current = s2.current /\ s3.members = s2.members
    BY <1>0, <2>2, MembersHistorySaved DEF SameBut
  <2>4. QED
    BY <2>1, <2>2, <2>3 DEF Saved, s3, s2, s1
<1>4. ASSUME Unique(l)
      PROVE  Hidden(tb, t, l) \in Tables /\ Deleted(tb, t, l).current = Hidden(tb, t, l).current
  <2> DEFINE s1 == Hidden(tb, t, l)
             s2 == DeleteTags(s1, t, IdsOf(l))
             s3 == DeleteMembers(s2, t, IdsOf(l))
             s4 == SaveHistory(s3, t, IdsOf(l))
  <2>1. s1 \in Tables
    BY <1>4, CurrentHidden
  <2> HIDE DEF s1
  <2>2. s2 \in Tables /\ s2.current = s1.current
    BY <2>1, TagsDeleted DEF SameBut
  <2> HIDE DEF s2
  <2>3. s3 \in Tables /\ s3.current = s2.current
    BY <2>2, MembersDeleted DEF SameBut
  <2> HIDE DEF s3
  <2>4. s4.current = s3.current
    BY <1>0, <2>3, HistorySaved DEF SameBut
  <2>5. QED
    BY <2>1, <2>2, <2>3, <2>4 DEF Deleted, s4, s3, s2, s1
<1>5. QED
  BY <1>1, <1>2, <1>3, <1>4

\* What an updater reports of the elements of a list is new: their versions
\* are newer than those it has reported before.
VersionsRaised(tb, nt, t, l) ==
    /\ Listed(l) /\ Unique(l) /\ IsFiniteSet(IdsOf(l))
    /\ \A id \in IdsOf(l) : nt.current[t][id].version = tb.current[t][id].version + 1
    /\ \A id \in Ids : /\ tb.current[t][id].version \in Nat
                       /\ nt.current[t][id].version \in Nat
                       /\ tb.current[t][id].version <= nt.current[t][id].version

\* A set of reports on elements of a type, none of a version to come.
Reported(tb, t, M) ==
    /\ M \in SUBSET Mapping /\ IsFiniteSet(M)
    /\ \A m \in M : m.new_version <= tb.current[t][m.new_id].version

LEMMA MappingsAdd ==
    ASSUME NEW tb, NEW nt, NEW t, NEW l, VersionsRaised(tb, nt, t, l),
           NEW M, Reported(tb, t, M), NEW mid, mid.current = nt.current
    PROVE  LET N == M \cup Mappings(mid, t, l, IdsOf(l))
           IN  /\ Reported(nt, t, N)
               /\ Cardinality(N) = Cardinality(M) + Cardinality(IdsOf(l))
<1> DEFINE N == M \cup Mappings(mid, t, l, IdsOf(l))
<1> USE DEF VersionsRaised, Reported
<1> DEFINE f == [id \in IdsOf(l) |->
                   [old_id |-> LastOf(l, id).old_id, new_id |-> id,
                    new_version |-> mid.current[t][id].version]]
           new == {f[id] : id \in IdsOf(l)}
<1>1. N = M \cup new
  BY DEF Mappings
<1>2. \A id \in IdsOf(l) : id \in Ids /\ LastOf(l, id).old_id \in Ids \cup Placeholders
  <2> SUFFICES ASSUME NEW i \in DOMAIN l
               PROVE  l[i].id \in Ids /\ LastOf(l, l[i].id).old_id \in Ids \cup Placeholders
    BY DEF IdsOf
  <2>1. LastOf(l, l[i].id) = l[i]
    BY LastOfUnique
  <2>2. QED
    BY <2>1 DEF Listed, Resolved
<1>3. IsFiniteSet(new) /\ Cardinality(new) = Cardinality(IdsOf(l))
  <2>1. \A x, y \in IdsOf(l) : f[x] = f[y] => x = y
    OBVIOUS
  <2>2. DOMAIN f = IdsOf(l)
    OBVIOUS
  <2> HIDE DEF f
  <2>3. QED
    BY <2>1, <2>2, ImageSize
<1>4. \A id \in IdsOf(l) : f[id] \in Mapping
  BY <1>2 DEF Mapping
<1>5. \A id \in IdsOf(l) : /\ f[id].new_id = id
                           /\ f[id].new_version = tb.current[t][id].version + 1
                           /\ f[id].new_version = nt.current[t][id].version
  OBVIOUS
<1> HIDE DEF f
<1>6. M \cap new = {}
  <2> SUFFICES ASSUME NEW id \in IdsOf(l), f[id] \in M PROVE FALSE
    OBVIOUS
  <2>1. f[id].new_version <= tb.current[t][id].version /\ tb.current[t][id].version \in Nat
    BY <1>2, <1>5
  <2>2. QED
    BY <1>5, <2>1
<1>7. Cardinality(N) = Cardinality(M) + Cardinality(IdsOf(l)) /\ IsFiniteSet(N)
  <2> HIDE DEF new
  <2>1. QED
    BY <1>1, <1>3, <1>6, SizeOfBoth
<1>8. \A m \in M : m.new_version <= nt.current[t][m.new_id].version
  <2> SUFFICES ASSUME NEW m \in M PROVE m.new_version <= nt.current[t][m.new_id].version
    OBVIOUS
  <2>1. m.new_id \in Ids /\ m.new_version \in Nat
    BY DEF Mapping
  <2>2. QED
    BY <2>1
<1>9. \A m \in new : m.new_version <= nt.current[t][m.new_id].version
  BY <1>5, <1>2
<1>10. N \in SUBSET Mapping
  BY <1>1, <1>4
<1> HIDE DEF N, new
<1>11. \A m \in N : m.new_version <= nt.current[t][m.new_id].version
  BY <1>1, <1>8, <1>9
<1>12. QED
  BY <1>7, <1>10, <1>11 DEF N

\* The same of the elements it creates: their placeholders are new.
LEMMA CreatedAdd ==
    ASSUME NEW tb, NEW t, NEW old, NEW seen, NEW raw, NEW created,
           CreatedFrom(tb, t, old, seen, raw, created), IsFiniteSet(old[t]),
           NEW l, DOMAIN l = DOMAIN raw, \A i \in DOMAIN l : l[i].id = tb.id_seq[t] + i
    PROVE  /\ IsFiniteSet(created[t])
           /\ Cardinality(created[t]) = Cardinality(old[t]) + Cardinality(IdsOf(l))
           /\ \A u \in Types \ {t} : created[u] = old[u]
<1>0. /\ tb \in Tables /\ t \in Types /\ old \in [Types -> SUBSET Mapping]
      /\ \A m \in old[t] : m.old_id \in seen
      /\ raw \in Seq(Fitting("create", t)) /\ PlaceholdersUnique(seen, raw)
      /\ created = [old EXCEPT ![t] = @ \cup CreatedMappings(tb, t, raw)]
  BY DEF CreatedFrom
<1> DEFINE f == [i \in DOMAIN raw |->
                   [old_id |-> raw[i].old_id, new_id |-> tb.id_seq[t] + i, new_version |-> 1]]
           g == [i \in DOMAIN raw |-> tb.id_seq[t] + i]
           new == {f[i] : i \in DOMAIN raw}
<1>1. raw \in Seq(Element) /\ tb.id_seq[t] \in Nat
  BY <1>0, FittingTyped, TablesFields, MaxIdAssumption
<1>2. IsFiniteSet(DOMAIN raw) /\ DOMAIN raw \subseteq Nat
  <2>1. DOMAIN raw = 1..Len(raw) /\ Len(raw) \in Int /\ 1 \in Int
    BY <1>1
  <2>2. IsFiniteSet(1..Len(raw))
    BY <2>1, FS_Interval
  <2>3. QED
    BY <2>1, <2>2
<1>3. created[t] = old[t] \cup new
  BY <1>0 DEF CreatedMappings
<1>4. IsFiniteSet(new) /\ Cardinality(new) = Cardinality(DOMAIN raw)
  <2>1. DOMAIN f = DOMAIN raw /\ \A x, y \in DOMAIN raw : f[x] = f[y] => x = y
    BY <1>0 DEF PlaceholdersUnique
  <2> HIDE DEF f
  <2>2. QED
    BY <1>2, <2>1, ImageSize
<1>5. Cardinality(IdsOf(l)) = Cardinality(DOMAIN raw)
  <2>1. DOMAIN g = DOMAIN raw /\ \A x, y \in DOMAIN raw : g[x] = g[y] => x = y
    BY <1>1, <1>2
  <2>2. IdsOf(l) = {g[i] : i \in DOMAIN raw}
    BY DEF IdsOf
  <2> HIDE DEF g
  <2>3. QED
    BY <1>2, <2>1, <2>2, ImageSize
<1>6. old[t] \cap new = {}
  <2> SUFFICES ASSUME NEW i \in DOMAIN raw, f[i] \in old[t] PROVE FALSE
    OBVIOUS
  <2>1. raw[i].old_id \in seen
    BY <1>0
  <2>2. QED
    BY <2>1, <1>0 DEF PlaceholdersUnique
<1> HIDE DEF new
<1>7. QED
  BY <1>0, <1>3, <1>4, <1>5, <1>6, SizeOfBoth

\* What the updaters have reported so far is as much as they have added to
\* the histories.
Reports(c, t) == Cardinality(c.created[t]) + Cardinality(c.modified[t]) + Cardinality(c.deleted[t])

CountInv ==
    /\ ct.modified \in [Types -> SUBSET Mapping] /\ ct.deleted \in [Types -> SUBSET Mapping]
    /\ \A t \in Types :
         /\ IsFiniteSet(ct.created[t]) /\ IsFiniteSet(ct.modified[t]) /\ IsFiniteSet(ct.deleted[t])
         /\ \A m \in ct.modified[t] : m.new_version <= tx.current[t][m.new_id].version
         /\ \A m \in ct.deleted[t] : m.new_version <= tx.current[t][m.new_id].version
         /\ Cardinality(Added(db, tx, t)) = Reports(ct, t)

\* A session that begins has reported nothing.
LEMMA FreshCounts ==
    ASSUME FreshSession, tx' = db'
    PROVE  CountInv'
<1>1. \A t \in Types : ct'.created[t] = {} /\ ct'.modified[t] = {} /\ ct'.deleted[t] = {}
  BY DEF FreshSession, NoTracking
<1>2. ct'.modified \in [Types -> SUBSET Mapping] /\ ct'.deleted \in [Types -> SUBSET Mapping]
  BY DEF FreshSession, NoTracking
<1>3. \A t \in Types : Added(db', tx', t) = {}
  BY DEF Added
<1>4. \A t \in Types : Cardinality(Added(db', tx', t)) = Reports(ct', t)
  BY <1>1, <1>3, FS_EmptySet DEF Reports
<1>5. QED
  BY <1>1, <1>2, <1>4, FS_EmptySet DEF CountInv

\* A call that writes the elements of a list of one type, and reports them in
\* one of the three ways.
ReportsList(f, t, l) ==
    /\ f \in {"created", "modified", "deleted"}
    /\ DOMAIN ct' = DOMAIN ct
    /\ \A g \in {"created", "modified", "deleted"}, u \in Types :
           g # f \/ u # t => ct'[g][u] = ct[g][u]
    /\ IsFiniteSet(ct'[f][t])
    /\ Cardinality(ct'[f][t]) = Cardinality(ct[f][t]) + Cardinality(IdsOf(l))
    /\ ct'.modified \in [Types -> SUBSET Mapping] /\ ct'.deleted \in [Types -> SUBSET Mapping]
    /\ f # "created" => \A m \in ct'[f][t] : m.new_version <= tx'.current[t][m.new_id].version

LEMMA WriteCounts ==
    ASSUME UploadInv, CountInv, NEW t \in Types, NEW l, NEW rw,
           GoodWrite(tx, tx', t, l, rw), db' = db,
           NEW f, ReportsList(f, t, l)
    PROVE  CountInv'
<1>1. db \in Tables /\ Sane(tx) /\ Grows(db, tx) /\ tx \in Tables
  BY DEF UploadInv, TablesInv, Sane
<1>2. /\ IsFiniteSet(IdsOf(l)) /\ IsFiniteSet(Added(db, tx, t))
      /\ Cardinality(Added(db, tx', t)) = Cardinality(Added(db, tx, t)) + Cardinality(IdsOf(l))
      /\ \A u \in Types \ {t} : Added(db, tx', u) = Added(db, tx, u)
      /\ \A u \in Types, id \in Ids : /\ tx.current[u][id].version \in Nat
                                     /\ tx'.current[u][id].version \in Nat
                                     /\ tx.current[u][id].version <= tx'.current[u][id].version
  BY <1>1, WriteAdds
<1>3. \A u \in Types, m \in Mapping :
        m.new_version <= tx.current[u][m.new_id].version => m.new_version <= tx'.current[u][m.new_id].version
  <2> SUFFICES ASSUME NEW u \in Types, NEW m \in Mapping,
                      m.new_version <= tx.current[u][m.new_id].version
               PROVE  m.new_version <= tx'.current[u][m.new_id].version
    OBVIOUS
  <2>1. m.new_id \in Ids /\ m.new_version \in Nat
    BY DEF Mapping
  <2>2. QED
    BY <2>1, <1>2
<1>4. \A g \in {"created", "modified", "deleted"}, u \in Types : IsFiniteSet(ct[g][u])
  BY DEF CountInv
<1>5. \A g \in {"created", "modified", "deleted"}, u \in Types : IsFiniteSet(ct'[g][u])
  BY <1>4 DEF ReportsList
<1>6. ASSUME NEW g \in {"modified", "deleted"}, NEW u \in Types, NEW m \in ct'[g][u]
      PROVE  m.new_version <= tx'.current[u][m.new_id].version
  <2>1. CASE g = f /\ u = t
    BY <2>1, <1>6 DEF ReportsList
  <2>2. CASE g # f \/ u # t
    <3>1. m \in ct[g][u] /\ m \in Mapping /\ m.new_version <= tx.current[u][m.new_id].version
      BY <2>2, <1>6 DEF ReportsList, CountInv
    <3>2. QED
      BY <3>1, <1>3
  <2>3. QED
    BY <2>1, <2>2
<1>7. ASSUME NEW u \in Types PROVE Cardinality(Added(db', tx', u)) = Reports(ct', u)
  <2>1. /\ Cardinality(Added(db, tx, u)) = Reports(ct, u)
        /\ Cardinality(ct.created[u]) \in Nat /\ Cardinality(ct.modified[u]) \in Nat
        /\ Cardinality(ct.deleted[u]) \in Nat /\ Cardinality(IdsOf(l)) \in Nat
    BY <1>2, FS_CardinalityType DEF CountInv
  <2>2. CASE u # t
    <3>1. ct'.created[u] = ct.created[u] /\ ct'.modified[u] = ct.modified[u] /\ ct'.deleted[u] = ct.deleted[u]
      BY <2>2 DEF ReportsList
    <3>2. QED
      BY <2>1, <2>2, <3>1, <1>2 DEF Reports
  <2>3. CASE u = t
    <3>1. CASE f = "created"
      <4>1. /\ Cardinality(ct'.created[u]) = Cardinality(ct.created[u]) + Cardinality(IdsOf(l))
            /\ ct'.modified[u] = ct.modified[u] /\ ct'.deleted[u] = ct.deleted[u]
        BY <2>3, <3>1 DEF ReportsList
      <4>2. QED
        BY <2>1, <2>3, <4>1, <1>2 DEF Reports
    <3>2. CASE f = "modified"
      <4>1. /\ Cardinality(ct'.modified[u]) = Cardinality(ct.modified[u]) + Cardinality(IdsOf(l))
            /\ ct'.created[u] = ct.created[u] /\ ct'.deleted[u] = ct.deleted[u]
        BY <2>3, <3>2 DEF ReportsList
      <4>2. QED
        BY <2>1, <2>3, <4>1, <1>2 DEF Reports
    <3>3. CASE f = "deleted"
      <4>1. /\ Cardinality(ct'.deleted[u]) = Cardinality(ct.deleted[u]) + Cardinality(IdsOf(l))
            /\ ct'.created[u] = ct.created[u] /\ ct'.modified[u] = ct.modified[u]
        BY <2>3, <3>3 DEF ReportsList
      <4>2. QED
        BY <2>1, <2>3, <4>1, <1>2 DEF Reports
    <3>4. QED
      BY <3>1, <3>2, <3>3 DEF ReportsList
  <2>4. QED
    BY <2>2, <2>3
<1>8. ct'.modified \in [Types -> SUBSET Mapping] /\ ct'.deleted \in [Types -> SUBSET Mapping]
  BY DEF ReportsList
<1>9. QED
  BY <1>5, <1>6, <1>7, <1>8 DEF CountInv

LEMMA CreateCounts ==
    ASSUME UploadInv, CountInv, NEW t \in Types, CreateStep(t)
    PROVE  CountInv'
<1> DEFINE raw == buffer["create"][t]
           l == CreateList(t)
<1>1. /\ GoodWrite(tx, tx', t, l, CreatedRows(raw))
      /\ DOMAIN l = DOMAIN raw /\ \A i \in DOMAIN l : l[i].id = tx.id_seq[t] + i
  BY CreateStepKeeps
<1>2. CreatedFrom(tx, t, ct.created, create_placeholder_ids[t], raw, AddCreated(t))
  BY DEF CreateStep, UploadInv, TablesInv, Sane, PlaceholderInv, BufferInv, RoomInv, Room,
         CreatedFrom, AddCreated, Ops
<1>3. /\ IsFiniteSet(AddCreated(t)[t])
      /\ Cardinality(AddCreated(t)[t]) = Cardinality(ct.created[t]) + Cardinality(IdsOf(l))
      /\ \A u \in Types \ {t} : AddCreated(t)[u] = ct.created[u]
  <2>1. IsFiniteSet(ct.created[t])
    BY DEF CountInv
  <2> HIDE DEF raw, l
  <2>2. QED
    BY <1>1, <1>2, <2>1, CreatedAdd
<1>4. /\ ct'.created = AddCreated(t) /\ ct'.modified = ct.modified /\ ct'.deleted = ct.deleted
      /\ DOMAIN ct' = DOMAIN ct
  BY DEF CreateStep, UploadInv, PlaceholderInv, TrackingFields
<1>5. ReportsList("created", t, l)
  <2> HIDE DEF l
  <2>1. QED
    BY <1>3, <1>4 DEF ReportsList, CountInv
<1>6. db' = db
  BY DEF CreateStep, handlerVars
<1>7. QED
  <2> HIDE DEF raw, l
  <2>1. QED
    BY <1>1, <1>5, <1>6, WriteCounts

LEMMA PackageCounts ==
    ASSUME UploadInv, CountInv, NEW t \in Types, PackageStep(t)
    PROVE  CountInv'
<1> DEFINE l == packages[package]
           mid == Updated(tx, t, l)
           N == ct.modified[t] \cup Mappings(mid, t, l, IdsOf(l))
<1>1. GoodWrite(tx, tx', t, l, ShownRows(l)) /\ FitList(l, t)
  BY PackageStepKeeps
<1>2. /\ Unique(l) /\ db' = db /\ tx' = Saved(mid, t, l)
      /\ ct' = [ct EXCEPT !.modified[t] = N]
  BY DEF PackageStep, handlerVars
<1>3. tx \in Tables /\ Sane(tx) /\ db \in Tables /\ Grows(db, tx) /\ Listed(l)
  BY <1>1 DEF UploadInv, TablesInv, Sane, FitList
<1>4. mid \in Tables
  <2> HIDE DEF l
  <2>1. QED
    BY <1>2, <1>3, BetweenStatements
<1> HIDE DEF l, mid
<1>5. mid.current = tx'.current
  BY <1>2, <1>3, <1>4, BetweenStatements
<1>6. VersionsRaised(tx, tx', t, l)
  BY <1>1, <1>2, <1>3, WriteAdds DEF VersionsRaised
<1>7. Reported(tx, t, ct.modified[t])
  BY DEF CountInv, Reported
<1>8. Reported(tx', t, N) /\ Cardinality(N) = Cardinality(ct.modified[t]) + Cardinality(IdsOf(l))
  BY <1>5, <1>6, <1>7, MappingsAdd
<1> HIDE DEF N
<1>9. /\ ct'.modified = [ct.modified EXCEPT ![t] = N]
      /\ ct'.created = ct.created /\ ct'.deleted = ct.deleted /\ DOMAIN ct' = DOMAIN ct
  BY <1>2 DEF UploadInv, PlaceholderInv, TrackingFields
<1>10. /\ ct'.modified[t] = N /\ ct'.modified \in [Types -> SUBSET Mapping]
       /\ \A u \in Types \ {t} : ct'.modified[u] = ct.modified[u]
  BY <1>8, <1>9 DEF CountInv, Reported
<1>11. ReportsList("modified", t, l)
  BY <1>8, <1>9, <1>10 DEF ReportsList, CountInv, Reported
<1>12. QED
  BY <1>1, <1>2, <1>11, WriteCounts

LEMMA DeleteCounts ==
    ASSUME UploadInv, CountInv, NEW t \in Types, NEW l, NEW skipped, DeleteStep(t, l, skipped)
    PROVE  CountInv'
<1> DEFINE mid == Hidden(tx, t, l)
           N == ct.deleted[t] \cup Mappings(mid, t, l, IdsOf(l))
<1>1. GoodWrite(tx, tx', t, l, HiddenRows(tx, t, l)) /\ FitList(l, t)
  BY DeleteStepKeeps
<1>2. /\ Unique(l) /\ db' = db /\ tx' = Deleted(tx, t, l)
      /\ ct' = [ct EXCEPT !.skip_deleted[t] = skipped, !.deleted[t] = N]
  BY DEF DeleteStep, handlerVars
<1>3. tx \in Tables /\ Sane(tx) /\ db \in Tables /\ Grows(db, tx) /\ Listed(l)
  BY <1>1 DEF UploadInv, TablesInv, Sane, FitList
<1>4. mid.current = tx'.current
  BY <1>2, <1>3, BetweenStatements
<1> HIDE DEF mid
<1>6. VersionsRaised(tx, tx', t, l)
  BY <1>1, <1>2, <1>3, WriteAdds DEF VersionsRaised
<1>7. Reported(tx, t, ct.deleted[t])
  BY DEF CountInv, Reported
<1>8. Reported(tx', t, N) /\ Cardinality(N) = Cardinality(ct.deleted[t]) + Cardinality(IdsOf(l))
  BY <1>4, <1>6, <1>7, MappingsAdd
<1> HIDE DEF N
<1>9. /\ ct'.deleted = [ct.deleted EXCEPT ![t] = N]
      /\ ct'.created = ct.created /\ ct'.modified = ct.modified /\ DOMAIN ct' = DOMAIN ct
  BY <1>2 DEF UploadInv, PlaceholderInv, TrackingFields
<1>10. /\ ct'.deleted[t] = N /\ ct'.deleted \in [Types -> SUBSET Mapping]
       /\ \A u \in Types \ {t} : ct'.deleted[u] = ct.deleted[u]
  BY <1>8, <1>9 DEF CountInv, Reported
<1>11. ReportsList("deleted", t, l)
  BY <1>8, <1>9, <1>10 DEF ReportsList, CountInv, Reported
<1>12. QED
  BY <1>1, <1>2, <1>11, WriteCounts

-----------------------------------------------------------------------------
(* Boxes. *)

LEMMA Least ==
    ASSUME NEW T, T \subseteq Nat, T # {}
    PROVE  \E x \in T : \A y \in T : x <= y
<1> DEFINE R == OpToRel(<, Nat)
<1>1. IsWellFoundedOn(R, Nat)
  BY NatLessThanWellFounded
<1> HIDE DEF R
<1>2. PICK x \in T : \A y \in T : ~ (<<y, x>> \in R)
  BY <1>1, WFMin
<1>3. \A a, b \in Nat : a < b => <<a, b>> \in R
  BY DEF R, OpToRel
<1>4. \A y \in T : ~(y < x) /\ y \in Nat /\ x \in Nat
  BY <1>2, <1>3
<1>5. \A y \in T : x <= y
  BY <1>4
<1>6. QED
  BY <1>5

\* MIN and MAX of a query exist: the box it gives is the one around its rows.
LEMMA ExtractCovers ==
    ASSUME NEW coords, coords \subseteq Coord
    PROVE  /\ extract_bbox(coords) \in bbox_t
           /\ \A c \in coords : Covers(extract_bbox(coords), c)
<1>1. CASE coords = {}
  BY <1>1 DEF extract_bbox, undefined_bbox, bbox_t
<1>2. CASE coords # {}
  <2>0. \A c \in coords : c \in Int /\ -180 <= c /\ c <= 180
    BY DEF Coord
  <2>1. \E c \in coords : \A d \in coords : c <= d
    <3> DEFINE T == {c + 180 : c \in coords}
    <3>1. T \subseteq Nat /\ T # {}
      BY <1>2, <2>0
    <3>2. PICK x \in T : \A y \in T : x <= y
      BY <3>1, Least
    <3>3. PICK c \in coords : x = c + 180
      BY <3>2
    <3>4. \A d \in coords : c <= d
      BY <2>0, <3>2, <3>3
    <3>5. QED
      BY <3>4
  <2>2. \E c \in coords : \A d \in coords : d <= c
    <3> DEFINE T == {180 - c : c \in coords}
    <3>1. T \subseteq Nat /\ T # {}
      BY <1>2, <2>0
    <3>2. PICK x \in T : \A y \in T : x <= y
      BY <3>1, Least
    <3>3. PICK c \in coords : x = 180 - c
      BY <3>2
    <3>4. \A d \in coords : x <= 180 - d
      BY <3>2
    <3> HIDE DEF T
    <3>5. \A d \in coords : d <= c
      BY <2>0, <3>4, <3>3
    <3>6. QED
      BY <3>5
  <2> DEFINE lo == CHOOSE c \in coords : \A d \in coords : c <= d
             hi == CHOOSE c \in coords : \A d \in coords : d <= c
  <2>3. lo \in coords /\ \A d \in coords : lo <= d
    BY <2>1
  <2>4. hi \in coords /\ \A d \in coords : d <= hi
    BY <2>2
  <2>5. extract_bbox(coords) = [min |-> lo, max |-> hi]
    BY <1>2 DEF extract_bbox
  <2> HIDE DEF lo, hi
  <2>6. QED
    BY <2>0, <2>3, <2>4, <2>5 DEF bbox_t, Covers
<1>3. QED
  BY <1>1, <1>2

Within(a, b) == b.min <= a.min /\ a.max <= b.max

LEMMA WithinCovers ==
    ASSUME NEW a \in bbox_t, NEW b \in bbox_t, Within(a, b)
    PROVE  \A c \in Int : Covers(a, c) => Covers(b, c)
  BY DEF bbox_t, Within, Covers

LEMMA WithinTrans ==
    ASSUME NEW a \in bbox_t, NEW b \in bbox_t, NEW c \in bbox_t, Within(a, b), Within(b, c)
    PROVE  Within(a, c)
  BY DEF bbox_t, Within

LEMMA ExpandCovers ==
    ASSUME NEW a \in bbox_t, NEW b \in bbox_t
    PROVE  /\ expand(a, b) \in bbox_t
           /\ Within(a, expand(a, b)) /\ Within(b, expand(a, b))
           /\ \A a0, b0 \in bbox_t : Within(a0, a) /\ Within(b0, b) => Within(expand(a0, b0), expand(a, b))
           /\ \A c \in Int : Covers(a, c) \/ Covers(b, c) => Covers(expand(a, b), c)
<1>1. expand(a, b) \in bbox_t /\ Within(a, expand(a, b)) /\ Within(b, expand(a, b))
  BY DEF bbox_t, expand, Within
<1>2. \A a0, b0 \in bbox_t : Within(a0, a) /\ Within(b0, b) => Within(expand(a0, b0), expand(a, b))
  BY DEF bbox_t, expand, Within
<1>3. QED
  BY <1>1, <1>2, WithinCovers

\* Expanded by the box of a query.
LEMMA ExpandedBy ==
    ASSUME NEW a \in bbox_t, NEW coords, coords \subseteq Coord
    PROVE  /\ expand(a, extract_bbox(coords)) \in bbox_t
           /\ Within(a, expand(a, extract_bbox(coords)))
           /\ \A c \in coords : Covers(expand(a, extract_bbox(coords)), c)
<1>1. extract_bbox(coords) \in bbox_t /\ \A c \in coords : Covers(extract_bbox(coords), c)
  BY ExtractCovers
<1>2. \A c \in coords : c \in Int
  BY DEF Coord
<1>3. QED
  BY <1>1, <1>2, ExpandCovers

\* The places calc_*_bbox looks at.
PlacesOf(tb, t, ids) ==
    CASE t = "Node" -> NodeCoords(tb, ids)
      [] t = "Way" -> NodeCoords(tb, MemberRefs(tb, "Way", ids, "Node"))
      [] t = "Relation" ->
           NodeCoords(tb, MemberRefs(tb, "Relation", ids, "Node")
                            \cup MemberRefs(tb, "Way", MemberRefs(tb, "Relation", ids, "Way"), "Node"))

LEMMA PlacesTyped ==
    ASSUME NEW tb \in Tables
    PROVE  /\ \A ids : ids \subseteq Ids => NodeCoords(tb, ids) \subseteq Coord
           /\ \A t \in Types : \A ids, mt : MemberRefs(tb, t, ids, mt) \subseteq Ids
           /\ \A t \in Types : \A ids : ids \subseteq Ids => PlacesOf(tb, t, ids) \subseteq Coord
<1>1. \A id \in Ids : tb.current["Node"][id].loc \in Coord
  <2>1. \A id \in Ids : tb.current["Node"][id] \in Row
    BY TablesFields DEF Types
  <2>2. QED
    BY <2>1 DEF Row
<1>2. \A ids : ids \subseteq Ids => NodeCoords(tb, ids) \subseteq Coord
  BY <1>1 DEF NodeCoords
<1>3. \A t \in Types : \A ids, mt : MemberRefs(tb, t, ids, mt) \subseteq Ids
  <2>1. \A t \in Types : \A m \in tb.members[t] : m.ref \in Ids
    BY TablesFields DEF MemberRow
  <2>2. QED
    BY <2>1 DEF MemberRefs
<1>4. ASSUME NEW t \in Types, NEW ids, ids \subseteq Ids PROVE PlacesOf(tb, t, ids) \subseteq Coord
  <2> DEFINE nodes == MemberRefs(tb, "Relation", ids, "Node")
                       \cup MemberRefs(tb, "Way", MemberRefs(tb, "Relation", ids, "Way"), "Node")
             wnodes == MemberRefs(tb, "Way", ids, "Node")
  <2>1. nodes \subseteq Ids /\ wnodes \subseteq Ids
    BY <1>3 DEF Types
  <2> HIDE DEF nodes, wnodes
  <2>2. /\ NodeCoords(tb, nodes) \subseteq Coord /\ NodeCoords(tb, wnodes) \subseteq Coord
        /\ NodeCoords(tb, ids) \subseteq Coord
    BY <2>1, <1>2, <1>4
  <2>3. QED
    BY <2>2 DEF PlacesOf, Types, nodes, wnodes
<1>5. QED
  BY <1>2, <1>3, <1>4

\* A call has expanded the box of its updater at least by these places.
Boxed(t, coords) ==
    /\ m_bbox' \in [Types -> bbox_t]
    /\ \A u \in Types \ {t} : m_bbox'[u] = m_bbox[u]
    /\ Within(m_bbox[t], m_bbox'[t])
    /\ \A c \in coords : Covers(m_bbox'[t], c)

LEMMA BoxedBy ==
    ASSUME m_bbox \in [Types -> bbox_t], NEW t \in Types, NEW coords, coords \subseteq Coord,
           m_bbox' = [m_bbox EXCEPT ![t] = expand(@, extract_bbox(coords))]
    PROVE  Boxed(t, coords)
<1> DEFINE b == expand(m_bbox[t], extract_bbox(coords))
<1>1. /\ b \in bbox_t
      /\ Within(m_bbox[t], b)
      /\ \A c \in coords : Covers(b, c)
  BY ExpandedBy
<1> HIDE DEF b
<1>2. m_bbox' = [m_bbox EXCEPT ![t] = b]
  BY DEF b
<1>3. QED
  BY <1>1, <1>2 DEF Boxed

LEMMA BoxedTwice ==
    ASSUME m_bbox \in [Types -> bbox_t], NEW t \in Types, NEW c1, c1 \subseteq Coord,
           NEW c2, c2 \subseteq Coord,
           m_bbox' = [m_bbox EXCEPT ![t] = expand(expand(@, extract_bbox(c1)), extract_bbox(c2))]
    PROVE  Boxed(t, c1 \cup c2)
<1> DEFINE a == expand(m_bbox[t], extract_bbox(c1))
           b == expand(a, extract_bbox(c2))
<1>1. /\ a \in bbox_t
      /\ Within(m_bbox[t], a)
      /\ \A c \in c1 : Covers(a, c)
  BY ExpandedBy
<1>2. m_bbox' = [m_bbox EXCEPT ![t] = b]
  OBVIOUS
<1> HIDE DEF a
<1>3. /\ b \in bbox_t
      /\ Within(a, b)
      /\ \A c \in c2 : Covers(b, c)
  BY <1>1, ExpandedBy
<1> HIDE DEF b
<1>4. \A c \in c1 : c \in Int
  BY DEF Coord
<1>5. m_bbox[t] \in bbox_t
  OBVIOUS
<1>6. Within(m_bbox[t], b)
  BY <1>1, <1>3, <1>5, WithinTrans
<1>7. \A c \in c1 : Covers(b, c)
  BY <1>1, <1>3, <1>4, WithinCovers
<1>8. QED
  BY <1>2, <1>3, <1>6, <1>7 DEF Boxed

\* What the boxes are taken of is in the working tables when the call ends.
LEMMA SamePlaces ==
    ASSUME NEW a, NEW b, a.current = b.current, a.members = b.members
    PROVE  /\ \A ids : NodeCoords(a, ids) = NodeCoords(b, ids)
           /\ \A t, ids, mt : MemberRefs(a, t, ids, mt) = MemberRefs(b, t, ids, mt)
           /\ \A t \in Types : \A ids : PlacesOf(a, t, ids) = PlacesOf(b, t, ids)
<1>1. \A ids : NodeCoords(a, ids) = NodeCoords(b, ids)
  BY DEF NodeCoords, Exists
<1>2. \A t, ids, mt : MemberRefs(a, t, ids, mt) = MemberRefs(b, t, ids, mt)
  BY DEF MemberRefs
<1>3. ASSUME NEW t \in Types, NEW ids PROVE PlacesOf(a, t, ids) = PlacesOf(b, t, ids)
  <2>1. CASE t = "Node"
    BY <2>1, <1>1 DEF PlacesOf
  <2>2. CASE t = "Way"
    BY <2>2, <1>1, <1>2 DEF PlacesOf
  <2>3. CASE t = "Relation"
    BY <2>3, <1>1, <1>2 DEF PlacesOf
  <2>4. QED
    BY <2>1, <2>2, <2>3 DEF Types
<1>4. QED
  BY <1>1, <1>2, <1>3

LEMMA NodesBetween ==
    ASSUME NEW tb, Sane(tb), NEW l, FitList(l, "Node")
    PROVE  /\ \A raw \in Seq(Element) : tb.id_seq["Node"] + Len(raw) <= MaxId =>
                Inserted(tb, "Node", raw, l) = InsertTags(InsertCurrent(tb, "Node", raw), "Node", l)
           /\ Unique(l) =>
                Updated(tb, "Node", l) = InsertTags(Shown(DeleteTags(tb, "Node", IdsOf(l)), "Node", l), "Node", l)
<1>0. "Node" \in Types /\ Listed(l) /\ tb \in Tables /\ \A i \in DOMAIN l : l[i].members = <<>>
  BY DEF Types, FitList, Sane
<1>1. ASSUME NEW raw \in Seq(Element), tb.id_seq["Node"] + Len(raw) <= MaxId
      PROVE  Inserted(tb, "Node", raw, l) = InsertTags(InsertCurrent(tb, "Node", raw), "Node", l)
  <2> DEFINE s1 == InsertCurrent(tb, "Node", raw)
             s2 == InsertTags(s1, "Node", l)
  <2>1. s1 \in Tables
    BY <1>0, <1>1, CurrentInserted
  <2> HIDE DEF s1
  <2>2. s2 \in Tables
    BY <1>0, <2>1, TagsInserted
  <2> HIDE DEF s2
  <2>3. InsertMembers(s2, "Node", l) = s2
    BY <1>0, <2>2, NoMembersInserted
  <2>4. QED
    BY <2>3 DEF Inserted, s2, s1
<1>2. QED
  BY <1>1, NodesUpdated

\* The box of a call that creates elements is taken of what it has inserted.
LEMMA CreateBoxes ==
    ASSUME UploadInv, m_bbox \in [Types -> bbox_t], NEW t \in Types, CreateStep(t),
           NEW coords, coords = PlacesOf(Inserted(tx, t, buffer["create"][t], CreateList(t)), t,
                                         IdsOf(CreateList(t))),
           m_bbox' = [m_bbox EXCEPT ![t] = expand(@, extract_bbox(coords))]
    PROVE  Boxed(t, PlacesOf(tx', t, IdsOf(CreateList(t))))
<1> DEFINE raw == buffer["create"][t]
           l == CreateList(t)
           mid == Inserted(tx, t, raw, l)
<1>1. /\ FitList(l, t) /\ raw \in Seq(Element) /\ tx.id_seq[t] + Len(raw) <= MaxId
  BY CreateListFits DEF CreateStep
<1>2. tx \in Tables /\ Listed(l) /\ tx' = Saved(mid, t, l)
  BY <1>1 DEF UploadInv, TablesInv, Sane, FitList, CreateStep
<1> HIDE DEF l, raw
<1>3. mid \in Tables /\ IdsOf(l) \in SUBSET Ids
  BY <1>1, <1>2, BetweenStatements, ListedIds
<1> HIDE DEF mid
<1>4. tx'.current = mid.current /\ tx'.members = mid.members
  BY <1>2, <1>3, BetweenStatements
<1>5. coords = PlacesOf(tx', t, IdsOf(l)) /\ coords \subseteq Coord
  BY <1>3, <1>4, SamePlaces, PlacesTyped DEF mid, l, raw
<1>6. QED
  BY <1>5, BoxedBy DEF l

LEMMA DeleteBoxes ==
    ASSUME UploadInv, m_bbox \in [Types -> bbox_t], NEW t \in Types,
           NEW m, NEW skipped, DeleteStep(t, m, skipped),
           NEW coords, coords = PlacesOf(tx, t, IdsOf(DeleteList(t))),
           m_bbox' = [m_bbox EXCEPT ![t] = expand(@, extract_bbox(coords))]
    PROVE  Boxed(t, PlacesOf(tx, t, IdsOf(DeleteList(t))))
<1>1. Listed(DeleteList(t))
  BY DeletedFits DEF DeleteStep, FitList
<1>2. tx \in Tables /\ IdsOf(DeleteList(t)) \subseteq Ids
  BY <1>1, ListedIds DEF UploadInv, TablesInv, Sane
<1>3. coords \subseteq Coord
  BY <1>2, PlacesTyped
<1>4. QED
  BY <1>3, BoxedBy

LEMMA NewBoxes ==
    ASSUME UploadInv, m_bbox \in [Types -> bbox_t], scenario' = scenario, ~Throws
    PROVE  /\ process_new_nodes =>
                CreateStep("Node") /\ Boxed("Node", PlacesOf(tx', "Node", IdsOf(CreateList("Node"))))
           /\ process_new_ways =>
                CreateStep("Way") /\ Boxed("Way", PlacesOf(tx', "Way", IdsOf(CreateList("Way"))))
           /\ process_new_relations =>
                /\ CreateStep("Relation")
                /\ Boxed("Relation", PlacesOf(tx', "Relation", IdsOf(CreateList("Relation"))))
<1>0. "Node" \in Types /\ "Way" \in Types /\ "Relation" \in Types
  BY DEF Types
<1>1. ASSUME process_new_nodes
      PROVE  CreateStep("Node") /\ Boxed("Node", PlacesOf(tx', "Node", IdsOf(CreateList("Node"))))
  <2> DEFINE raw == buffer["create"]["Node"]
             l == CreateList("Node")
             mid == InsertTags(InsertCurrent(tx, "Node", raw), "Node", l)
  <2>1. CreateStep("Node")
    BY <1>1, NewNodes
  <2>2. m_bbox' = [m_bbox EXCEPT !["Node"] = expand(@, extract_bbox(NodeCoords(mid, IdsOf(l))))]
    BY <1>1 DEF process_new_nodes, Throws, AddCreated, CreateList, replace_old_ids_in_nodes,
                insert_new_current_node_tags, insert_new_nodes_to_current_table, calc_node_bbox
  <2>3. /\ FitList(l, "Node") /\ raw \in Seq(Element) /\ tx.id_seq["Node"] + Len(raw) <= MaxId
    BY <1>0, <2>1, CreateListFits DEF CreateStep
  <2>4. Sane(tx)
    BY DEF UploadInv, TablesInv
  <2> HIDE DEF raw, l
  <2>5. mid = Inserted(tx, "Node", raw, l)
    BY <2>3, <2>4, NodesBetween
  <2>6. NodeCoords(mid, IdsOf(l)) = PlacesOf(Inserted(tx, "Node", raw, l), "Node", IdsOf(l))
    BY <2>5 DEF PlacesOf
  <2> HIDE DEF mid
  <2>7. QED
    BY <1>0, <2>1, <2>2, <2>6, CreateBoxes DEF raw, l
<1>2. ASSUME process_new_ways
      PROVE  CreateStep("Way") /\ Boxed("Way", PlacesOf(tx', "Way", IdsOf(CreateList("Way"))))
  <2> DEFINE raw == buffer["create"]["Way"]
             l == CreateList("Way")
             mid == Inserted(tx, "Way", raw, l)
             coords == NodeCoords(mid, MemberRefs(mid, "Way", IdsOf(l), "Node"))
  <2>1. CreateStep("Way")
    BY <1>2, NewWays
  <2>2. m_bbox' = [m_bbox EXCEPT !["Way"] = expand(@, extract_bbox(coords))]
    BY <1>2 DEF process_new_ways, Throws, AddCreated, CreateList, replace_old_ids_in_ways,
                insert_new_current_way_tags, insert_new_ways_to_current_table,
                insert_new_current_way_nodes, calc_way_bbox, Inserted
  <2>3. coords = PlacesOf(mid, "Way", IdsOf(l))
    BY DEF PlacesOf
  <2> HIDE DEF coords
  <2>4. QED
    BY <1>0, <2>1, <2>2, <2>3, CreateBoxes
<1>3. ASSUME process_new_relations
      PROVE  /\ CreateStep("Relation")
             /\ Boxed("Relation", PlacesOf(tx', "Relation", IdsOf(CreateList("Relation"))))
  <2> DEFINE raw == buffer["create"]["Relation"]
             l == CreateList("Relation")
             mid == Inserted(tx, "Relation", raw, l)
             coords == NodeCoords(mid, MemberRefs(mid, "Relation", IdsOf(l), "Node")
                         \cup MemberRefs(mid, "Way", MemberRefs(mid, "Relation", IdsOf(l), "Way"), "Node"))
  <2>1. CreateStep("Relation")
    BY <1>3, NewRelations
  <2>2. m_bbox' = [m_bbox EXCEPT !["Relation"] = expand(@, extract_bbox(coords))]
    BY <1>3 DEF process_new_relations, Throws, AddCreated, CreateList, replace_old_ids_in_relations,
                insert_new_current_relation_tags, insert_new_relations_to_current_table,
                insert_new_current_relation_members, calc_relation_bbox, MembersBox, Inserted
  <2>3. coords = PlacesOf(mid, "Relation", IdsOf(l))
    BY DEF PlacesOf
  <2> HIDE DEF coords
  <2>4. QED
    BY <1>0, <2>1, <2>2, <2>3, CreateBoxes
<1>4. QED
  BY <1>1, <1>2, <1>3

LEMMA DeletedBoxes ==
    ASSUME UploadInv, m_bbox \in [Types -> bbox_t], scenario' = scenario, ~Throws
    PROVE  /\ process_delete_nodes =>
                /\ \E m, skipped : DeleteStep("Node", m, skipped)
                /\ Boxed("Node", PlacesOf(tx, "Node", IdsOf(DeleteList("Node"))))
           /\ process_delete_ways =>
                /\ \E m, skipped : DeleteStep("Way", m, skipped)
                /\ Boxed("Way", PlacesOf(tx, "Way", IdsOf(DeleteList("Way"))))
           /\ process_delete_relations =>
                /\ \E m, skipped : DeleteStep("Relation", m, skipped)
                /\ Boxed("Relation", PlacesOf(tx, "Relation", IdsOf(DeleteList("Relation"))))
<1>0. "Node" \in Types /\ "Way" \in Types /\ "Relation" \in Types
  BY DEF Types
<1>1. ASSUME process_delete_nodes
      PROVE  /\ \E m, skipped : DeleteStep("Node", m, skipped)
             /\ Boxed("Node", PlacesOf(tx, "Node", IdsOf(DeleteList("Node"))))
  <2> DEFINE coords == NodeCoords(tx, IdsOf(DeleteList("Node")))
  <2>1. \E m, skipped : DeleteStep("Node", m, skipped)
    BY <1>1, DeleteNodes
  <2>2. m_bbox' = [m_bbox EXCEPT !["Node"] = expand(@, extract_bbox(coords))]
    BY <1>1 DEF process_delete_nodes, Throws, DeleteList, replace_old_ids_in_nodes, calc_node_bbox
  <2>3. coords = PlacesOf(tx, "Node", IdsOf(DeleteList("Node")))
    BY DEF PlacesOf
  <2> HIDE DEF coords
  <2>4. QED
    BY <1>0, <2>1, <2>2, <2>3, DeleteBoxes
<1>2. ASSUME process_delete_ways
      PROVE  /\ \E m, skipped : DeleteStep("Way", m, skipped)
             /\ Boxed("Way", PlacesOf(tx, "Way", IdsOf(DeleteList("Way"))))
  <2> DEFINE coords == NodeCoords(tx, MemberRefs(tx, "Way", IdsOf(DeleteList("Way")), "Node"))
  <2>1. \E m, skipped : DeleteStep("Way", m, skipped)
    BY <1>2, DeleteWays
  <2>2. m_bbox' = [m_bbox EXCEPT !["Way"] = expand(@, extract_bbox(coords))]
    BY <1>2 DEF process_delete_ways, Throws, DeleteList, replace_old_ids_in_ways, calc_way_bbox
  <2>3. coords = PlacesOf(tx, "Way", IdsOf(DeleteList("Way")))
    BY DEF PlacesOf
  <2> HIDE DEF coords
  <2>4. QED
    BY <1>0, <2>1, <2>2, <2>3, DeleteBoxes
<1>3. ASSUME process_delete_relations
      PROVE  /\ \E m, skipped : DeleteStep("Relation", m, skipped)
             /\ Boxed("Relation", PlacesOf(tx, "Relation", IdsOf(DeleteList("Relation"))))
  <2> DEFINE ids == IdsOf(DeleteList("Relation"))
             coords == NodeCoords(tx, MemberRefs(tx, "Relation", ids, "Node")
                         \cup MemberRefs(tx, "Way", MemberRefs(tx, "Relation", ids, "Way"), "Node"))
  <2>1. \E m, skipped : DeleteStep("Relation", m, skipped)
    BY <1>3, DeleteRelations
  <2>2. m_bbox' = [m_bbox EXCEPT !["Relation"] = expand(@, extract_bbox(coords))]
    BY <1>3 DEF process_delete_relations, Throws, DeleteList, replace_old_ids_in_relations,
                calc_relation_bbox, MembersBox
  <2>3. coords = PlacesOf(tx, "Relation", IdsOf(DeleteList("Relation")))
    BY DEF PlacesOf
  <2> HIDE DEF coords
  <2>4. QED
    BY <1>0, <2>1, <2>2, <2>3, DeleteBoxes
<1>4. QED
  BY <1>1, <1>2, <1>3

\* The places of members a package of relations adds or removes.
DiffRefs(diff, t, new) == {d.ref : d \in {x \in diff : x.type = t /\ x.new_member = new}}
DiffPlaces(tb, nodes, ways) == NodeCoords(tb, nodes \cup MemberRefs(tb, "Way", ways, "Node"))

PackageFull == relations_with_new_relation_members(tx, packages[package])
                   \cup relations_with_changed_relation_tags(tx, packages[package])
PackagePartial == relations_with_changed_way_node_members(tx, packages[package])
RemovedPlaces == DiffPlaces(tx, DiffRefs(PackagePartial, "Node", FALSE), DiffRefs(PackagePartial, "Way", FALSE))
AddedPlaces == DiffPlaces(tx', DiffRefs(PackagePartial, "Node", TRUE), DiffRefs(PackagePartial, "Way", TRUE))

\* The places by which the box is expanded for the package of a modification.
PackagePlaces(t) ==
    IF t = "Relation"
    THEN (PlacesOf(tx, t, PackageFull) \cup RemovedPlaces) \cup (PlacesOf(tx', t, PackageFull) \cup AddedPlaces)
    ELSE PlacesOf(tx, t, IdsOf(packages[package])) \cup PlacesOf(tx', t, IdsOf(packages[package]))

\* What a package leaves behind.
LEMMA PackageTables ==
    ASSUME UploadInv, NEW t \in Types, PackageStep(t)
    PROVE  LET l == packages[package]
               mid == Updated(tx, t, l)
           IN  /\ FitList(l, t) /\ Listed(l) /\ Unique(l) /\ IdsOf(l) \subseteq Ids
               /\ Sane(tx) /\ tx \in Tables /\ mid \in Tables
               /\ tx'.current = mid.current /\ tx'.members = mid.members
               /\ \A k \in DOMAIN packages : IdsOf(packages[k]) \subseteq Ids
<1> DEFINE l == packages[package]
           mid == Updated(tx, t, l)
<1>1. FitList(l, t) /\ Listed(l) /\ Unique(l) /\ tx' = Saved(mid, t, l)
  BY PackageStepKeeps DEF PackageStep, FitList
<1>2. Sane(tx) /\ tx \in Tables
  BY DEF UploadInv, TablesInv, Sane
<1>3. \A k \in DOMAIN packages : IdsOf(packages[k]) \subseteq Ids
  <2>1. todo # <<>> /\ Head(todo) = [op |-> "package", type |-> t]
    BY DEF PackageStep, Calling
  <2>2. 1 \in DOMAIN todo /\ todo[1].op = "package" /\ todo[1].type = t
    BY <2>1, NoPackageLeft DEF UploadInv
  <2>3. \A k \in DOMAIN packages : Listed(packages[k])
    BY <2>2 DEF UploadInv, PackageInv, PackageFits, FitList
  <2>4. QED
    BY <2>3, ListedIds
<1> HIDE DEF l
<1>4. mid \in Tables /\ IdsOf(l) \subseteq Ids
  BY <1>1, <1>2, BetweenStatements, ListedIds
<1> HIDE DEF mid
<1>5. tx'.current = mid.current /\ tx'.members = mid.members
  BY <1>1, <1>2, <1>4, BetweenStatements
<1>6. QED
  BY <1>1, <1>2, <1>3, <1>4, <1>5 DEF mid, l

LEMMA BoxedLess ==
    ASSUME NEW t, NEW coords, Boxed(t, coords), NEW less, less \subseteq coords
    PROVE  Boxed(t, less)
  BY DEF Boxed

LEMMA NodePackageBoxes ==
    ASSUME UploadInv, m_bbox \in [Types -> bbox_t], scenario' = scenario,
           process_modify_nodes_package, PackageStep("Node")
    PROVE  Boxed("Node", PackagePlaces("Node"))
<1> DEFINE l == packages[package]
           mid == InsertTags(Shown(DeleteTags(tx, "Node", IdsOf(l)), "Node", l), "Node", l)
           before == NodeCoords(tx, IdsOf(l))
           after == NodeCoords(mid, IdsOf(l))
<1>0. "Node" \in Types
  BY DEF Types
<1>1. package \in DOMAIN packages /\ phase' = phase /\ phase = "flushing"
  BY DEF PackageStep, handlerVars, Calling
<1>2. m_bbox' = [m_bbox EXCEPT !["Node"] = expand(expand(@, extract_bbox(before)), extract_bbox(after))]
  <2>1. ~ \E code : Throw(code)
    BY <1>1 DEF Throw
  <2>2. QED
    BY <1>1, <2>1 DEF process_modify_nodes_package, calc_node_bbox, insert_new_current_node_tags,
                update_current_nodes, delete_current_node_tags, Shown
<1>3. /\ FitList(l, "Node") /\ Unique(l) /\ Sane(tx) /\ tx \in Tables /\ IdsOf(l) \subseteq Ids
      /\ Updated(tx, "Node", l) \in Tables
      /\ tx'.current = Updated(tx, "Node", l).current /\ tx'.members = Updated(tx, "Node", l).members
  BY <1>0, PackageTables
<1> HIDE DEF l
<1>4. Updated(tx, "Node", l) = mid
  BY <1>3, NodesBetween
<1> HIDE DEF mid
<1>5. after = NodeCoords(tx', IdsOf(l))
  BY <1>3, <1>4, SamePlaces
<1>6. before \subseteq Coord /\ after \subseteq Coord
  BY <1>3, <1>4, PlacesTyped
<1>7. before \cup after = PackagePlaces("Node")
  BY <1>5 DEF PackagePlaces, PlacesOf, l
<1> HIDE DEF before, after
<1>8. QED
  BY <1>0, <1>2, <1>6, <1>7, BoxedTwice

LEMMA WayPackageBoxes ==
    ASSUME UploadInv, m_bbox \in [Types -> bbox_t], scenario' = scenario,
           process_modify_ways_package, PackageStep("Way")
    PROVE  Boxed("Way", PackagePlaces("Way"))
<1> DEFINE l == packages[package]
           all == UNION {IdsOf(packages[k]) : k \in DOMAIN packages}
           mid == Updated(tx, "Way", l)
           before == NodeCoords(tx, MemberRefs(tx, "Way", IdsOf(l), "Node"))
           after == NodeCoords(mid, MemberRefs(mid, "Way", all, "Node"))
<1>0. "Way" \in Types
  BY DEF Types
<1>1. package \in DOMAIN packages /\ phase' = phase /\ phase = "flushing"
  BY DEF PackageStep, handlerVars, Calling
<1>2. m_bbox' = [m_bbox EXCEPT !["Way"] = expand(expand(@, extract_bbox(before)), extract_bbox(after))]
  <2>1. ~ \E code : Throw(code)
    BY <1>1 DEF Throw
  <2>2. QED
    BY <1>1, <2>1 DEF process_modify_ways_package, calc_way_bbox, insert_new_current_way_tags,
                insert_new_current_way_nodes, update_current_ways, delete_current_way_tags,
                delete_current_way_nodes, Updated, Shown
<1>3. /\ tx \in Tables /\ IdsOf(l) \subseteq Ids /\ mid \in Tables
      /\ tx'.current = mid.current /\ tx'.members = mid.members
  BY <1>0, PackageTables
<1>4. IdsOf(l) \subseteq all
  BY <1>1
<1> HIDE DEF mid, l, all
<1>5. /\ before = PlacesOf(tx, "Way", IdsOf(l))
      /\ after = NodeCoords(tx', MemberRefs(tx', "Way", all, "Node"))
  BY <1>3, SamePlaces DEF PlacesOf
<1>6. PlacesOf(tx', "Way", IdsOf(l)) \subseteq after
  BY <1>4, <1>5 DEF PlacesOf, NodeCoords, MemberRefs
<1>7. before \subseteq Coord /\ after \subseteq Coord
  <2>1. MemberRefs(mid, "Way", all, "Node") \subseteq Ids /\ MemberRefs(tx, "Way", IdsOf(l), "Node") \subseteq Ids
    BY <1>0, <1>3, PlacesTyped
  <2>2. QED
    BY <1>3, <2>1, PlacesTyped
<1> HIDE DEF before, after
<1>8. Boxed("Way", before \cup after)
  BY <1>0, <1>2, <1>7, BoxedTwice
<1>9. PackagePlaces("Way") \subseteq before \cup after
  BY <1>5, <1>6 DEF PackagePlaces, l
<1>10. QED
  BY <1>8, <1>9, BoxedLess

LEMMA BoxedFourTimes ==
    ASSUME m_bbox \in [Types -> bbox_t], NEW t \in Types, NEW c1, c1 \subseteq Coord,
           NEW c2, c2 \subseteq Coord, NEW c3, c3 \subseteq Coord, NEW c4, c4 \subseteq Coord,
           m_bbox' = [m_bbox EXCEPT ![t] = expand(expand(expand(expand(@,
                         extract_bbox(c1)), extract_bbox(c2)), extract_bbox(c3)), extract_bbox(c4))]
    PROVE  Boxed(t, (c1 \cup c2) \cup (c3 \cup c4))
<1> DEFINE b1 == expand(m_bbox[t], extract_bbox(c1))
           b2 == expand(b1, extract_bbox(c2))
           b3 == expand(b2, extract_bbox(c3))
           b4 == expand(b3, extract_bbox(c4))
<1>1. /\ b1 \in bbox_t
      /\ Within(m_bbox[t], b1)
      /\ \A c \in c1 : Covers(b1, c)
  BY ExpandedBy
<1>2. m_bbox' = [m_bbox EXCEPT ![t] = b4]
  OBVIOUS
<1> HIDE DEF b1
<1>3. /\ b2 \in bbox_t
      /\ Within(b1, b2)
      /\ \A c \in c2 : Covers(b2, c)
  BY <1>1, ExpandedBy
<1> HIDE DEF b2
<1>4. /\ b3 \in bbox_t
      /\ Within(b2, b3)
      /\ \A c \in c3 : Covers(b3, c)
  BY <1>3, ExpandedBy
<1> HIDE DEF b3
<1>5. /\ b4 \in bbox_t
      /\ Within(b3, b4)
      /\ \A c \in c4 : Covers(b4, c)
  BY <1>4, ExpandedBy
<1> HIDE DEF b4
<1>6. \A c \in (c1 \cup c2) \cup (c3 \cup c4) : c \in Int
  BY DEF Coord
<1>7. Within(b2, b4) /\ Within(b1, b4)
  BY <1>1, <1>3, <1>4, <1>5, WithinTrans
<1>8. /\ \A c \in (c1 \cup c2) \cup (c3 \cup c4) : Covers(b4, c)
      /\ Within(m_bbox[t], b4)
  <2>1. m_bbox[t] \in bbox_t
    OBVIOUS
  <2>2. Within(m_bbox[t], b4)
    BY <1>1, <1>5, <1>7, <2>1, WithinTrans
  <2>3. \A c \in Int : (Covers(b1, c) \/ Covers(b2, c) \/ Covers(b3, c)) => Covers(b4, c)
    BY <1>1, <1>3, <1>4, <1>5, <1>7, WithinCovers
  <2>4. QED
    BY <1>1, <1>3, <1>4, <1>5, <1>6, <2>2, <2>3
<1>9. QED
  BY <1>2, <1>5, <1>8 DEF Boxed

LEMMA DiffTyped ==
    ASSUME NEW tb \in Tables, NEW l, Listed(l)
    PROVE  /\ \A d \in relations_with_changed_way_node_members(tb, l) : d.ref \in Ids
           /\ relations_with_new_relation_members(tb, l)
                \cup relations_with_changed_relation_tags(tb, l) \subseteq IdsOf(l)
<1>1. \A i \in DOMAIN l : l[i].members \in Seq([type: Types, ref: Ids])
  BY DEF Listed, Resolved
<1>2. \A i \in DOMAIN l : \A k \in DOMAIN l[i].members : l[i].members[k].ref \in Ids
  <2>1. \A i \in DOMAIN l : \A k \in DOMAIN l[i].members : l[i].members[k] \in [type: Types, ref: Ids]
    BY <1>1, SeqElement, Zenon
  <2>2. QED
    BY <2>1
<1>3. \A r \in tb.members["Relation"] : r.ref \in Ids
  BY TablesFields DEF MemberRow, Types
<1>4. \A d \in relations_with_changed_way_node_members(tb, l) : d.ref \in Ids
  BY <1>2, <1>3 DEF relations_with_changed_way_node_members
<1>5. QED
  BY <1>4 DEF relations_with_new_relation_members, relations_with_changed_relation_tags, IdsOf

LEMMA RelationPackageBoxes ==
    ASSUME UploadInv, m_bbox \in [Types -> bbox_t], scenario' = scenario,
           process_modify_relations_package, PackageStep("Relation")
    PROVE  Boxed("Relation", PackagePlaces("Relation"))
<1> DEFINE l == packages[package]
           mid == Updated(tx, "Relation", l)
           full == PackageFull
           diff == PackagePartial
           NodeRefs(tb) == MemberRefs(tb, "Relation", full, "Node")
           WayRefs(tb) == MemberRefs(tb, "Relation", full, "Way")
           n0 == DiffRefs(diff, "Node", FALSE)
           w0 == DiffRefs(diff, "Way", FALSE)
           n1 == DiffRefs(diff, "Node", TRUE)
           w1 == DiffRefs(diff, "Way", TRUE)
           c1 == DiffPlaces(tx, NodeRefs(tx), WayRefs(tx))
           c2 == DiffPlaces(tx, n0, w0)
           c3 == DiffPlaces(mid, NodeRefs(mid), WayRefs(mid))
           c4 == DiffPlaces(mid, n1, w1)
<1>0. "Relation" \in Types /\ "Way" \in Types
  BY DEF Types
<1>1. package \in DOMAIN packages /\ phase' = phase /\ phase = "flushing"
  BY DEF PackageStep, handlerVars, Calling
<1>2. m_bbox' = [m_bbox EXCEPT !["Relation"] = expand(expand(expand(expand(@,
                         extract_bbox(c1)), extract_bbox(c2)), extract_bbox(c3)), extract_bbox(c4))]
  <2>1. ~ \E code : Throw(code)
    BY <1>1 DEF Throw
  <2>2. calc_relation_bbox(tx, full) = extract_bbox(c1) /\ calc_relation_bbox(mid, full) = extract_bbox(c3)
    BY DEF calc_relation_bbox, MembersBox, DiffPlaces
  <2>3. calc_rel_member_difference_bbox(tx, diff, FALSE) = extract_bbox(c2)
    BY DEF calc_rel_member_difference_bbox, MembersBox, DiffPlaces, DiffRefs
  <2>4. calc_rel_member_difference_bbox(mid, diff, TRUE) = extract_bbox(c4)
    BY DEF calc_rel_member_difference_bbox, MembersBox, DiffPlaces, DiffRefs
  <2>5. m_bbox' = [m_bbox EXCEPT !["Relation"] =
                 expand(expand(expand(expand(@,
                     calc_relation_bbox(tx, full)),
                     calc_rel_member_difference_bbox(tx, diff, FALSE)),
                     calc_relation_bbox(mid, full)),
                     calc_rel_member_difference_bbox(mid, diff, TRUE))]
    BY <1>1, <2>1 DEF process_modify_relations_package, insert_new_current_relation_tags,
                insert_new_current_relation_members, update_current_relations,
                delete_current_relation_tags, delete_current_relation_members, Updated, Shown,
                PackageFull, PackagePartial
  <2>6. QED
    BY <2>2, <2>3, <2>4, <2>5
<1>3. /\ tx \in Tables /\ IdsOf(l) \subseteq Ids /\ mid \in Tables /\ Listed(l)
      /\ tx'.current = mid.current /\ tx'.members = mid.members
  BY <1>0, PackageTables
<1>4. (\A d \in diff : d.ref \in Ids) /\ full \subseteq Ids
  BY <1>3, DiffTyped DEF PackageFull, PackagePartial
<1>5. n0 \subseteq Ids /\ w0 \subseteq Ids /\ n1 \subseteq Ids /\ w1 \subseteq Ids
  BY <1>4 DEF DiffRefs
<1> HIDE DEF mid, l, full, diff, n0, n1, w0, w1
<1>6. c1 = PlacesOf(tx, "Relation", full) /\ c3 = PlacesOf(mid, "Relation", full)
  BY DEF PlacesOf, DiffPlaces
<1>7. PlacesOf(mid, "Relation", full) = PlacesOf(tx', "Relation", full)
  BY <1>0, <1>3, SamePlaces
<1>8. c4 = DiffPlaces(tx', n1, w1)
  <2>1. MemberRefs(mid, "Way", w1, "Node") = MemberRefs(tx', "Way", w1, "Node")
    BY <1>3, SamePlaces
  <2>2. QED
    BY <2>1, <1>3, SamePlaces DEF DiffPlaces
<1>9. c1 \subseteq Coord /\ c3 \subseteq Coord
  BY <1>0, <1>3, <1>4, <1>6, PlacesTyped
<1>10. ASSUME NEW tb \in Tables, NEW n, n \subseteq Ids, NEW w PROVE DiffPlaces(tb, n, w) \subseteq Coord
  <2>1. n \cup MemberRefs(tb, "Way", w, "Node") \subseteq Ids
    BY <1>0, <1>10, PlacesTyped
  <2>2. QED
    BY <2>1, PlacesTyped DEF DiffPlaces
<1>11. c2 \subseteq Coord /\ c4 \subseteq Coord
  BY <1>3, <1>5, <1>10
<1> HIDE DEF c1, c2, c3, c4
<1>12. Boxed("Relation", (c1 \cup c2) \cup (c3 \cup c4))
  BY <1>0, <1>2, <1>9, <1>11, BoxedFourTimes
<1>13. (c1 \cup c2) \cup (c3 \cup c4) = PackagePlaces("Relation")
  BY <1>6, <1>7, <1>8 DEF PackagePlaces, RemovedPlaces, AddedPlaces, c2, c4, n0, n1, w0, w1, full, diff
<1>14. QED
  BY <1>12, <1>13

-----------------------------------------------------------------------------
(* What a call of process_* does, when it throws nothing: it writes one     *)
(* list of elements, reports them and extends the box of its updater, or it *)
(* leaves tables, reports and boxes alone.                                  *)

Creates(t) == CreateStep(t) /\ Boxed(t, PlacesOf(tx', t, IdsOf(CreateList(t))))
Modifies(t) == PackageStep(t) /\ Boxed(t, PackagePlaces(t))
Deletes(t) == /\ \E m, skipped : DeleteStep(t, m, skipped)
              /\ Boxed(t, PlacesOf(tx, t, IdsOf(DeleteList(t))))
WritesNothing(t) == (ModifyStep(t) \/ LoopEnd(t)) /\ m_bbox' = m_bbox

LEMMA ProcessCases ==
    ASSUME UploadInv, m_bbox \in [Types -> bbox_t], Process, scenario' = scenario, ~Throws
    PROVE  \E t \in Types : Creates(t) \/ Modifies(t) \/ Deletes(t) \/ WritesNothing(t)
<1>0. "Node" \in Types /\ "Way" \in Types /\ "Relation" \in Types
  BY DEF Types
<1>1. CASE process_new_nodes \/ process_new_ways \/ process_new_relations
  BY <1>1, <1>0, NewBoxes DEF Creates
<1>2. CASE process_modify_nodes \/ process_modify_ways \/ process_modify_relations
  <2>1. CASE process_modify_nodes
    <3>1. m_bbox' = m_bbox
      BY <2>1 DEF process_modify_nodes, Throws
    <3>2. QED
      BY <3>1, <2>1, <1>0, ModifyNodes DEF WritesNothing
  <2>2. CASE process_modify_ways
    <3>1. m_bbox' = m_bbox
      BY <2>2 DEF process_modify_ways, Throws
    <3>2. QED
      BY <3>1, <2>2, <1>0, ModifyWays DEF WritesNothing
  <2>3. CASE process_modify_relations
    <3>1. m_bbox' = m_bbox
      BY <2>3 DEF process_modify_relations, Throws
    <3>2. QED
      BY <3>1, <2>3, <1>0, ModifyRelations DEF WritesNothing
  <2>4. QED
    BY <1>2, <2>1, <2>2, <2>3
<1>3. CASE process_modify_nodes_package
  <2>1. LoopEnd("Node") => m_bbox' = m_bbox
    BY <1>3 DEF process_modify_nodes_package, Throws, LoopEnd
  <2>2. QED
    BY <2>1, <1>3, <1>0, NodePackage, NodePackageBoxes DEF WritesNothing, Modifies
<1>4. CASE process_modify_ways_package
  <2>1. LoopEnd("Way") => m_bbox' = m_bbox
    BY <1>4 DEF process_modify_ways_package, Throws, LoopEnd
  <2>2. QED
    BY <2>1, <1>4, <1>0, WayPackage, WayPackageBoxes DEF WritesNothing, Modifies
<1>5. CASE process_modify_relations_package
  <2>1. LoopEnd("Relation") => m_bbox' = m_bbox
    BY <1>5 DEF process_modify_relations_package, Throws, LoopEnd
  <2>2. QED
    BY <2>1, <1>5, <1>0, RelationPackage, RelationPackageBoxes DEF WritesNothing, Modifies
<1>6. CASE process_delete_nodes \/ process_delete_ways \/ process_delete_relations
  BY <1>6, <1>0, DeletedBoxes DEF Deletes
<1>7. QED
  BY <1>1, <1>2, <1>3, <1>4, <1>5, <1>6 DEF Process

\* A step of an upload writes in one of these ways, starts afresh after an
\* exception, commits, or leaves the tables, the reports and the boxes alone.
Commit ==
    /\ phase = "finishing"
    /\ AllProcessed(ct) = OK
    /\ ~(num_new_changes(ct) > scenario.rate_limit)
    /\ within_max_elements(cs, num_new_changes(ct))
    /\ cs' = update_changeset(cs, num_new_changes(ct), get_bbox, 0)
    /\ cs'.bbox # undefined_bbox => ~(linear_size(cs'.bbox) > scenario.bbox_size_limit)
    /\ db' = tx /\ tx' = tx /\ FreshSession /\ scenario' = scenario
    /\ response' = [code |-> OK, diffresult |-> assemble_diffresult(ct)]
Aborts == Throws /\ scenario' = scenario
Writes == \E t \in Types : Creates(t) \/ Modifies(t) \/ Deletes(t)
Rests ==
    /\ db' = db /\ cs' = cs /\ tx' = tx /\ m_bbox' = m_bbox /\ scenario' = scenario
    /\ ct' = ct \/ \E s : ct' = [ct EXCEPT !.orig_sequence = s]

LEMMA CommitCases ==
    ASSUME finish_upload, scenario' = scenario, ~Throws
    PROVE  Commit
<1> DEFINE num == num_new_changes(ct)
           updated == update_changeset(cs, num, get_bbox, 0)
           sizeError == bbox_size_check(updated.bbox)
           limitError == Then(update_changeset_check(num), sizeError)
           rateError == Then(rate_limit_check(num), limitError)
           error == Then(AllProcessed(ct), rateError)
<1>1. /\ phase = "finishing" /\ error = OK
      /\ db' = tx /\ cs' = updated /\ tx' = tx /\ FreshSession
      /\ response' = [code |-> OK, diffresult |-> assemble_diffresult(ct)]
  BY DEF finish_upload, Throws
<1> HIDE DEF num, updated, sizeError
<1>2. /\ AllProcessed(ct) = OK /\ rate_limit_check(num) = OK
      /\ update_changeset_check(num) = OK /\ sizeError = OK
  <2>1. AllProcessed(ct) = OK /\ rateError = OK
    BY <1>1, AllOK
  <2>2. rate_limit_check(num) = OK /\ limitError = OK
    BY <2>1, AllOK
  <2>3. QED
    BY <2>1, <2>2, AllOK
<1>3. ~(num > scenario.rate_limit)
  BY <1>2 DEF rate_limit_check, OK, too_many_requests
<1>4. within_max_elements(cs, num)
  BY <1>2 DEF update_changeset_check, OK, conflict
<1>5. updated.bbox # undefined_bbox => ~(linear_size(updated.bbox) > scenario.bbox_size_limit)
  BY <1>2 DEF sizeError, bbox_size_check, OK, payload_too_large
<1>6. cs'.bbox # undefined_bbox => ~(linear_size(cs'.bbox) > scenario.bbox_size_limit)
  BY <1>1, <1>5
<1>7. QED
  BY <1>1, <1>2, <1>3, <1>4, <1>6 DEF Commit, num, updated

LEMMA StepCases ==
    ASSUME UploadInv, m_bbox \in [Types -> bbox_t], [Next]_upload_vars
    PROVE  Commit \/ Aborts \/ Writes \/ Rests
<1>1. ASSUME NEW e, process_element(e), scenario' = scenario PROVE Aborts \/ Rests
  BY <1>1 DEF process_element, Aborts, Throws, Rests, handle_new_state
<1>2. CASE end_document /\ scenario' = scenario
  BY <1>2 DEF end_document, Rests, handle_new_state
<1>3. CASE complete_transition /\ scenario' = scenario
  BY <1>3 DEF complete_transition, Rests
<1>4. CASE Process /\ scenario' = scenario
  <2>1. SUFFICES ASSUME ~Throws PROVE Writes \/ Rests
    BY <1>4 DEF Aborts
  <2>2. PICK t \in Types : Creates(t) \/ Modifies(t) \/ Deletes(t) \/ WritesNothing(t)
    BY <1>4, <2>1, ProcessCases
  <2>3. WritesNothing(t) => Rests
    BY DEF WritesNothing, ModifyStep, LoopEnd, Rests, handlerVars
  <2>4. QED
    BY <2>2, <2>3 DEF Writes
<1>5. CASE finish_upload /\ scenario' = scenario
  BY <1>5, CommitCases DEF Aborts
<1>6. CASE begin_upload /\ scenario' = scenario
  BY <1>6 DEF begin_upload, Rests
<1>7. CASE (parse_error \/ upload_fails) /\ scenario' = scenario
  BY <1>7 DEF parse_error, upload_fails, Aborts, Throws
<1>8. CASE UNCHANGED <<vars, scenario>>
  BY <1>8 DEF vars, sessionVars, Rests
<1>9. QED
  BY <1>1, <1>2, <1>3, <1>4, <1>5, <1>6, <1>7, <1>8
     DEF Next, Serve, no_more_requests, upload_vars

-----------------------------------------------------------------------------
(* The changeset counts what it has written.                               *)

BoxInv == m_bbox \in [Types -> bbox_t] /\ cs \in Changeset

ChangesInv ==
    /\ \A t \in Types : scenario.tables.history[t] \subseteq db.history[t]
    /\ NumChangesExact

CountingInv == UploadInv /\ current_state \in States /\ CountInv /\ BoxInv /\ ChangesInv

LEMMA InitCounting == ASSUME Init PROVE CountingInv
<1>1. UploadInv /\ current_state \in States
  BY InitKeeps DEF Init, States
<1>2. BoxInv
  BY TimeoutAssumption DEF Init, BoxInv, changeset_insert_cs, Changeset, bbox_t, undefined_bbox
<1>3. CountInv
  <2>1. /\ ct = NoTracking /\ tx = db
    BY DEF Init
  <2>2. \A t \in Types : /\ ct.created[t] = {} /\ ct.modified[t] = {} /\ ct.deleted[t] = {}
                         /\ Added(db, tx, t) = {}
    BY <2>1 DEF NoTracking, Added
  <2>3. ct.modified \in [Types -> SUBSET Mapping] /\ ct.deleted \in [Types -> SUBSET Mapping]
    BY <2>1 DEF NoTracking
  <2>4. IsFiniteSet({}) /\ Cardinality({}) = 0
    BY FS_EmptySet
  <2>5. ASSUME NEW t \in Types PROVE Reports(ct, t) = 0
    <3>1. /\ Cardinality(ct.created[t]) = 0 /\ Cardinality(ct.modified[t]) = 0
          /\ Cardinality(ct.deleted[t]) = 0
      BY <2>2, <2>4, Zenon
    <3>2. QED
      BY <3>1 DEF Reports
  <2>6. \A t \in Types : Cardinality(Added(db, tx, t)) = Reports(ct, t)
    BY <2>2, <2>4, <2>5, Zenon
  <2>7. QED
    BY <2>2, <2>3, <2>4, <2>6 DEF CountInv
<1>4. ChangesInv
  <2>1. db = scenario.tables /\ cs.num_changes = 0
    BY DEF Init, changeset_insert_cs
  <2>2. \A t \in Types : NewHistory(t) = {}
    BY <2>1 DEF NewHistory
  <2>3. Cardinality({}) = 0
    BY FS_EmptySet
  <2>4. NumChangesExact
    BY <2>1, <2>2, <2>3, MaxElementsAssumption DEF NumChangesExact, Types
  <2>5. QED
    BY <2>1, <2>4 DEF ChangesInv
<1>5. QED
  BY <1>1, <1>2, <1>3, <1>4 DEF CountingInv

LEMMA CommitCounts ==
    ASSUME CountingInv, Commit
    PROVE  /\ BoxInv' /\ ChangesInv'
           /\ \A t \in Types : /\ IsFiniteSet(db.history[t]) /\ IsFiniteSet(db'.history[t])
                               /\ Cardinality(db'.history[t]) = Cardinality(db.history[t]) + Reports(ct, t)
                               /\ Reports(ct, t) \in Nat
           /\ num_new_changes(ct) = Reports(ct, "Node") + Reports(ct, "Way") + Reports(ct, "Relation")
<1> DEFINE num == num_new_changes(ct)
<1>0. "Node" \in Types /\ "Way" \in Types /\ "Relation" \in Types
  BY DEF Types
<1>1. num = Reports(ct, "Node") + Reports(ct, "Way") + Reports(ct, "Relation")
  BY DEF num_new_changes, Reports
<1>2. \A t \in Types : /\ Reports(ct, t) \in Nat /\ Cardinality(Added(db, tx, t)) = Reports(ct, t)
                       /\ IsFiniteSet(tx.history[t]) /\ db.history[t] \subseteq tx.history[t]
                       /\ scenario.tables.history[t] \subseteq db.history[t]
  <2>1. \A t \in Types : /\ IsFiniteSet(ct.created[t]) /\ IsFiniteSet(ct.modified[t])
                         /\ IsFiniteSet(ct.deleted[t])
                         /\ Cardinality(Added(db, tx, t)) = Reports(ct, t)
    BY DEF CountingInv, CountInv
  <2>2. \A t \in Types : Reports(ct, t) \in Nat
    BY <2>1, FS_CardinalityType DEF Reports
  <2>3. \A t \in Types : IsFiniteSet(tx.history[t]) /\ db.history[t] \subseteq tx.history[t]
    BY DEF CountingInv, UploadInv, TablesInv, Sane, Regular, Grows
  <2>4. QED
    BY <2>1, <2>2, <2>3 DEF CountingInv, ChangesInv
<1>3. num \in Nat
  BY <1>0, <1>1, <1>2
<1>4. \A t \in Types :
        /\ IsFiniteSet(db.history[t])
        /\ Cardinality(tx.history[t]) = Cardinality(db.history[t]) + Reports(ct, t)
  <2> SUFFICES ASSUME NEW t \in Types
               PROVE  /\ IsFiniteSet(db.history[t])
                      /\ Cardinality(tx.history[t]) = Cardinality(db.history[t]) + Reports(ct, t)
    OBVIOUS
  <2>1. IsFiniteSet(db.history[t]) /\ IsFiniteSet(Added(db, tx, t))
    BY <1>2, FS_Subset DEF Added
  <2>2. db.history[t] \cup Added(db, tx, t) = tx.history[t] /\ db.history[t] \cap Added(db, tx, t) = {}
    BY <1>2 DEF Added
  <2>3. QED
    BY <2>1, <2>2, <1>2, SizeOfBoth
<1>5. \A t \in Types : Cardinality(NewHistory(t)') = Cardinality(NewHistory(t)) + Reports(ct, t)
  <2> SUFFICES ASSUME NEW t \in Types
               PROVE  Cardinality(NewHistory(t)') = Cardinality(NewHistory(t)) + Reports(ct, t)
    OBVIOUS
  <2>1. db' = tx /\ scenario' = scenario
    BY DEF Commit
  <2>2. /\ NewHistory(t)' = NewHistory(t) \cup Added(db, tx, t)
        /\ NewHistory(t) \cap Added(db, tx, t) = {}
        /\ NewHistory(t) \subseteq db.history[t] /\ Added(db, tx, t) \subseteq tx.history[t]
    BY <2>1, <1>2 DEF NewHistory, Added
  <2>3. IsFiniteSet(NewHistory(t)) /\ IsFiniteSet(Added(db, tx, t))
    BY <1>2, <1>4, <2>2, FS_Subset
  <2>4. QED
    BY <2>2, <2>3, <1>2, SizeOfBoth
<1>6. \A t \in Types : Cardinality(NewHistory(t)) \in Nat
  <2>1. \A t \in Types : NewHistory(t) \subseteq db.history[t]
    BY DEF NewHistory
  <2>2. QED
    BY <2>1, <1>4, FS_Subset, FS_CardinalityType
<1>7. BoxInv'
  <2>1. cs \in Changeset /\ m_bbox \in [Types -> bbox_t]
    BY DEF CountingInv, BoxInv
  <2>2. get_bbox \in bbox_t
    BY <2>1, <1>0, ExpandCovers DEF get_bbox, undefined_bbox, bbox_t
  <2>3. cs.bbox \in bbox_t /\ cs.num_changes \in Nat /\ cs.created_at \in Int /\ cs.closed_at \in Int
    BY <2>1 DEF Changeset
  <2>4. expand(cs.bbox, get_bbox) \in bbox_t
    BY <2>2, <2>3, ExpandCovers
  <2>5. update_closed_at(cs, 0) \in Int
    BY <2>3, TimeoutAssumption DEF update_closed_at
  <2> DEFINE n == cs.num_changes + num
             b == expand(cs.bbox, get_bbox)
             c == update_closed_at(cs, 0)
  <2>6. cs' = [cs EXCEPT !.num_changes = n, !.bbox = b, !.closed_at = c]
    BY DEF Commit, update_changeset
  <2>7. cs' \in Changeset
    <3> HIDE DEF num
    <3>1. n \in Nat /\ b \in bbox_t /\ c \in Int
      BY <2>3, <2>4, <2>5, <1>3
    <3> HIDE DEF n, b, c
    <3>2. QED
      BY <2>1, <2>6, <3>1 DEF Changeset
  <2>8. m_bbox' \in [Types -> bbox_t]
    BY DEF Commit, FreshSession, undefined_bbox, bbox_t
  <2>9. QED
    BY <2>7, <2>8 DEF BoxInv
<1>8. ChangesInv'
  <2>1. /\ cs.num_changes = Cardinality(NewHistory("Node")) + Cardinality(NewHistory("Way"))
                            + Cardinality(NewHistory("Relation"))
        /\ cs.num_changes \in Nat /\ cs \in Changeset
    BY DEF CountingInv, ChangesInv, NumChangesExact, BoxInv, Changeset
  <2>2. cs'.num_changes = cs.num_changes + num /\ cs.num_changes + num <= changeset_max_elements
    BY <2>1 DEF Commit, update_changeset, within_max_elements, Changeset
  <2> HIDE DEF num
  <2>3. cs'.num_changes = Cardinality(NewHistory("Node")') + Cardinality(NewHistory("Way")')
                            + Cardinality(NewHistory("Relation")')
    BY <2>1, <2>2, <1>0, <1>1, <1>2, <1>5, <1>6
  <2>4. NumChangesExact'
    BY <2>2, <2>3 DEF NumChangesExact
  <2>5. \A t \in Types : scenario'.tables.history[t] \subseteq db'.history[t]
    BY <1>2 DEF Commit
  <2>6. QED
    BY <2>4, <2>5 DEF ChangesInv
<1>9. db' = tx
  BY DEF Commit
<1>10. QED
  BY <1>1, <1>2, <1>4, <1>7, <1>8, <1>9

LEMMA CountingKept ==
    ASSUME CountingInv, [Next]_upload_vars
    PROVE  CountingInv'
<1>1. UploadInv' /\ current_state' \in States
  BY StepKeeps DEF CountingInv
<1>2. UploadInv /\ CountInv /\ m_bbox \in [Types -> bbox_t]
  BY DEF CountingInv, BoxInv
<1>3. CASE Commit
  <2>1. CountInv'
    BY <1>3, FreshCounts DEF Commit
  <2>2. QED
    BY <1>1, <1>3, <2>1, CommitCounts DEF CountingInv
<1>4. CASE Aborts
  <2>1. /\ FreshSession /\ tx' = db' /\ db' = db /\ cs' = cs /\ scenario' = scenario
    BY <1>4 DEF Aborts, Throws, Throw
  <2>2. CountInv'
    BY <2>1, FreshCounts
  <2>3. BoxInv'
    BY <2>1 DEF CountingInv, BoxInv, FreshSession, undefined_bbox, bbox_t
  <2>4. ChangesInv'
    BY <2>1 DEF CountingInv, ChangesInv, NumChangesExact, NewHistory
  <2>5. QED
    BY <1>1, <2>2, <2>3, <2>4 DEF CountingInv
<1>5. CASE Writes
  <2>1. PICK t \in Types : Creates(t) \/ Modifies(t) \/ Deletes(t)
    BY <1>5 DEF Writes
  <2>2. CountInv'
    BY <2>1, <1>2, CreateCounts, PackageCounts, DeleteCounts DEF Creates, Modifies, Deletes
  <2>3. db' = db /\ cs' = cs /\ scenario' = scenario
    BY <2>1 DEF Creates, Modifies, Deletes, CreateStep, PackageStep, DeleteStep, handlerVars
  <2>4. m_bbox' \in [Types -> bbox_t]
    BY <2>1 DEF Creates, Modifies, Deletes, Boxed
  <2>5. BoxInv' /\ ChangesInv'
    BY <2>3, <2>4 DEF CountingInv, BoxInv, ChangesInv, NumChangesExact, NewHistory
  <2>6. QED
    BY <1>1, <2>2, <2>5 DEF CountingInv
<1>6. CASE Rests
  <2>1. /\ ct'.created = ct.created /\ ct'.modified = ct.modified /\ ct'.deleted = ct.deleted
    <3>1. {"created", "modified", "deleted"} \subseteq DOMAIN ct
      BY <1>2 DEF UploadInv, PlaceholderInv, TrackingFields
    <3>2. QED
      BY <1>6, <3>1 DEF Rests
  <2>2. /\ db' = db /\ cs' = cs /\ tx' = tx /\ m_bbox' = m_bbox /\ scenario' = scenario
    BY <1>6 DEF Rests
  <2>3. CountInv'
    BY <1>2, <2>1, <2>2 DEF CountInv, Reports
  <2>4. BoxInv' /\ ChangesInv'
    BY <2>2 DEF CountingInv, BoxInv, ChangesInv, NumChangesExact, NewHistory
  <2>5. QED
    BY <1>1, <2>3, <2>4 DEF CountingInv
<1>7. QED
  BY <1>2, <1>3, <1>4, <1>5, <1>6, StepCases

\* The tables added to, the reports of the updaters and the row of the
\* changeset agree in every state.
THEOREM CountingInvariant == Spec => []CountingInv
<1>1. Init => CountingInv
  BY InitCounting
<1>2. CountingInv /\ [Next]_upload_vars => CountingInv'
  BY CountingKept
<1>3. QED
  BY <1>1, <1>2, PTL DEF Spec

\* NumChangesExact, for every database, every document and any number of
\* uploads: changesets.num_changes is the number of element versions the
\* changeset has written (get_stats() counts each created, modified and
\* deleted element once, also when one document writes an element several
\* times, skipped deletes are not counted, and failed uploads leave no trace),
\* and it never exceeds the limit on the elements of a changeset.
THEOREM NumChangesAlwaysExact == Spec => []NumChangesExact
<1>1. CountingInv => NumChangesExact
  BY DEF CountingInv, ChangesInv
<1>2. QED
  BY <1>1, CountingInvariant, PTL

\* LimitsRespected: an upload that is committed has written no more element
\* versions than the user's rate limit allows, and the box the changeset has
\* then is within the size limit (the two checks of changeset_upload_responder
\* before the commit).
THEOREM LimitsAlwaysRespected == Spec => LimitsRespected
<1> DEFINE A == phase = "finishing" /\ cs' # cs =>
                  /\ Cardinality(db'.history["Node"]) + Cardinality(db'.history["Way"])
                         + Cardinality(db'.history["Relation"])
                     <= Cardinality(db.history["Node"]) + Cardinality(db.history["Way"])
                          + Cardinality(db.history["Relation"]) + scenario.rate_limit
                  /\ cs'.bbox # undefined_bbox => linear_size(cs'.bbox) <= scenario.bbox_size_limit
<1>1. CountingInv /\ [Next]_upload_vars => A
  <2> SUFFICES ASSUME CountingInv, [Next]_upload_vars, phase = "finishing", cs' # cs
               PROVE  /\ Cardinality(db'.history["Node"]) + Cardinality(db'.history["Way"])
                            + Cardinality(db'.history["Relation"])
                         <= Cardinality(db.history["Node"]) + Cardinality(db.history["Way"])
                              + Cardinality(db.history["Relation"]) + scenario.rate_limit
                      /\ cs'.bbox # undefined_bbox => linear_size(cs'.bbox) <= scenario.bbox_size_limit
    OBVIOUS
  <2>1. Commit
    <3>1. Commit \/ Aborts \/ Writes \/ Rests
      BY StepCases DEF CountingInv, BoxInv
    <3>2. ~Aborts /\ ~Rests
      BY DEF Aborts, Throws, Throw, Rests
    <3>3. ~Writes
      BY DEF Writes, Creates, Modifies, Deletes, CreateStep, PackageStep, DeleteStep, handlerVars
    <3>4. QED
      BY <3>1, <3>2, <3>3
  <2>2. /\ "Node" \in Types /\ "Way" \in Types /\ "Relation" \in Types
        /\ scenario.rate_limit \in Nat /\ scenario.bbox_size_limit \in Nat
    BY ScenariosAssumption DEF Types, CountingInv, UploadInv, PendingInv
  <2>3. \A t \in Types : /\ Cardinality(db'.history[t]) = Cardinality(db.history[t]) + Reports(ct, t)
                         /\ Reports(ct, t) \in Nat /\ Cardinality(db.history[t]) \in Nat
    BY <2>1, CommitCounts, FS_CardinalityType
  <2>4. Reports(ct, "Node") + Reports(ct, "Way") + Reports(ct, "Relation") <= scenario.rate_limit
    <3>1. /\ num_new_changes(ct) = Reports(ct, "Node") + Reports(ct, "Way") + Reports(ct, "Relation")
          /\ ~(num_new_changes(ct) > scenario.rate_limit)
      BY <2>1, CommitCounts DEF Commit
    <3>2. QED
      BY <3>1, <2>2, <2>3
  <2>5. cs'.bbox # undefined_bbox => linear_size(cs'.bbox) <= scenario.bbox_size_limit
    <3>1. cs'.bbox \in bbox_t
      BY <2>1, CommitCounts DEF BoxInv, Changeset
    <3>2. linear_size(cs'.bbox) \in Int
      BY <3>1 DEF linear_size, bbox_t
    <3>3. QED
      BY <3>2, <2>1, <2>2 DEF Commit
  <2>6. QED
    BY <2>2, <2>3, <2>4, <2>5
<1>2. QED
  BY <1>1, CountingInvariant, PTL DEF Spec, LimitsRespected, upload_vars

-----------------------------------------------------------------------------
(* The box of the changeset.  What an upload has written so far is covered *)
(* by the box of the changeset together with the boxes of its updaters.    *)

NodesCovered(base, tb, b) ==
    \A h \in Added(base, tb, "Node") : \A g \in tb.history["Node"] :
        g.id = h.id /\ g.version \in {h.version - 1, h.version} => Covers(b, g.loc)

PlaceOf(tb, id) == tb.current["Node"][id].loc

WaysCovered(base, tb, b) ==
    \A h \in Added(base, tb, "Way") : \A m \in tb.history_members["Way"] :
        m.id = h.id /\ m.version \in {h.version - 1, h.version} => Covers(b, PlaceOf(tb, m.ref))

\* A member of a relation: a node, or the nodes a way has now.
RefCovered(tb, b, t, ref) ==
    /\ t = "Node" => Covers(b, PlaceOf(tb, ref))
    /\ t = "Way" => \A w \in tb.members["Way"] : w.id = ref => Covers(b, PlaceOf(tb, w.ref))

\* The members of a version of a relation, and those of them that another
\* version does not have.
HasMember(tb, id, v, t, ref) ==
    \E m \in tb.history_members["Relation"] : m.id = id /\ m.version = v /\ m.type = t /\ m.ref = ref
NewMember(tb, id, v, u, t, ref) == HasMember(tb, id, v, t, ref) /\ ~HasMember(tb, id, u, t, ref)

RelationsCovered(base, tb, b) ==
    \A h \in Added(base, tb, "Relation") :
        /\ \A t \in Types, ref \in Ids :
             NewMember(tb, h.id, h.version, h.version - 1, t, ref) => RefCovered(tb, b, t, ref)
        /\ (\E ref \in Ids : NewMember(tb, h.id, h.version, h.version - 1, "Relation", ref)) =>
             \A t \in Types, ref \in Ids : HasMember(tb, h.id, h.version, t, ref) => RefCovered(tb, b, t, ref)
        /\ ~h.visible =>
             \A t \in Types, ref \in Ids : HasMember(tb, h.id, h.version - 1, t, ref) => RefCovered(tb, b, t, ref)

AllCovered(base, tb, b) ==
    NodesCovered(base, tb, b) /\ WaysCovered(base, tb, b) /\ RelationsCovered(base, tb, b)

TotalBox == expand(cs.bbox, get_bbox)

CoveredInv ==
    /\ AllCovered(scenario.tables, db, cs.bbox)
    /\ AllCovered(scenario.tables, tx, TotalBox)

\* What a write does to the history: the rows it adds, and that nothing is
\* added to versions that were there.
HistoryWritten(base, tb, nt, t, l, rw) ==
    /\ nt \in Tables /\ tb \in Tables
    /\ \A h \in Added(base, nt, t) :
         h \in Added(base, tb, t) \/ \E i \in DOMAIN l : h = HistoryRowOf(l[i], rw[i])
    /\ \A h \in tb.history[t] : /\ h.id \in Ids /\ h.version \in Nat
                               /\ h.version <= tb.current[t][h.id].version
    /\ \A i \in DOMAIN l : /\ l[i].id \in Ids /\ rw[i] \in Row
                          /\ tb.current[t][l[i].id].version \in Nat
                          /\ rw[i].version = tb.current[t][l[i].id].version + 1
    /\ \A m \in nt.history_members[t] :
         m.version <= tb.current[t][m.id].version => m \in tb.history_members[t]
    /\ \A m \in nt.history_members[t] :
         \/ m \in tb.history_members[t] /\ m.version <= tb.current[t][m.id].version
         \/ \E i \in DOMAIN l : \E k \in DOMAIN l[i].members : m = HistoryMemberRowOf(l[i], rw[i], k)
    /\ tb.history_members[t] \subseteq nt.history_members[t]
    /\ \A m \in nt.history_members[t] : m.id \in Ids /\ m.version \in Nat

LEMMA WriteHistory ==
    ASSUME NEW base, NEW tb, Sane(tb), NEW nt, NEW t \in Types, NEW l, NEW rw,
           GoodWrite(tb, nt, t, l, rw)
    PROVE  HistoryWritten(base, tb, nt, t, l, rw)
<1>1. tb \in Tables /\ Rewritten(tb, nt, t, l, rw) /\ GoodRows(tb, t, l, rw) /\ Regular(tb)
  BY DEF Sane, GoodWrite
<1>2. /\ nt \in Tables
      /\ \A r : r \in nt.history[t] <=>
           r \in tb.history[t] \/ \E i \in DOMAIN l : r = HistoryRowOf(l[i], rw[i])
      /\ \A r : r \in nt.history_members[t] <=>
           \/ r \in tb.history_members[t]
           \/ \E i \in DOMAIN l : \E k \in DOMAIN l[i].members : r = HistoryMemberRowOf(l[i], rw[i], k)
  BY <1>1 DEF Rewritten, CurrentRewritten, HistoryExtended
<1>3. /\ \A h \in Added(base, nt, t) :
           h \in Added(base, tb, t) \/ \E i \in DOMAIN l : h = HistoryRowOf(l[i], rw[i])
      /\ tb.history_members[t] \subseteq nt.history_members[t]
  BY <1>2 DEF Added
<1>4. \A i \in DOMAIN l : /\ l[i].id \in Ids /\ rw[i] \in Row
                          /\ tb.current[t][l[i].id].version \in Nat
                          /\ rw[i].version = tb.current[t][l[i].id].version + 1
  <2>1. \A i \in DOMAIN l : /\ l[i].id \in Ids /\ rw[i] \in Row
                            /\ rw[i].version = tb.current[t][l[i].id].version + 1
    BY <1>1 DEF GoodRows, Listed, Resolved
  <2>2. \A id \in Ids : tb.current[t][id] \in Row
    BY <1>1, TablesFields
  <2>3. QED
    BY <2>1, <2>2 DEF Row
<1>5. \A h \in tb.history[t] : /\ h.id \in Ids /\ h.version \in Nat
                              /\ h.version <= tb.current[t][h.id].version
  <2> SUFFICES ASSUME NEW h \in tb.history[t]
               PROVE  /\ h.id \in Ids /\ h.version \in Nat
                      /\ h.version <= tb.current[t][h.id].version
    OBVIOUS
  <2>1. h \in HistoryRow
    BY <1>1, TablesFields
  <2>2. h.id \in Ids /\ h.version \in Nat
    BY <2>1 DEF HistoryRow
  <2>3. h.version \in 1..tb.current[t][h.id].version
    <3>1. HistoryMatches(tb, t, h.id) /\ h \in HistoryOf(tb, t, h.id)
      BY <2>2 DEF Sane, HistoryOf
    <3>2. {r.version : r \in HistoryOf(tb, t, h.id)} = 1..tb.current[t][h.id].version
      BY <3>1 DEF HistoryMatches
    <3>3. QED
      BY <3>1, <3>2
  <2>4. tb.current[t][h.id].version \in Nat
    BY <1>1, <2>2, TablesFields DEF Row
  <2>5. QED
    BY <2>2, <2>3, <2>4
<1>6. \A m \in nt.history_members[t] : m.id \in Ids /\ m.version \in Nat
  BY <1>2, TablesFields DEF HistoryMemberRow
<1>8. \A m \in nt.history_members[t] :
        m.version <= tb.current[t][m.id].version => m \in tb.history_members[t]
  <2>1. ASSUME NEW i \in DOMAIN l, NEW k, NEW m, m = HistoryMemberRowOf(l[i], rw[i], k),
               m.version <= tb.current[t][m.id].version
        PROVE  FALSE
    <3>1. m.version = tb.current[t][l[i].id].version + 1 /\ m.id = l[i].id
      BY <2>1, <1>4 DEF HistoryMemberRowOf
    <3>2. QED
      BY <2>1, <3>1, <1>4
  <2>2. QED
    BY <1>2, <2>1
<1>9. \A m \in tb.history_members[t] : m.version <= tb.current[t][m.id].version
  BY <1>1 DEF Regular
<1>10. QED
  BY <1>1, <1>2, <1>3, <1>4, <1>5, <1>6, <1>8, <1>9 DEF HistoryWritten

LEMMA PlacesAreNumbers ==
    ASSUME NEW tb \in Tables
    PROVE  /\ \A id \in Ids : PlaceOf(tb, id) \in Int
           /\ \A g \in tb.history["Node"] : g.loc \in Int
           /\ \A t \in Types : \A m \in tb.members[t] : m.id \in Ids /\ m.ref \in Ids /\ m.type \in Types
           /\ \A t \in Types : \A m \in tb.history_members[t] :
                m.id \in Ids /\ m.ref \in Ids /\ m.type \in Types /\ m.version \in Nat
<1>0. "Node" \in Types
  BY DEF Types
<1>1. \A id \in Ids : tb.current["Node"][id] \in Row
  BY <1>0, TablesFields
<1>2. \A c \in Coord : c \in Int
  BY DEF Coord
<1>3. \A id \in Ids : PlaceOf(tb, id) \in Int
  BY <1>1, <1>2 DEF PlaceOf, Row
<1>4. \A g \in tb.history["Node"] : g.loc \in Int
  BY <1>0, <1>2, TablesFields DEF HistoryRow
<1>5. \A t \in Types : \A m \in tb.members[t] : m.id \in Ids /\ m.ref \in Ids /\ m.type \in Types
  BY TablesFields DEF MemberRow
<1>6. \A t \in Types : \A m \in tb.history_members[t] :
                m.id \in Ids /\ m.ref \in Ids /\ m.type \in Types /\ m.version \in Nat
  BY TablesFields DEF HistoryMemberRow
<1>7. QED
  BY <1>3, <1>4, <1>5, <1>6

\* A larger box covers what a smaller one does.
LEMMA LargerBox ==
    ASSUME NEW base, NEW tb \in Tables, NEW a, NEW b, \A c \in Int : Covers(a, c) => Covers(b, c),
           AllCovered(base, tb, a)
    PROVE  AllCovered(base, tb, b)
<1>0. "Way" \in Types
  BY DEF Types
<1>1. NodesCovered(base, tb, b)
  BY PlacesAreNumbers DEF AllCovered, NodesCovered
<1>2. WaysCovered(base, tb, b)
  BY <1>0, PlacesAreNumbers DEF AllCovered, WaysCovered
<1>3. \A t \in Types, ref \in Ids : RefCovered(tb, a, t, ref) => RefCovered(tb, b, t, ref)
  BY <1>0, PlacesAreNumbers DEF RefCovered
<1>4. RelationsCovered(base, tb, b)
  BY <1>3 DEF AllCovered, RelationsCovered
<1>5. QED
  BY <1>1, <1>2, <1>4 DEF AllCovered

\* When what is written of relations stays, so does what is covered of them.
LEMMA RelationsStayCovered ==
    ASSUME NEW base, NEW tb, NEW nt, NEW b, RelationsCovered(base, tb, b),
           nt.history["Relation"] = tb.history["Relation"],
           nt.history_members["Relation"] = tb.history_members["Relation"],
           \A t \in Types, ref \in Ids : RefCovered(tb, b, t, ref) => RefCovered(nt, b, t, ref)
    PROVE  RelationsCovered(base, nt, b)
<1>1. Added(base, nt, "Relation") = Added(base, tb, "Relation")
  BY DEF Added
<1>2. \A id, v, t, ref : HasMember(nt, id, v, t, ref) = HasMember(tb, id, v, t, ref)
  BY DEF HasMember
<1>3. QED
  BY <1>1, <1>2 DEF RelationsCovered, NewMember

LEMMA NodeWriteCovered ==
    ASSUME NEW base, NEW tb, Sane(tb), NEW nt, NEW l, NEW rw, GoodWrite(tb, nt, "Node", l, rw),
           NEW b, AllCovered(base, tb, b),
           \A i \in DOMAIN l : /\ Covers(b, rw[i].loc)
                               /\ Exists(tb, "Node", l[i].id) => Covers(b, PlaceOf(tb, l[i].id))
    PROVE  AllCovered(base, nt, b)
<1>0. "Node" \in Types /\ "Way" \in Types \ {"Node"} /\ "Relation" \in Types \ {"Node"}
  BY DEF Types
<1> HistoryWritten(base, tb, nt, "Node", l, rw)
  BY <1>0, WriteHistory
<1>1. /\ tb \in Tables /\ nt \in Tables /\ Rewritten(tb, nt, "Node", l, rw) /\ GoodRows(tb, "Node", l, rw)
  BY DEF HistoryWritten, GoodWrite
<1>2. \A u \in Types \ {"Node"} :
        /\ nt.history[u] = tb.history[u] /\ nt.history_members[u] = tb.history_members[u]
        /\ nt.members[u] = tb.members[u]
  BY <1>1 DEF Rewritten, CurrentRewritten, HistoryExtended
<1>3. \A id \in Ids : Covers(b, PlaceOf(tb, id)) => Covers(b, PlaceOf(nt, id))
  <2>1. \A id \in Ids : \/ nt.current["Node"][id] = tb.current["Node"][id]
                         \/ \E i \in DOMAIN l : nt.current["Node"][id] = rw[i]
    BY <1>0, <1>1, RowsAfter
  <2>2. \A i \in DOMAIN l : Covers(b, rw[i].loc)
    OBVIOUS
  <2>3. QED
    BY <2>1, <2>2 DEF PlaceOf
<1>4. WaysCovered(base, nt, b)
  <2>1. Added(base, nt, "Way") = Added(base, tb, "Way") /\ nt.history_members["Way"] = tb.history_members["Way"]
    BY <1>0, <1>2 DEF Added
  <2>2. \A m \in tb.history_members["Way"] : m.ref \in Ids
    BY <1>0, <1>1, PlacesAreNumbers
  <2>3. QED
    BY <1>3, <2>1, <2>2 DEF AllCovered, WaysCovered
<1>5. RelationsCovered(base, nt, b)
  <2>1. nt.members["Way"] = tb.members["Way"] /\ \A m \in tb.members["Way"] : m.ref \in Ids
    BY <1>0, <1>1, <1>2, PlacesAreNumbers
  <2>2. \A t \in Types, ref \in Ids : RefCovered(tb, b, t, ref) => RefCovered(nt, b, t, ref)
    BY <1>3, <2>1 DEF RefCovered
  <2>3. QED
    BY <1>0, <1>2, <2>2, RelationsStayCovered DEF AllCovered
<1>6. NodesCovered(base, nt, b)
  <2> SUFFICES ASSUME NEW h \in Added(base, nt, "Node"), NEW g \in nt.history["Node"],
                      g.id = h.id, g.version \in {h.version - 1, h.version}
               PROVE  Covers(b, g.loc)
    BY DEF NodesCovered
  <2>1. h \in Added(base, tb, "Node") \/ \E i \in DOMAIN l : h = HistoryRowOf(l[i], rw[i])
    BY DEF HistoryWritten
  <2>2. g \in tb.history["Node"] \/ \E i \in DOMAIN l : g = HistoryRowOf(l[i], rw[i])
    BY <1>1 DEF Rewritten, HistoryExtended
  <2>3. CASE \E i \in DOMAIN l : g = HistoryRowOf(l[i], rw[i])
    <3>1. PICK i \in DOMAIN l : g = HistoryRowOf(l[i], rw[i])
      BY <2>3
    <3>2. g.loc = rw[i].loc
      BY <3>1 DEF HistoryRowOf
    <3>3. QED
      BY <3>2
  <2>4. CASE g \in tb.history["Node"] /\ h \in Added(base, tb, "Node")
    BY <2>4 DEF AllCovered, NodesCovered
  <2>5. ASSUME NEW i \in DOMAIN l, h = HistoryRowOf(l[i], rw[i]), g \in tb.history["Node"]
        PROVE  Covers(b, g.loc)
    <3>1. /\ h.id = l[i].id /\ h.version = rw[i].version /\ g.id \in Ids /\ g.version \in Nat
          /\ g.version <= tb.current["Node"][g.id].version
          /\ rw[i].version = tb.current["Node"][l[i].id].version + 1
          /\ tb.current["Node"][l[i].id].version \in Nat
      BY <2>5 DEF HistoryRowOf, HistoryWritten
    <3>2. g.version = tb.current["Node"][g.id].version /\ g.id = l[i].id
      <4>1. g.id = l[i].id
        BY <3>1
      <4>2. /\ g.version <= tb.current["Node"][l[i].id].version
            /\ h.version = tb.current["Node"][l[i].id].version + 1
        BY <3>1, <4>1
      <4>3. QED
        BY <3>1, <4>1, <4>2
    <3>3. HistoryMatches(tb, "Node", g.id) /\ g \in HistoryOf(tb, "Node", g.id)
      BY <1>0, <2>5, <3>1 DEF Sane, HistoryOf
    <3>4. g.version \in 1..tb.current["Node"][g.id].version
      <4>1. {r.version : r \in HistoryOf(tb, "Node", g.id)} = 1..tb.current["Node"][g.id].version
        BY <3>3 DEF HistoryMatches
      <4>2. QED
        BY <4>1, <3>3
    <3>5. tb.current["Node"][g.id].version > 0
      BY <3>1, <3>2, <3>4
    <3>6. g.loc = PlaceOf(tb, g.id)
      <4> DEFINE cur == tb.current["Node"][g.id]
                 last == [id |-> g.id, version |-> cur.version, visible |-> cur.visible, loc |-> cur.loc]
      <4>1. last \in HistoryOf(tb, "Node", g.id)
        BY <3>3, <3>5 DEF HistoryMatches
      <4>2. g = last
        BY <4>1, <3>2, <3>3 DEF HistoryMatches
      <4>3. QED
        BY <4>2 DEF PlaceOf
    <3>7. QED
      BY <3>2, <3>5, <3>6 DEF Exists
  <2>6. QED
    BY <2>1, <2>2, <2>3, <2>4, <2>5
<1>7. QED
  BY <1>4, <1>5, <1>6 DEF AllCovered

\* The members an element has now are the ones of its last version.
LEMMA LastMembers ==
    ASSUME NEW tb, Sane(tb), NEW t \in Types, NEW id \in Ids, NEW v, v = tb.current[t][id].version
    PROVE  /\ \A m \in tb.history_members[t] : m.id = id /\ m.version = v =>
                \E r \in tb.members[t] : r.id = id /\ r.type = m.type /\ r.ref = m.ref
           /\ \A r \in tb.members[t] : r.id = id =>
                \E m \in tb.history_members[t] : m.id = id /\ m.version = v /\ m.type = r.type /\ m.ref = r.ref
<1>1. MembersAt(tb, t, id, v) = CurrentMembers(tb, t, id)
  BY DEF Sane, HistoryMatches
<1>2. ASSUME NEW m \in tb.history_members[t], m.id = id, m.version = v
      PROVE  \E r \in tb.members[t] : r.id = id /\ r.type = m.type /\ r.ref = m.ref
  <2>1. [seq |-> m.seq, type |-> m.type, ref |-> m.ref] \in MembersAt(tb, t, id, v)
    BY <1>2 DEF MembersAt
  <2>2. QED
    BY <1>1, <2>1 DEF CurrentMembers
<1>3. ASSUME NEW r \in tb.members[t], r.id = id
      PROVE  \E m \in tb.history_members[t] : m.id = id /\ m.version = v /\ m.type = r.type /\ m.ref = r.ref
  <2>1. [seq |-> r.seq, type |-> r.type, ref |-> r.ref] \in CurrentMembers(tb, t, id)
    BY <1>3 DEF CurrentMembers
  <2>2. QED
    BY <1>1, <2>1 DEF MembersAt
<1>4. QED
  BY <1>2, <1>3

LEMMA WayWriteCovered ==
    ASSUME NEW base, NEW tb, Sane(tb), NEW nt, NEW l, NEW rw, GoodWrite(tb, nt, "Way", l, rw),
           NEW b, AllCovered(base, tb, b),
           \A i \in DOMAIN l : \A k \in DOMAIN l[i].members : Covers(b, PlaceOf(tb, l[i].members[k].ref)),
           \A m \in tb.members["Way"] : m.id \in IdsOf(l) => Covers(b, PlaceOf(tb, m.ref))
    PROVE  AllCovered(base, nt, b)
<1>0. "Way" \in Types /\ "Node" \in Types \ {"Way"} /\ "Relation" \in Types \ {"Way"}
  BY DEF Types
<1> HistoryWritten(base, tb, nt, "Way", l, rw)
  BY <1>0, WriteHistory
<1>1. /\ tb \in Tables /\ nt \in Tables /\ Rewritten(tb, nt, "Way", l, rw) /\ GoodRows(tb, "Way", l, rw)
  BY DEF HistoryWritten, GoodWrite
<1>2. \A u \in Types \ {"Way"} :
        /\ nt.history[u] = tb.history[u] /\ nt.history_members[u] = tb.history_members[u]
        /\ nt.current[u] = tb.current[u]
  BY <1>1 DEF Rewritten, CurrentRewritten, HistoryExtended
<1>3. \A id : PlaceOf(nt, id) = PlaceOf(tb, id)
  BY <1>0, <1>2 DEF PlaceOf
<1>4. NodesCovered(base, nt, b)
  BY <1>0, <1>2 DEF AllCovered, NodesCovered, Added
<1>5. RelationsCovered(base, nt, b)
  <2>1. \A r \in nt.members["Way"] :
          \/ r \in tb.members["Way"]
          \/ \E i \in DOMAIN l : \E k \in DOMAIN l[i].members : r = MemberRowOf(l[i], k)
    BY <1>1 DEF Rewritten, CurrentRewritten
  <2>2. \A r \in nt.members["Way"] : r \in tb.members["Way"] \/ Covers(b, PlaceOf(tb, r.ref))
    BY <2>1 DEF MemberRowOf
  <2>3. \A t \in Types, ref \in Ids : RefCovered(tb, b, t, ref) => RefCovered(nt, b, t, ref)
    BY <1>3, <2>2 DEF RefCovered
  <2>4. QED
    BY <1>0, <1>2, <2>3, RelationsStayCovered DEF AllCovered
<1>6. WaysCovered(base, nt, b)
  <2> SUFFICES ASSUME NEW h \in Added(base, nt, "Way"), NEW m \in nt.history_members["Way"],
                      m.id = h.id, m.version \in {h.version - 1, h.version}
               PROVE  Covers(b, PlaceOf(tb, m.ref))
    BY <1>3 DEF WaysCovered
  <2>1. h \in Added(base, tb, "Way") \/ \E i \in DOMAIN l : h = HistoryRowOf(l[i], rw[i])
    BY DEF HistoryWritten
  <2>2. CASE \E i \in DOMAIN l : \E k \in DOMAIN l[i].members : m = HistoryMemberRowOf(l[i], rw[i], k)
    <3>1. PICK i \in DOMAIN l : \E k \in DOMAIN l[i].members : m = HistoryMemberRowOf(l[i], rw[i], k)
      BY <2>2
    <3>2. PICK k \in DOMAIN l[i].members : m.ref = l[i].members[k].ref
      BY <3>1 DEF HistoryMemberRowOf
    <3>3. QED
      BY <3>2
  <2>3. CASE m \in tb.history_members["Way"] /\ h \in Added(base, tb, "Way")
    BY <2>3 DEF AllCovered, WaysCovered
  <2>4. ASSUME NEW i \in DOMAIN l, h = HistoryRowOf(l[i], rw[i]),
               m \in tb.history_members["Way"], m.version <= tb.current["Way"][m.id].version
        PROVE  Covers(b, PlaceOf(tb, m.ref))
    <3>1. /\ h.id = l[i].id /\ h.version = rw[i].version
          /\ rw[i].version = tb.current["Way"][l[i].id].version + 1
          /\ tb.current["Way"][l[i].id].version \in Nat
          /\ l[i].id \in Ids /\ m.version \in Nat
      BY <2>4 DEF HistoryRowOf, HistoryWritten
    <3>2. m.version <= tb.current["Way"][l[i].id].version
      BY <2>4, <3>1
    <3>3. m.id = l[i].id /\ m.version = tb.current["Way"][l[i].id].version
      BY <3>1, <3>2
    <3>4. \E r \in tb.members["Way"] : r.id = l[i].id /\ r.ref = m.ref
      BY <1>0, <2>4, <3>1, <3>3, LastMembers
    <3>5. l[i].id \in IdsOf(l)
      BY DEF IdsOf
    <3>6. QED
      BY <3>4, <3>5
  <2>5. \/ m \in tb.history_members["Way"] /\ m.version <= tb.current["Way"][m.id].version
        \/ \E i \in DOMAIN l : \E k \in DOMAIN l[i].members : m = HistoryMemberRowOf(l[i], rw[i], k)
    BY DEF HistoryWritten
  <2>6. QED
    BY <2>1, <2>2, <2>3, <2>4, <2>5
<1>7. QED
  BY <1>4, <1>5, <1>6 DEF AllCovered

\* Which of the members of the relations of a list have to be covered.
RelationFits(tb, e, b) ==
    LET ms == e.members
    IN  /\ \A k \in DOMAIN ms : ~IsMember(tb, e.id, ms[k]) => RefCovered(tb, b, ms[k].type, ms[k].ref)
        /\ (\E k \in DOMAIN ms : ~IsMember(tb, e.id, ms[k]) /\ ms[k].type = "Relation") =>
             \A k \in DOMAIN ms : RefCovered(tb, b, ms[k].type, ms[k].ref)

LEMMA RelationWriteCovered ==
    ASSUME NEW base, NEW tb, Sane(tb), NEW nt, NEW l, NEW rw, GoodWrite(tb, nt, "Relation", l, rw),
           NEW b, AllCovered(base, tb, b),
           \A i \in DOMAIN l : RelationFits(tb, l[i], b),
           \A i \in DOMAIN l : ~rw[i].visible =>
              \A m \in tb.members["Relation"] : m.id = l[i].id => RefCovered(tb, b, m.type, m.ref)
    PROVE  AllCovered(base, nt, b)
<1>0. "Relation" \in Types /\ "Node" \in Types \ {"Relation"} /\ "Way" \in Types \ {"Relation"}
  BY DEF Types
<1> HistoryWritten(base, tb, nt, "Relation", l, rw)
  BY <1>0, WriteHistory
<1>1. /\ tb \in Tables /\ nt \in Tables /\ Rewritten(tb, nt, "Relation", l, rw)
      /\ GoodRows(tb, "Relation", l, rw) /\ Unique(l)
  BY DEF HistoryWritten, GoodWrite, GoodRows
<1>2. \A u \in Types \ {"Relation"} :
        /\ nt.history[u] = tb.history[u] /\ nt.history_members[u] = tb.history_members[u]
        /\ nt.current[u] = tb.current[u] /\ nt.members[u] = tb.members[u]
  BY <1>1 DEF Rewritten, CurrentRewritten, HistoryExtended
<1>3. \A id : PlaceOf(nt, id) = PlaceOf(tb, id)
  BY <1>0, <1>2 DEF PlaceOf
<1>4. NodesCovered(base, nt, b)
  BY <1>0, <1>2 DEF AllCovered, NodesCovered, Added
<1>5. WaysCovered(base, nt, b)
  BY <1>0, <1>2, <1>3 DEF AllCovered, WaysCovered, Added
<1>6. \A t, ref : RefCovered(nt, b, t, ref) = RefCovered(tb, b, t, ref)
  BY <1>0, <1>2, <1>3 DEF RefCovered
<1>7. ASSUME NEW id \in Ids, NEW v \in Int, v <= tb.current["Relation"][id].version
      PROVE  \A t, ref : HasMember(nt, id, v, t, ref) = HasMember(tb, id, v, t, ref)
  <2>1. \A m \in nt.history_members["Relation"] :
          m.id = id /\ m.version = v => m \in tb.history_members["Relation"]
    BY <1>7 DEF HistoryWritten
  <2>2. tb.history_members["Relation"] \subseteq nt.history_members["Relation"]
    BY DEF HistoryWritten
  <2>3. QED
    BY <2>1, <2>2 DEF HasMember
<1>8. ASSUME NEW h \in Added(base, tb, "Relation")
      PROVE  /\ \A t, ref : /\ HasMember(nt, h.id, h.version, t, ref) = HasMember(tb, h.id, h.version, t, ref)
                            /\ HasMember(nt, h.id, h.version - 1, t, ref)
                                 = HasMember(tb, h.id, h.version - 1, t, ref)
  <2>1. h.id \in Ids /\ h.version \in Nat /\ h.version <= tb.current["Relation"][h.id].version
    BY DEF HistoryWritten, Added
  <2>2. tb.current["Relation"][h.id].version \in Nat
    BY <1>0, <1>1, <2>1, TablesFields DEF Row
  <2>3. h.version - 1 \in Int /\ h.version - 1 <= tb.current["Relation"][h.id].version
    BY <2>1, <2>2
  <2>4. QED
    BY <2>1, <2>3, <1>7
<1>9. ASSUME NEW i \in DOMAIN l, NEW h, h = HistoryRowOf(l[i], rw[i])
      PROVE  /\ \A t, ref : HasMember(nt, h.id, h.version, t, ref) =>
                  \E k \in DOMAIN l[i].members : t = l[i].members[k].type /\ ref = l[i].members[k].ref
             /\ \A t, ref : HasMember(nt, h.id, h.version - 1, t, ref) <=>
                  \E r \in tb.members["Relation"] : r.id = l[i].id /\ r.type = t /\ r.ref = ref
  <2>1. /\ h.id = l[i].id /\ h.version = rw[i].version
        /\ rw[i].version = tb.current["Relation"][l[i].id].version + 1
        /\ tb.current["Relation"][l[i].id].version \in Nat
        /\ l[i].id \in Ids
    BY <1>9 DEF HistoryRowOf, HistoryWritten
  <2>2. ASSUME NEW t, NEW ref, HasMember(nt, h.id, h.version, t, ref)
        PROVE  \E k \in DOMAIN l[i].members : t = l[i].members[k].type /\ ref = l[i].members[k].ref
    <3>1. PICK m \in nt.history_members["Relation"] :
            m.id = h.id /\ m.version = h.version /\ m.type = t /\ m.ref = ref
      BY <2>2 DEF HasMember
    <3>2. ~(m.version <= tb.current["Relation"][m.id].version)
      BY <2>1, <3>1
    <3>3. PICK j \in DOMAIN l : \E k \in DOMAIN l[j].members : m = HistoryMemberRowOf(l[j], rw[j], k)
      BY <3>2 DEF HistoryWritten
    <3>4. PICK k \in DOMAIN l[j].members :
            m.id = l[j].id /\ m.type = l[j].members[k].type /\ m.ref = l[j].members[k].ref
      BY <3>3 DEF HistoryMemberRowOf
    <3>5. i = j
      BY <2>1, <3>1, <3>4, <1>1 DEF Unique
    <3>6. QED
      BY <3>1, <3>4, <3>5
  <2>3. h.version - 1 = tb.current["Relation"][l[i].id].version
    BY <2>1
  <2>4. \A t, ref : HasMember(nt, h.id, h.version - 1, t, ref) = HasMember(tb, h.id, h.version - 1, t, ref)
    BY <2>1, <2>3, <1>7
  <2>5. \A t, ref : HasMember(tb, h.id, h.version - 1, t, ref) <=>
          \E r \in tb.members["Relation"] : r.id = l[i].id /\ r.type = t /\ r.ref = ref
    <3>1. \A m \in tb.history_members["Relation"] : m.id = l[i].id /\ m.version = h.version - 1 =>
                \E r \in tb.members["Relation"] : r.id = l[i].id /\ r.type = m.type /\ r.ref = m.ref
      BY <1>0, <2>1, <2>3, LastMembers
    <3>2. \A r \in tb.members["Relation"] : r.id = l[i].id =>
                \E m \in tb.history_members["Relation"] :
                   m.id = l[i].id /\ m.version = h.version - 1 /\ m.type = r.type /\ m.ref = r.ref
      BY <1>0, <2>1, <2>3, LastMembers
    <3>3. QED
      BY <2>1, <3>1, <3>2 DEF HasMember
  <2>6. QED
    BY <2>2, <2>4, <2>5
<1>10. RelationsCovered(base, nt, b)
  <2> DEFINE Fine(tb0, h) ==
        /\ \A t \in Types, ref \in Ids :
             NewMember(tb0, h.id, h.version, h.version - 1, t, ref) => RefCovered(tb0, b, t, ref)
        /\ (\E ref \in Ids : NewMember(tb0, h.id, h.version, h.version - 1, "Relation", ref)) =>
             \A t \in Types, ref \in Ids : HasMember(tb0, h.id, h.version, t, ref) => RefCovered(tb0, b, t, ref)
        /\ ~h.visible =>
             \A t \in Types, ref \in Ids : HasMember(tb0, h.id, h.version - 1, t, ref) => RefCovered(tb0, b, t, ref)
  <2>1. ASSUME NEW h \in Added(base, tb, "Relation") PROVE Fine(nt, h)
    <3>1. Fine(tb, h)
      BY DEF AllCovered, RelationsCovered
    <3>2. QED
      BY <3>1, <1>6, <1>8 DEF NewMember
  <2>2. ASSUME NEW i \in DOMAIN l, NEW h, h = HistoryRowOf(l[i], rw[i]) PROVE Fine(nt, h)
    <3>1. \A t, ref : HasMember(nt, h.id, h.version, t, ref) =>
             \E k \in DOMAIN l[i].members : t = l[i].members[k].type /\ ref = l[i].members[k].ref
      BY <1>9, <2>2
    <3>2. \A t, ref : HasMember(nt, h.id, h.version - 1, t, ref) <=>
             \E r \in tb.members["Relation"] : r.id = l[i].id /\ r.type = t /\ r.ref = ref
      BY <1>9, <2>2
    <3>3. h.visible = rw[i].visible
      BY <2>2 DEF HistoryRowOf
    <3>4. \A t, ref : NewMember(nt, h.id, h.version, h.version - 1, t, ref) =>
             \E k \in DOMAIN l[i].members :
                /\ t = l[i].members[k].type /\ ref = l[i].members[k].ref
                /\ ~IsMember(tb, l[i].id, l[i].members[k])
      BY <3>1, <3>2 DEF NewMember, IsMember
    <3>5. RelationFits(tb, l[i], b)
      OBVIOUS
    <3>6. \A t, ref : NewMember(nt, h.id, h.version, h.version - 1, t, ref) => RefCovered(tb, b, t, ref)
      BY <3>4, <3>5 DEF RelationFits
    <3>7. (\E ref : NewMember(nt, h.id, h.version, h.version - 1, "Relation", ref)) =>
             \A t, ref : HasMember(nt, h.id, h.version, t, ref) => RefCovered(tb, b, t, ref)
      BY <3>1, <3>4, <3>5 DEF RelationFits
    <3>8. ~h.visible => \A t, ref : HasMember(nt, h.id, h.version - 1, t, ref) => RefCovered(tb, b, t, ref)
      BY <3>2, <3>3
    <3>9. QED
      BY <3>6, <3>7, <3>8, <1>6
  <2>3. \A h \in Added(base, nt, "Relation") :
          h \in Added(base, tb, "Relation") \/ \E i \in DOMAIN l : h = HistoryRowOf(l[i], rw[i])
    BY DEF HistoryWritten
  <2>4. \A h \in Added(base, nt, "Relation") : Fine(nt, h)
    BY <2>1, <2>2, <2>3
  <2>5. QED
    BY <2>4 DEF RelationsCovered
<1>11. QED
  BY <1>4, <1>5, <1>10 DEF AllCovered

\* What calc_*_bbox and calc_rel_member_difference_bbox look at covers the
\* elements and members they are called for.
LEMMA PlacesSuffice ==
    ASSUME NEW tb, Sane(tb), NEW b, NEW ids
    PROVE  /\ (\A c \in PlacesOf(tb, "Node", ids) : Covers(b, c)) =>
                \A id \in ids : Exists(tb, "Node", id) => Covers(b, PlaceOf(tb, id))
           /\ (\A c \in PlacesOf(tb, "Way", ids) : Covers(b, c)) =>
                \A m \in tb.members["Way"] : m.id \in ids => Covers(b, PlaceOf(tb, m.ref))
           /\ \A nodes, ways : (\A c \in DiffPlaces(tb, nodes, ways) : Covers(b, c)) =>
                /\ \A id \in nodes : Exists(tb, "Node", id) => RefCovered(tb, b, "Node", id)
                /\ \A id \in ways : RefCovered(tb, b, "Way", id)
           /\ (\A c \in PlacesOf(tb, "Relation", ids) : Covers(b, c)) =>
                \A m \in tb.members["Relation"] : m.id \in ids => RefCovered(tb, b, m.type, m.ref)
<1>0. "Node" \in Types /\ "Way" \in Types /\ "Relation" \in Types
  BY DEF Types
<1>1. \A n : (\A c \in NodeCoords(tb, n) : Covers(b, c)) =>
         \A id \in n : Exists(tb, "Node", id) => Covers(b, PlaceOf(tb, id))
  BY DEF NodeCoords, PlaceOf
<1>2. /\ tb \in Tables /\ Regular(tb) /\ RefsVisible(tb)
  BY DEF Sane
<1>3. \A p \in Types : \A m \in tb.members[p] : m.type = "Node" => Exists(tb, "Node", m.ref)
  <2>1. \A p \in Types : \A m \in tb.members[p] : m.type = "Node" => m.ref \in Ids /\ Visible(tb, "Node", m.ref)
    BY <1>2, PlacesAreNumbers DEF RefsVisible
  <2>2. \A id \in Ids : Visible(tb, "Node", id) => Exists(tb, "Node", id)
    BY <1>0, <1>2 DEF Regular
  <2>3. QED
    BY <2>1, <2>2
<1>4. ASSUME NEW ways, NEW n, MemberRefs(tb, "Way", ways, "Node") \subseteq n,
             \A c \in NodeCoords(tb, n) : Covers(b, c)
      PROVE  \A m \in tb.members["Way"] : m.id \in ways => Covers(b, PlaceOf(tb, m.ref))
  <2>1. \A m \in tb.members["Way"] : m.id \in ways => m.type = "Node" /\ m.ref \in n
    BY <1>2, <1>4 DEF MemberRefs, Regular
  <2>2. QED
    BY <1>0, <1>1, <1>3, <1>4, <2>1
<1>5. (\A c \in PlacesOf(tb, "Node", ids) : Covers(b, c)) =>
         \A id \in ids : Exists(tb, "Node", id) => Covers(b, PlaceOf(tb, id))
  BY <1>1 DEF PlacesOf
<1>6. (\A c \in PlacesOf(tb, "Way", ids) : Covers(b, c)) =>
         \A m \in tb.members["Way"] : m.id \in ids => Covers(b, PlaceOf(tb, m.ref))
  BY <1>4 DEF PlacesOf
<1>7. ASSUME NEW nodes, NEW ways, \A c \in DiffPlaces(tb, nodes, ways) : Covers(b, c)
      PROVE  /\ \A id \in nodes : Exists(tb, "Node", id) => RefCovered(tb, b, "Node", id)
             /\ \A id \in ways : RefCovered(tb, b, "Way", id)
  <2> DEFINE n == nodes \cup MemberRefs(tb, "Way", ways, "Node")
  <2>1. \A c \in NodeCoords(tb, n) : Covers(b, c)
    BY <1>7 DEF DiffPlaces
  <2>2. MemberRefs(tb, "Way", ways, "Node") \subseteq n /\ nodes \subseteq n
    OBVIOUS
  <2> HIDE DEF n
  <2>3. \A id \in nodes : Exists(tb, "Node", id) => Covers(b, PlaceOf(tb, id))
    BY <1>1, <2>1, <2>2
  <2>4. \A m \in tb.members["Way"] : m.id \in ways => Covers(b, PlaceOf(tb, m.ref))
    BY <1>4, <2>1, <2>2
  <2>5. QED
    BY <2>3, <2>4 DEF RefCovered
<1>8. ASSUME \A c \in PlacesOf(tb, "Relation", ids) : Covers(b, c)
      PROVE  \A m \in tb.members["Relation"] : m.id \in ids => RefCovered(tb, b, m.type, m.ref)
  <2> DEFINE nodes == MemberRefs(tb, "Relation", ids, "Node")
             ways == MemberRefs(tb, "Relation", ids, "Way")
  <2>1. DiffPlaces(tb, nodes, ways) = PlacesOf(tb, "Relation", ids)
    BY DEF DiffPlaces, PlacesOf
  <2>2. \A m \in tb.members["Relation"] : m.id \in ids =>
          /\ m.type = "Node" => m.ref \in nodes
          /\ m.type = "Way" => m.ref \in ways
    BY DEF MemberRefs
  <2> HIDE DEF nodes, ways
  <2>3. /\ \A id \in nodes : Exists(tb, "Node", id) => RefCovered(tb, b, "Node", id)
        /\ \A id \in ways : RefCovered(tb, b, "Way", id)
    BY <1>7, <1>8, <2>1
  <2>4. \A m \in tb.members["Relation"] : m.id \in ids =>
          /\ m.type = "Node" => RefCovered(tb, b, m.type, m.ref)
          /\ m.type = "Way" => RefCovered(tb, b, m.type, m.ref)
    BY <1>0, <1>3, <2>2, <2>3
  <2>5. \A ref : \A t : t \notin {"Node", "Way"} => RefCovered(tb, b, t, ref)
    BY DEF RefCovered
  <2>6. QED
    BY <2>4, <2>5
<1>9. QED
  BY <1>5, <1>6, <1>7, <1>8

\* The box of an updater counts in the box of the upload.
LEMMA TotalGrows ==
    ASSUME BoxInv, NEW t \in Types, NEW coords, coords \subseteq Coord, Boxed(t, coords), cs' = cs
    PROVE  /\ TotalBox \in bbox_t /\ TotalBox' \in bbox_t /\ Within(TotalBox, TotalBox')
           /\ \A c \in coords : Covers(TotalBox', c)
<1>0. "Node" \in Types /\ "Way" \in Types /\ "Relation" \in Types
  BY DEF Types
<1>1. m_bbox \in [Types -> bbox_t] /\ m_bbox' \in [Types -> bbox_t] /\ cs.bbox \in bbox_t
  BY DEF BoxInv, Boxed, Changeset
<1>2. undefined_bbox \in bbox_t
  BY DEF undefined_bbox, bbox_t
<1> DEFINE Sum(m) == expand(cs.bbox, expand(expand(expand(undefined_bbox, m["Node"]), m["Way"]), m["Relation"]))
<1>3. TotalBox = Sum(m_bbox) /\ TotalBox' = Sum(m_bbox')
  BY DEF TotalBox, get_bbox
<1>4. ASSUME NEW m \in [Types -> bbox_t]
      PROVE  Sum(m) \in bbox_t /\ \A u \in Types : Within(m[u], Sum(m))
  <2> DEFINE a == expand(undefined_bbox, m["Node"])
             d == expand(a, m["Way"])
             e == expand(d, m["Relation"])
             f == expand(cs.bbox, e)
  <2>0. m["Node"] \in bbox_t /\ m["Way"] \in bbox_t /\ m["Relation"] \in bbox_t
    BY <1>0
  <2>1. a \in bbox_t /\ Within(m["Node"], a)
    BY <1>2, <2>0, ExpandCovers
  <2>2. d \in bbox_t /\ Within(m["Way"], d) /\ Within(a, d)
    <3> HIDE DEF a
    <3>1. QED
      BY <2>0, <2>1, ExpandCovers
  <2>3. e \in bbox_t /\ Within(m["Relation"], e) /\ Within(d, e)
    <3> HIDE DEF d
    <3>1. QED
      BY <2>0, <2>2, ExpandCovers
  <2>4. f \in bbox_t /\ Within(e, f)
    <3> HIDE DEF e
    <3>1. QED
      BY <1>1, <2>3, ExpandCovers
  <2>5. f = Sum(m)
    OBVIOUS
  <2> HIDE DEF a, d, e, f, Sum
  <2>6. Within(d, f) /\ Within(a, f)
    BY <2>1, <2>2, <2>3, <2>4, WithinTrans
  <2>7. Within(m["Node"], f) /\ Within(m["Way"], f) /\ Within(m["Relation"], f)
    BY <2>0, <2>1, <2>2, <2>3, <2>4, <2>6, WithinTrans
  <2>8. QED
    BY <2>4, <2>5, <2>7 DEF Types
<1>5. \A u \in Types : Within(m_bbox[u], m_bbox'[u])
  <2>1. \A x \in bbox_t : Within(x, x)
    BY DEF bbox_t, Within
  <2>2. QED
    BY <1>1, <2>1 DEF Boxed
<1>6. Within(Sum(m_bbox), Sum(m_bbox'))
  <2> DEFINE A(m) == expand(undefined_bbox, m["Node"])
             D(m) == expand(A(m), m["Way"])
             E(m) == expand(D(m), m["Relation"])
  <2>0. ASSUME NEW x \in bbox_t PROVE Within(x, x)
    BY DEF bbox_t, Within
  <2>1. \A u \in Types : m_bbox[u] \in bbox_t /\ m_bbox'[u] \in bbox_t
    BY <1>1
  <2>2. A(m_bbox) \in bbox_t /\ A(m_bbox') \in bbox_t /\ Within(A(m_bbox), A(m_bbox'))
    BY <1>0, <1>2, <1>5, <2>0, <2>1, ExpandCovers
  <2> HIDE DEF A
  <2>3. D(m_bbox) \in bbox_t /\ D(m_bbox') \in bbox_t /\ Within(D(m_bbox), D(m_bbox'))
    BY <1>0, <1>5, <2>1, <2>2, ExpandCovers
  <2> HIDE DEF D
  <2>4. E(m_bbox) \in bbox_t /\ E(m_bbox') \in bbox_t /\ Within(E(m_bbox), E(m_bbox'))
    BY <1>0, <1>5, <2>1, <2>3, ExpandCovers
  <2> HIDE DEF E
  <2>5. Within(expand(cs.bbox, E(m_bbox)), expand(cs.bbox, E(m_bbox')))
    BY <1>1, <2>0, <2>4, ExpandCovers
  <2>6. QED
    BY <2>5 DEF A, D, E
<1>7. \A c \in coords : Covers(Sum(m_bbox'), c)
  <2>1. Sum(m_bbox') \in bbox_t /\ Within(m_bbox'[t], Sum(m_bbox')) /\ m_bbox'[t] \in bbox_t
    BY <1>1, <1>4
  <2>2. \A c \in coords : c \in Int /\ Covers(m_bbox'[t], c)
    BY DEF Boxed, Coord
  <2> HIDE DEF Sum
  <2>3. QED
    BY <2>1, <2>2, WithinCovers
<1>8. Sum(m_bbox) \in bbox_t /\ Sum(m_bbox') \in bbox_t
  BY <1>1, <1>4
<1> HIDE DEF Sum
<1>9. QED
  BY <1>3, <1>6, <1>7, <1>8

\* The box that is taken of an element after it is written covers what the
\* write put there.
LEMMA WrittenCovered ==
    ASSUME NEW tb, Sane(tb), NEW nt, Sane(nt), NEW t \in Types, NEW l, NEW rw,
           GoodWrite(tb, nt, t, l, rw), NEW b, NEW ids, \A c \in PlacesOf(nt, t, ids) : Covers(b, c),
           NEW i \in DOMAIN l, l[i].id \in ids
    PROVE  /\ t = "Node" => Covers(b, rw[i].loc)
           /\ t = "Way" => \A k \in DOMAIN l[i].members : Covers(b, PlaceOf(tb, l[i].members[k].ref))
           /\ t = "Relation" => \A k \in DOMAIN l[i].members :
                                  RefCovered(tb, b, l[i].members[k].type, l[i].members[k].ref)
<1>0. tb \in Tables /\ Rewritten(tb, nt, t, l, rw) /\ GoodRows(tb, t, l, rw)
  BY DEF Sane, GoodWrite
<1>1. CASE t = "Node"
  <2>1. /\ nt.current["Node"][l[i].id] = rw[i] /\ l[i].id \in Ids
        /\ rw[i].version = tb.current["Node"][l[i].id].version + 1
    BY <1>0, <1>1 DEF Rewritten, CurrentRewritten, GoodRows, Listed, Resolved
  <2>2. tb.current["Node"][l[i].id].version \in Nat
    BY <1>0, <1>1, <2>1, TablesFields DEF Row
  <2>3. Exists(nt, "Node", l[i].id) /\ PlaceOf(nt, l[i].id) = rw[i].loc
    BY <2>1, <2>2 DEF Exists, PlaceOf
  <2>4. \A id \in ids : Exists(nt, "Node", id) => Covers(b, PlaceOf(nt, id))
    BY <1>1, PlacesSuffice
  <2>5. Covers(b, rw[i].loc)
    BY <2>3, <2>4
  <2>6. QED
    BY <1>1, <2>5
<1>2. ASSUME NEW k \in DOMAIN l[i].members
      PROVE  \E r \in nt.members[t] : /\ r.id \in ids /\ r.type = l[i].members[k].type
                                      /\ r.ref = l[i].members[k].ref
  <2>1. MemberRowOf(l[i], k) \in nt.members[t]
    BY <1>0 DEF Rewritten, CurrentRewritten
  <2>2. QED
    BY <2>1 DEF MemberRowOf
<1>3. CASE t = "Way"
  <2>1. nt.current["Node"] = tb.current["Node"]
    BY <1>0, <1>3 DEF Rewritten, CurrentRewritten, Types
  <2>2. \A m \in nt.members["Way"] : m.id \in ids => Covers(b, PlaceOf(nt, m.ref))
    BY <1>3, PlacesSuffice
  <2>3. \A k \in DOMAIN l[i].members : Covers(b, PlaceOf(nt, l[i].members[k].ref))
    BY <1>2, <1>3, <2>2
  <2>4. QED
    BY <1>3, <2>1, <2>3 DEF PlaceOf
<1>4. CASE t = "Relation"
  <2>1. nt.current["Node"] = tb.current["Node"] /\ nt.members["Way"] = tb.members["Way"]
    BY <1>0, <1>4 DEF Rewritten, CurrentRewritten, Types
  <2>2. \A m \in nt.members["Relation"] : m.id \in ids => RefCovered(nt, b, m.type, m.ref)
    BY <1>4, PlacesSuffice
  <2>3. \A k \in DOMAIN l[i].members : RefCovered(nt, b, l[i].members[k].type, l[i].members[k].ref)
    BY <1>2, <1>4, <2>2
  <2>4. \A u, ref : RefCovered(nt, b, u, ref) = RefCovered(tb, b, u, ref)
    BY <2>1 DEF RefCovered, PlaceOf
  <2>5. QED
    BY <1>4, <2>3, <2>4
<1>5. QED
  BY <1>1, <1>3, <1>4 DEF Types

CoverStart == UploadInv /\ BoxInv /\ AllCovered(scenario.tables, tx, TotalBox)

\* After a call the larger box still covers what was written before it.
LEMMA StillCovered ==
    ASSUME CoverStart, NEW t \in Types, NEW coords, coords \subseteq Coord, Boxed(t, coords), cs' = cs
    PROVE  /\ AllCovered(scenario.tables, tx, TotalBox')
           /\ \A c \in coords : Covers(TotalBox', c)
           /\ Sane(tx)
<1>1. /\ TotalBox \in bbox_t /\ TotalBox' \in bbox_t /\ Within(TotalBox, TotalBox')
      /\ \A c \in coords : Covers(TotalBox', c)
  BY TotalGrows DEF CoverStart
<1>2. Sane(tx) /\ tx \in Tables /\ AllCovered(scenario.tables, tx, TotalBox)
  BY DEF CoverStart, UploadInv, TablesInv, Sane
<1>3. \A c \in Int : Covers(TotalBox, c) => Covers(TotalBox', c)
  BY <1>1, WithinCovers
<1> DEFINE a == TotalBox
           b == TotalBox'
<1> HIDE DEF a, b
<1>4. AllCovered(scenario.tables, tx, b)
  <2>1. AllCovered(scenario.tables, tx, a) /\ \A c \in Int : Covers(a, c) => Covers(b, c)
    BY <1>2, <1>3 DEF a, b
  <2>2. QED
    BY <1>2, <2>1, LargerBox
<1>5. QED
  BY <1>1, <1>2, <1>4 DEF b

LEMMA CreatesCovered ==
    ASSUME CoverStart, NEW t \in Types, Creates(t)
    PROVE  AllCovered(scenario.tables, tx', TotalBox')
<1> DEFINE l == CreateList(t)
           rw == CreatedRows(buffer["create"][t])
           b == TotalBox'
           coords == PlacesOf(tx', t, IdsOf(l))
<1>1. CreateStep(t) /\ Boxed(t, coords) /\ UploadInv
  BY DEF Creates, CoverStart
<1>2. /\ UploadInv' /\ GoodWrite(tx, tx', t, l, rw) /\ DOMAIN l = DOMAIN buffer["create"][t]
      /\ \A i \in DOMAIN l : l[i].id = tx.id_seq[t] + i
  BY <1>1, CreateStepKeeps
<1>3. Sane(tx') /\ tx' \in Tables /\ Sane(tx) /\ tx \in Tables /\ cs' = cs
  BY <1>1, <1>2 DEF UploadInv, TablesInv, Sane, CreateStep, handlerVars
<1>4. IdsOf(l) \subseteq Ids /\ Listed(l)
  BY <1>2, ListedIds DEF GoodWrite, GoodRows
<1>5. coords \subseteq Coord
  <2> HIDE DEF l
  <2>1. QED
    BY <1>3, <1>4, PlacesTyped
<1>6. \A i \in DOMAIN l : i \in Nat /\ i > 0
  <2>1. buffer["create"][t] \in Seq(Element)
    BY <1>1 DEF UploadInv, BufferInv, Ops
  <2>2. QED
    BY <1>2, <2>1
<1> HIDE DEF l, rw, coords
<1>7. \A i \in DOMAIN l : l[i].id \in Ids /\ ~Exists(tx, t, l[i].id) /\ l[i].id \in IdsOf(l)
  <2> SUFFICES ASSUME NEW i \in DOMAIN l
               PROVE  l[i].id \in Ids /\ ~Exists(tx, t, l[i].id) /\ l[i].id \in IdsOf(l)
    OBVIOUS
  <2>1. l[i].id \in Ids /\ l[i].id \in IdsOf(l)
    BY <1>4 DEF IdsOf
  <2>2. tx.id_seq[t] \in Nat
    BY <1>3, TablesFields, MaxIdAssumption
  <2>3. ~(l[i].id <= tx.id_seq[t])
    BY <1>2, <1>6, <2>2
  <2>4. QED
    BY <1>3, <2>1, <2>3 DEF Sane, Regular
<1>8. /\ AllCovered(scenario.tables, tx, b) /\ \A c \in coords : Covers(b, c)
  BY <1>1, <1>3, <1>5, StillCovered
<1> HIDE DEF b
<1>9. ASSUME NEW i \in DOMAIN l
      PROVE  /\ t = "Node" => Covers(b, rw[i].loc)
             /\ t = "Way" => \A k \in DOMAIN l[i].members : Covers(b, PlaceOf(tx, l[i].members[k].ref))
             /\ t = "Relation" => \A k \in DOMAIN l[i].members :
                                  RefCovered(tx, b, l[i].members[k].type, l[i].members[k].ref)
  BY <1>2, <1>3, <1>7, <1>8, WrittenCovered DEF coords
<1>10. \A m \in tx.members[t] : m.id \notin IdsOf(l)
  <2>1. \A i \in DOMAIN l : \A m \in tx.members[t] : m.id # l[i].id
    BY <1>3, <1>7, NothingOfAbsent
  <2>2. QED
    BY <2>1 DEF IdsOf
<1>11. \A i \in DOMAIN l : rw[i].visible
  BY <1>2 DEF rw, CreatedRows
<1>12. AllCovered(scenario.tables, tx', b)
  <2>1. CASE t = "Node"
    BY <2>1, <1>2, <1>3, <1>7, <1>8, <1>9, NodeWriteCovered
  <2>2. CASE t = "Way"
    BY <2>2, <1>2, <1>3, <1>8, <1>9, <1>10, WayWriteCovered
  <2>3. CASE t = "Relation"
    <3>1. \A i \in DOMAIN l : RelationFits(tx, l[i], b)
      BY <2>3, <1>9 DEF RelationFits
    <3>2. QED
      BY <2>3, <3>1, <1>2, <1>3, <1>8, <1>11, RelationWriteCovered
  <2>4. QED
    BY <2>1, <2>2, <2>3 DEF Types
<1>13. QED
  BY <1>12 DEF b

\* The places of a package are numbers.
LEMMA PackagePlacesTyped ==
    ASSUME UploadInv, NEW t \in Types, PackageStep(t), Sane(tx'), tx' \in Tables
    PROVE  PackagePlaces(t) \subseteq Coord
<1> DEFINE l == packages[package]
<1>0. "Relation" \in Types /\ "Way" \in Types
  BY DEF Types
<1>1. tx \in Tables /\ Listed(l) /\ IdsOf(l) \subseteq Ids
  BY PackageTables
<1>2. ASSUME NEW tb \in Tables, NEW n, n \subseteq Ids, NEW w PROVE DiffPlaces(tb, n, w) \subseteq Coord
  <2>1. n \cup MemberRefs(tb, "Way", w, "Node") \subseteq Ids
    BY <1>0, <1>2, PlacesTyped
  <2>2. QED
    BY <2>1, PlacesTyped DEF DiffPlaces
<1>3. CASE t # "Relation"
  <2> HIDE DEF l
  <2>1. PlacesOf(tx, t, IdsOf(l)) \subseteq Coord /\ PlacesOf(tx', t, IdsOf(l)) \subseteq Coord
    BY <1>1, PlacesTyped
  <2>2. QED
    BY <1>3, <2>1 DEF PackagePlaces, l
<1>4. CASE t = "Relation"
  <2>1. (\A d \in PackagePartial : d.ref \in Ids) /\ PackageFull \subseteq Ids
    BY <1>1, DiffTyped DEF PackageFull, PackagePartial
  <2>2. \A u, new : DiffRefs(PackagePartial, u, new) \subseteq Ids
    BY <2>1 DEF DiffRefs
  <2>3. PlacesOf(tx, t, PackageFull) \subseteq Coord /\ PlacesOf(tx', t, PackageFull) \subseteq Coord
    BY <1>1, <2>1, PlacesTyped
  <2>4. RemovedPlaces \subseteq Coord /\ AddedPlaces \subseteq Coord
    <3> DEFINE n0 == DiffRefs(PackagePartial, "Node", FALSE)
               w0 == DiffRefs(PackagePartial, "Way", FALSE)
               n1 == DiffRefs(PackagePartial, "Node", TRUE)
               w1 == DiffRefs(PackagePartial, "Way", TRUE)
    <3>1. n0 \subseteq Ids /\ n1 \subseteq Ids
      BY <2>1 DEF DiffRefs
    <3>2. RemovedPlaces = DiffPlaces(tx, n0, w0) /\ AddedPlaces = DiffPlaces(tx', n1, w1)
      BY DEF RemovedPlaces, AddedPlaces
    <3> HIDE DEF n0, w0, n1, w1
    <3>3. QED
      BY <1>1, <1>2, <3>1, <3>2
  <2>5. QED
    BY <1>4, <2>3, <2>4 DEF PackagePlaces
<1>5. QED
  BY <1>3, <1>4

\* The diff of a package names each node and way member the relation had not
\* yet (relations_with_changed_way_node_members).
LEMMA AddedMemberNamed ==
    ASSUME NEW tb, NEW l, NEW i \in DOMAIN l, NEW k \in DOMAIN l[i].members,
           l[i].members[k].type \in {"Node", "Way"}, ~IsMember(tb, l[i].id, l[i].members[k])
    PROVE  [type |-> l[i].members[k].type, ref |-> l[i].members[k].ref, new_member |-> TRUE]
               \in relations_with_changed_way_node_members(tb, l)
<1> DEFINE WayNode(j) == {m \in DOMAIN l[j].members : l[j].members[m].type \in {"Node", "Way"}}
           Fresh(j) == {m \in WayNode(j) : ~IsMember(tb, l[j].id, l[j].members[m])}
           Gone(j) == {r \in tb.members["Relation"] :
                              /\ r.id = l[j].id
                              /\ WayNode(j) # {}
                              /\ \A m \in WayNode(j) : \/ l[j].members[m].type # r.type
                                                      \/ l[j].members[m].ref # r.ref}
           NewOf(j) == {[type |-> l[j].members[m].type, ref |-> l[j].members[m].ref, new_member |-> TRUE] :
                          m \in Fresh(j)}
           OldOf(j) == {[type |-> r.type, ref |-> r.ref, new_member |-> FALSE] : r \in Gone(j)}
<1>1. k \in Fresh(i)
  OBVIOUS
<1>2. relations_with_changed_way_node_members(tb, l) = UNION {NewOf(j) \cup OldOf(j) : j \in DOMAIN l}
  BY Zenon DEF relations_with_changed_way_node_members
<1> HIDE DEF Fresh, Gone
<1>3. [type |-> l[i].members[k].type, ref |-> l[i].members[k].ref, new_member |-> TRUE] \in NewOf(i)
  BY <1>1, Zenon
<1> HIDE DEF NewOf, OldOf
<1>4. QED
  BY <1>2, <1>3

\* The members a package adds to a relation are covered, and all of them when
\* one of the added ones is a relation (calc_relation_bbox for the relations
\* with a new relation member, calc_rel_member_difference_bbox for the others).
LEMMA PackageRelationFits ==
    ASSUME Sane(tx), Sane(tx'), NEW rw, GoodWrite(tx, tx', "Relation", packages[package], rw),
           FutureVisible(tx, packages[package]),
           NEW b, \A c \in PackagePlaces("Relation") : Covers(b, c),
           NEW i \in DOMAIN packages[package]
    PROVE  RelationFits(tx, packages[package][i], b)
<1> DEFINE l == packages[package]
           e == l[i]
<1>0. "Relation" \in Types /\ "Way" \in Types
  BY DEF Types
<1>1. /\ \A c \in PlacesOf(tx', "Relation", PackageFull) : Covers(b, c)
      /\ \A c \in AddedPlaces : Covers(b, c)
  BY DEF PackagePlaces
<1>2. CASE e.id \in PackageFull
  <2>1. \A k \in DOMAIN e.members : RefCovered(tx, b, e.members[k].type, e.members[k].ref)
    <3> DEFINE full == PackageFull
    <3> HIDE DEF l, full
    <3>1. GoodWrite(tx, tx', "Relation", l, rw) /\ i \in DOMAIN l /\ l[i].id \in full
      BY <1>2 DEF l, full
    <3>2. \A c \in PlacesOf(tx', "Relation", full) : Covers(b, c)
      BY <1>1 DEF full
    <3>3. QED
      BY <1>0, <3>1, <3>2, WrittenCovered
  <2>2. QED
    BY <2>1 DEF RelationFits
<1>3. CASE e.id \notin PackageFull
  <2>1. \A k \in DOMAIN e.members : ~IsMember(tx, e.id, e.members[k]) => e.members[k].type # "Relation"
    BY <1>3 DEF PackageFull, relations_with_new_relation_members
  <2>2. ASSUME NEW k \in DOMAIN e.members, ~IsMember(tx, e.id, e.members[k])
        PROVE  RefCovered(tx, b, e.members[k].type, e.members[k].ref)
    <3> DEFINE mt == e.members[k].type
               ref == e.members[k].ref
    <3>1. mt \in {"Node", "Way"}
      <4>1. e.members[k] \in [type: Types, ref: Ids]
        <5>1. e.members \in Seq([type: Types, ref: Ids])
          BY DEF GoodWrite, GoodRows, Listed, Resolved
        <5>2. QED
          BY <5>1, SeqElement, Zenon
      <4>2. QED
        BY <4>1, <2>1, <2>2 DEF Types
    <3>2. [type |-> mt, ref |-> ref, new_member |-> TRUE] \in PackagePartial
      <4>1. i \in DOMAIN l
        OBVIOUS
      <4> HIDE DEF l
      <4>2. [type |-> mt, ref |-> ref, new_member |-> TRUE]
                \in relations_with_changed_way_node_members(tx, l)
        BY <2>2, <3>1, <4>1, AddedMemberNamed
      <4>3. QED
        BY <4>2 DEF PackagePartial, l
    <3> DEFINE n1 == DiffRefs(PackagePartial, "Node", TRUE)
               w1 == DiffRefs(PackagePartial, "Way", TRUE)
    <3>3. (mt = "Node" => ref \in n1) /\ (mt = "Way" => ref \in w1)
      BY <3>2 DEF DiffRefs
    <3>4. \A c \in DiffPlaces(tx', n1, w1) : Covers(b, c)
      BY <1>1 DEF AddedPlaces
    <3> HIDE DEF n1, w1
    <3>5. /\ \A id \in n1 : Exists(tx', "Node", id) => RefCovered(tx', b, "Node", id)
          /\ \A id \in w1 : RefCovered(tx', b, "Way", id)
      BY <3>4, PlacesSuffice
    <3>6. tx'.current["Node"] = tx.current["Node"] /\ tx'.members["Way"] = tx.members["Way"]
      BY DEF GoodWrite, Rewritten, CurrentRewritten, Types
    <3>7. \A u, r : RefCovered(tx', b, u, r) = RefCovered(tx, b, u, r)
      BY <3>6 DEF RefCovered, PlaceOf
    <3>8. mt = "Node" => Exists(tx', "Node", ref)
      <4>1. mt = "Node" => Visible(tx, "Node", ref) /\ ref \in Ids
        <5>1. e.members \in Seq([type: Types, ref: Ids])
          BY DEF GoodWrite, GoodRows, Listed, Resolved
        <5>2. e.members[k] \in [type: Types, ref: Ids]
          BY <5>1, SeqElement, Zenon
        <5>3. QED
          BY <5>2 DEF FutureVisible
      <4>2. mt = "Node" => Exists(tx, "Node", ref)
        BY <4>1 DEF Sane, Regular, Types
      <4>3. QED
        BY <4>2, <3>6 DEF Exists
    <3>9. QED
      BY <3>1, <3>3, <3>5, <3>7, <3>8
  <2>3. QED
    BY <2>1, <2>2 DEF RelationFits
<1>4. QED
  BY <1>2, <1>3

LEMMA ModifiesCovered ==
    ASSUME CoverStart, NEW t \in Types, Modifies(t)
    PROVE  AllCovered(scenario.tables, tx', TotalBox')
<1> DEFINE l == packages[package]
           rw == ShownRows(l)
           b == TotalBox'
           coords == PackagePlaces(t)
<1>1. PackageStep(t) /\ Boxed(t, coords) /\ UploadInv
  BY DEF Modifies, CoverStart
<1>2. /\ UploadInv' /\ GoodWrite(tx, tx', t, l, rw) /\ FutureVisible(tx, l)
  BY <1>1, PackageStepKeeps DEF PackageStep
<1>3. Sane(tx') /\ tx' \in Tables /\ Sane(tx) /\ tx \in Tables /\ cs' = cs
  BY <1>1, <1>2 DEF UploadInv, TablesInv, Sane, PackageStep, handlerVars
<1>4. coords \subseteq Coord
  BY <1>1, <1>3, PackagePlacesTyped
<1>5. /\ AllCovered(scenario.tables, tx, b) /\ \A c \in coords : Covers(b, c)
  <2> HIDE DEF coords
  <2>1. QED
    BY <1>1, <1>3, <1>4, StillCovered
<1>6. \A i \in DOMAIN l : rw[i].visible
  BY DEF ShownRows, ShownRow
<1>7. CASE t = "Relation"
  <2>1. \A i \in DOMAIN l : RelationFits(tx, l[i], b)
    <3> HIDE DEF b, rw
    <3>1. QED
      BY <1>2, <1>3, <1>5, <1>7, PackageRelationFits
  <2> HIDE DEF l, rw, b
  <2>2. AllCovered(scenario.tables, tx', b)
    BY <2>1, <1>2, <1>3, <1>5, <1>6, <1>7, RelationWriteCovered
  <2>3. QED
    BY <2>2 DEF b
<1>8. CASE t # "Relation"
  <2>1. /\ \A c \in PlacesOf(tx, t, IdsOf(l)) : Covers(b, c)
        /\ \A c \in PlacesOf(tx', t, IdsOf(l)) : Covers(b, c)
    BY <1>5, <1>8 DEF PackagePlaces
  <2>2. \A i \in DOMAIN l : l[i].id \in IdsOf(l)
    BY DEF IdsOf
  <2> HIDE DEF l, rw, b
  <2>3. ASSUME NEW i \in DOMAIN l
        PROVE  /\ t = "Node" => Covers(b, rw[i].loc)
               /\ t = "Way" => \A k \in DOMAIN l[i].members : Covers(b, PlaceOf(tx, l[i].members[k].ref))
    BY <1>2, <1>3, <2>1, <2>2, WrittenCovered
  <2>4. CASE t = "Node"
    <3>1. \A id \in IdsOf(l) : Exists(tx, "Node", id) => Covers(b, PlaceOf(tx, id))
      BY <1>3, <2>1, <2>4, PlacesSuffice
    <3>2. AllCovered(scenario.tables, tx', b)
      BY <1>2, <1>3, <1>5, <2>2, <2>3, <2>4, <3>1, NodeWriteCovered
    <3>3. QED
      BY <3>2 DEF b
  <2>5. CASE t = "Way"
    <3>1. \A m \in tx.members["Way"] : m.id \in IdsOf(l) => Covers(b, PlaceOf(tx, m.ref))
      BY <1>3, <2>1, <2>5, PlacesSuffice
    <3>2. AllCovered(scenario.tables, tx', b)
      BY <1>2, <1>3, <1>5, <2>3, <2>5, <3>1, WayWriteCovered
    <3>3. QED
      BY <3>2 DEF b
  <2>6. QED
    BY <1>8, <2>4, <2>5 DEF Types
<1>9. QED
  BY <1>7, <1>8

LEMMA DeletesCovered ==
    ASSUME CoverStart, NEW t \in Types, Deletes(t)
    PROVE  AllCovered(scenario.tables, tx', TotalBox')
<1>1. PICK l, skipped : DeleteStep(t, l, skipped)
  BY DEF Deletes
<1> DEFINE rw == HiddenRows(tx, t, l)
           b == TotalBox'
           ids == IdsOf(DeleteList(t))
           coords == PlacesOf(tx, t, ids)
<1>2. Boxed(t, coords) /\ UploadInv
  BY DEF Deletes, CoverStart
<1>3. /\ UploadInv' /\ GoodWrite(tx, tx', t, l, rw)
  BY <1>1, <1>2, DeleteStepKeeps
<1>4. Sane(tx') /\ tx' \in Tables /\ Sane(tx) /\ tx \in Tables /\ cs' = cs
  BY <1>1, <1>2, <1>3 DEF UploadInv, TablesInv, Sane, DeleteStep, handlerVars
<1>5. ids \subseteq Ids
  <2>1. Listed(DeleteList(t))
    BY <1>1, <1>2, DeletedFits DEF DeleteStep, FitList
  <2>2. QED
    BY <2>1, ListedIds
<1>6. \A i \in DOMAIN l : l[i].id \in ids /\ Exists(tx, t, l[i].id)
  BY <1>1 DEF DeleteStep, Part, IdsOf
<1>7. IdsOf(l) \subseteq ids
  BY <1>6 DEF IdsOf
<1>8. \A i \in DOMAIN l : /\ rw[i].loc = tx.current[t][l[i].id].loc
                          /\ l[i].members = <<>>
  <2>1. \A i \in DOMAIN l : ~rw[i].visible /\ rw[i].loc = tx.current[t][l[i].id].loc
    BY DEF HiddenRows, HiddenRow
  <2>2. QED
    BY <1>3, <2>1 DEF GoodWrite, GoodRows
<1> HIDE DEF ids, rw
<1>9. coords \subseteq Coord
  BY <1>4, <1>5, PlacesTyped
<1>10. /\ AllCovered(scenario.tables, tx, b) /\ \A c \in PlacesOf(tx, t, ids) : Covers(b, c)
  BY <1>2, <1>4, <1>9, StillCovered
<1> HIDE DEF b
<1>11. \A i \in DOMAIN l : DOMAIN l[i].members = {}
  BY <1>8
<1>12. AllCovered(scenario.tables, tx', b)
  <2>1. CASE t = "Node"
    <3>1. \A id \in ids : Exists(tx, "Node", id) => Covers(b, PlaceOf(tx, id))
      BY <1>4, <1>10, <2>1, PlacesSuffice
    <3>2. \A i \in DOMAIN l : Covers(b, rw[i].loc) /\ Covers(b, PlaceOf(tx, l[i].id))
      BY <1>6, <1>8, <2>1, <3>1 DEF PlaceOf
    <3>3. QED
      BY <1>3, <1>4, <1>10, <2>1, <3>2, NodeWriteCovered
  <2>2. CASE t = "Way"
    <3>1. \A m \in tx.members["Way"] : m.id \in ids => Covers(b, PlaceOf(tx, m.ref))
      BY <1>4, <1>10, <2>2, PlacesSuffice
    <3>2. QED
      BY <1>3, <1>4, <1>7, <1>10, <1>11, <2>2, <3>1, WayWriteCovered
  <2>3. CASE t = "Relation"
    <3>1. \A m \in tx.members["Relation"] : m.id \in ids => RefCovered(tx, b, m.type, m.ref)
      BY <1>4, <1>10, <2>3, PlacesSuffice
    <3>2. \A i \in DOMAIN l : RelationFits(tx, l[i], b)
      BY <1>11 DEF RelationFits
    <3>3. QED
      BY <1>3, <1>4, <1>6, <1>10, <2>3, <3>1, <3>2, RelationWriteCovered
  <2>4. QED
    BY <2>1, <2>2, <2>3 DEF Types
<1>13. QED
  BY <1>12 DEF b

BoxingInv == CountingInv /\ CoveredInv

LEMMA NothingToCover ==
    ASSUME NEW base, NEW b
    PROVE  AllCovered(base, base, b)
<1>1. \A t : Added(base, base, t) = {}
  BY DEF Added
<1>2. QED
  BY <1>1 DEF AllCovered, NodesCovered, WaysCovered, RelationsCovered

LEMMA CoveringKept ==
    ASSUME BoxingInv, [Next]_upload_vars
    PROVE  BoxingInv'
<1>1. CountingInv'
  BY CountingKept DEF BoxingInv
<1>2. /\ UploadInv /\ BoxInv /\ AllCovered(scenario.tables, db, cs.bbox)
      /\ AllCovered(scenario.tables, tx, TotalBox)
  BY DEF BoxingInv, CountingInv, CoveredInv
<1>3. BoxInv' /\ db' \in Tables
  BY <1>1 DEF CountingInv, UploadInv, TablesInv, Sane
<1>4. /\ cs'.bbox \in bbox_t /\ TotalBox' \in bbox_t /\ Within(cs'.bbox, TotalBox')
  <2>0. "Node" \in Types /\ "Way" \in Types /\ "Relation" \in Types
    BY DEF Types
  <2>1. m_bbox' \in [Types -> bbox_t] /\ cs'.bbox \in bbox_t
    BY <1>3 DEF BoxInv, Changeset
  <2>2. get_bbox' \in bbox_t
    <3>1. undefined_bbox \in bbox_t
      BY DEF undefined_bbox, bbox_t
    <3>2. m_bbox'["Node"] \in bbox_t /\ m_bbox'["Way"] \in bbox_t /\ m_bbox'["Relation"] \in bbox_t
      BY <2>0, <2>1
    <3>3. QED
      BY <3>1, <3>2, ExpandCovers DEF get_bbox
  <2>3. QED
    BY <2>1, <2>2, ExpandCovers DEF TotalBox
<1>5. CASE tx' = db' /\ AllCovered(scenario'.tables, db', cs'.bbox)
  <2> DEFINE a == cs'.bbox
             b == TotalBox'
  <2>1. \A c \in Int : Covers(a, c) => Covers(b, c)
    BY <1>4, WithinCovers
  <2> HIDE DEF a, b
  <2>2. AllCovered(scenario'.tables, db', b)
    <3>1. AllCovered(scenario'.tables, db', a)
      BY <1>5 DEF a
    <3>2. QED
      BY <1>3, <2>1, <3>1, LargerBox
  <2>3. QED
    BY <1>1, <1>5, <2>2 DEF BoxingInv, CoveredInv, b
<1>6. CASE Commit
  <2>1. tx' = tx /\ db' = tx /\ scenario' = scenario
    BY <1>6 DEF Commit
  <2>2. cs'.bbox = TotalBox
    <3>1. cs \in Changeset
      BY <1>2 DEF BoxInv
    <3>2. QED
      BY <1>6, <3>1 DEF Commit, update_changeset, TotalBox, Changeset
  <2>3. AllCovered(scenario'.tables, db', cs'.bbox)
    BY <1>2, <2>1, <2>2
  <2>4. QED
    BY <1>5, <2>1, <2>3
<1>7. CASE Aborts
  <2>1. tx' = db /\ db' = db /\ cs' = cs /\ scenario' = scenario
    BY <1>7 DEF Aborts, Throws, Throw
  <2>2. QED
    BY <1>2, <1>5, <2>1
<1>8. CASE Writes
  <2>1. PICK t \in Types : Creates(t) \/ Modifies(t) \/ Deletes(t)
    BY <1>8 DEF Writes
  <2>2. CoverStart
    BY <1>2 DEF CoverStart
  <2>3. AllCovered(scenario.tables, tx', TotalBox')
    BY <2>1, <2>2, CreatesCovered, ModifiesCovered, DeletesCovered
  <2>4. db' = db /\ cs' = cs /\ scenario' = scenario
    BY <2>1 DEF Creates, Modifies, Deletes, CreateStep, PackageStep, DeleteStep, handlerVars
  <2>5. QED
    BY <1>1, <1>2, <2>3, <2>4 DEF BoxingInv, CoveredInv
<1>9. CASE Rests
  <2>1. db' = db /\ cs' = cs /\ tx' = tx /\ m_bbox' = m_bbox /\ scenario' = scenario
    BY <1>9 DEF Rests
  <2>2. TotalBox' = TotalBox
    BY <2>1 DEF TotalBox, get_bbox
  <2>3. QED
    BY <1>1, <1>2, <2>1, <2>2 DEF BoxingInv, CoveredInv
<1>10. QED
  BY <1>2, <1>6, <1>7, <1>8, <1>9, StepCases DEF BoxInv

\* What an upload has written is covered by the box of the changeset, once it
\* is committed, and until then by that box together with those of the
\* updaters.
THEOREM BoxingInvariant == Spec => []BoxingInv
<1>1. Init => BoxingInv
  <2> SUFFICES ASSUME Init PROVE BoxingInv
    OBVIOUS
  <2>1. db = scenario.tables /\ tx = scenario.tables
    BY DEF Init
  <2>2. CoveredInv
    BY <2>1, NothingToCover DEF CoveredInv
  <2>3. QED
    BY <2>2, InitCounting DEF BoxingInv
<1>2. BoxingInv /\ [Next]_upload_vars => BoxingInv'
  BY CoveringKept
<1>3. QED
  BY <1>1, <1>2, PTL DEF Spec

\* BoxCoversNodesAndWays, for every database, every document and any number
\* of uploads: the box of the changeset covers every node it has written,
\* before and after, and the places the nodes of every way it has written
\* have now, those of the version before included (each updater extends its
\* box before and after it writes, and get_bbox joins the three).
THEOREM BoxAlwaysCoversNodesAndWays == Spec => []BoxCoversNodesAndWays
<1>1. BoxingInv => BoxCoversNodesAndWays
  BY DEF BoxingInv, CoveredInv, AllCovered, NodesCovered, WaysCovered, BoxCoversNodesAndWays,
         NewHistory, Added, NodeAt, PlaceOf
<1>2. QED
  BY <1>1, BoxingInvariant, PTL

\* BoxCoversAddedMembers, for every database, every document and any number
\* of uploads: the box covers the nodes and ways that a version of a relation
\* adds, all members of a relation that is created, deleted or gets a new
\* relation as a member (the two branches of process_modify_relations).
THEOREM BoxAlwaysCoversAddedMembers == Spec => []BoxCoversAddedMembers
<1>1. BoxingInv => BoxCoversAddedMembers
  <2> SUFFICES ASSUME BoxingInv, NEW h \in NewHistory("Relation")
               PROVE  LET added == MemberChange(h.id, h.version, h.version - 1)
                          all == MemberChange(h.id, h.version, 0)
                      IN  /\ \A m \in added : MemberCovered(m)
                          /\ (\E m \in added : m.type = "Relation") => \A m \in all : MemberCovered(m)
                          /\ ~h.visible => \A m \in MemberChange(h.id, h.version - 1, 0) : MemberCovered(m)
    BY DEF BoxCoversAddedMembers
  <2>0. "Relation" \in Types
    BY DEF Types
  <2>1. RelationsCovered(scenario.tables, db, cs.bbox) /\ h \in Added(scenario.tables, db, "Relation")
        /\ db \in Tables
    BY DEF BoxingInv, CoveredInv, AllCovered, NewHistory, Added, CountingInv, UploadInv, TablesInv, Sane
  <2>2. ASSUME NEW v, NEW u, NEW m \in MemberChange(h.id, v, u)
        PROVE  /\ m.type \in Types /\ m.ref \in Ids
               /\ NewMember(db, h.id, v, u, m.type, m.ref) /\ HasMember(db, h.id, v, m.type, m.ref)
    <3> DEFINE Refs(x) == {[type |-> y.type, ref |-> y.ref] : y \in MembersAt(db, "Relation", h.id, x)}
    <3>1. m \in Refs(v) /\ m \notin Refs(u)
      BY <2>2 DEF MemberChange
    <3>2. PICK r \in db.history_members["Relation"] :
            r.id = h.id /\ r.version = v /\ m = [type |-> r.type, ref |-> r.ref]
      BY <3>1 DEF MembersAt
    <3>3. m.type \in Types /\ m.ref \in Ids
      BY <2>0, <2>1, <3>2, PlacesAreNumbers
    <3>4. HasMember(db, h.id, v, m.type, m.ref)
      BY <3>2 DEF HasMember
    <3>5. ~HasMember(db, h.id, u, m.type, m.ref)
      <4> SUFFICES ASSUME HasMember(db, h.id, u, m.type, m.ref) PROVE FALSE
        OBVIOUS
      <4>1. PICK x \in db.history_members["Relation"] :
              x.id = h.id /\ x.version = u /\ x.type = m.type /\ x.ref = m.ref
        BY DEF HasMember
      <4>2. [seq |-> x.seq, type |-> x.type, ref |-> x.ref] \in MembersAt(db, "Relation", h.id, u)
        BY <4>1 DEF MembersAt
      <4>3. [type |-> x.type, ref |-> x.ref] \in Refs(u)
        BY <4>2
      <4>4. m = [type |-> x.type, ref |-> x.ref]
        BY <3>2, <4>1
      <4>5. QED
        BY <3>1, <4>3, <4>4
    <3>6. QED
      BY <3>3, <3>4, <3>5 DEF NewMember
  <2>3. ASSUME NEW m, m.type \in Types, RefCovered(db, cs.bbox, m.type, m.ref) PROVE MemberCovered(m)
    BY <2>3 DEF RefCovered, MemberCovered, NodeAt, PlaceOf, Types
  <2>4. \A m \in MemberChange(h.id, h.version, h.version - 1) : MemberCovered(m)
    BY <2>1, <2>2, <2>3 DEF RelationsCovered
  <2>5. (\E m \in MemberChange(h.id, h.version, h.version - 1) : m.type = "Relation") =>
           \A m \in MemberChange(h.id, h.version, 0) : MemberCovered(m)
    BY <2>1, <2>2, <2>3 DEF RelationsCovered
  <2>6. ~h.visible => \A m \in MemberChange(h.id, h.version - 1, 0) : MemberCovered(m)
    BY <2>1, <2>2, <2>3 DEF RelationsCovered
  <2>7. QED
    BY <2>4, <2>5, <2>6
<1>2. QED
  BY <1>1, BoxingInvariant, PTL

-----------------------------------------------------------------------------
(* Relations that are members of relations. *)

\* The packages of a modification are numbered from 1 without a gap.
Numbered(p) ==
    /\ DOMAIN p \subseteq Nat \ {0}
    /\ \A k \in DOMAIN p : k > 1 => k - 1 \in DOMAIN p

\* The k-th element with an id comes after the one before it.
LEMMA PackagesNumbered ==
    ASSUME NEW l, DOMAIN l \subseteq Nat
    PROVE  Numbered(BuildPackages(l))
<1> DEFINE Upto(i) == {j \in DOMAIN l : j <= i /\ l[j].id = l[i].id}
<1>1. \A i \in DOMAIN l : Occurrence(l, i) = Cardinality(Upto(i))
  BY DEF Occurrence
<1>2. DOMAIN BuildPackages(l) = {Occurrence(l, i) : i \in DOMAIN l}
  BY DEF BuildPackages
<1>3. ASSUME NEW i \in DOMAIN l PROVE IsFiniteSet(Upto(i)) /\ i \in Upto(i)
  <2>1. i \in Nat /\ Upto(i) \subseteq 0..i
    OBVIOUS
  <2>2. IsFiniteSet(0..i)
    BY <2>1, FS_Interval
  <2>3. IsFiniteSet(Upto(i))
    BY <2>1, <2>2, FS_Subset
  <2>4. QED
    BY <2>1, <2>3
<1>4. ASSUME NEW i \in DOMAIN l
      PROVE  /\ Cardinality(Upto(i)) \in Nat \ {0}
             /\ Cardinality(Upto(i)) > 1 =>
                  \E j \in DOMAIN l : Cardinality(Upto(j)) = Cardinality(Upto(i)) - 1
  <2> DEFINE S == Upto(i)
             before == S \ {i}
  <2>1. IsFiniteSet(S) /\ i \in S /\ i \in Nat
    BY <1>3
  <2>2. \A j \in before : j \in DOMAIN l /\ j \in Nat /\ j < i /\ l[j].id = l[i].id
    OBVIOUS
  <2>3. ASSUME NEW j \in before, \A k \in before : k <= j PROVE Upto(j) = before
    BY <2>2, <2>3
  <2> HIDE DEF S
  <2>4. /\ Cardinality(S) \in Nat /\ Cardinality(S) # 0
        /\ IsFiniteSet(before) /\ Cardinality(before) = Cardinality(S) - 1
    BY <2>1, FS_CardinalityType, FS_EmptySet, FS_RemoveElement
  <2>5. ASSUME Cardinality(S) > 1 PROVE \E j \in before : \A k \in before : k <= j
    <3>1. before # {}
      BY <2>4, <2>5, FS_EmptySet
    <3> HIDE DEF before
    <3> DEFINE T == {i - j : j \in before}
    <3>2. T \subseteq Nat /\ T # {}
      BY <2>1, <2>2, <3>1
    <3>3. PICK y \in T : \A z \in T : y <= z
      BY <3>2, Least
    <3>4. PICK j \in before : y = i - j
      BY <3>3
    <3>5. \A k \in before : y <= i - k
      BY <3>3
    <3> HIDE DEF T
    <3>6. \A k \in before : k <= j
      BY <2>1, <2>2, <3>4, <3>5
    <3>7. QED
      BY <3>6
  <2>6. ASSUME Cardinality(S) > 1 PROVE \E j \in DOMAIN l : Cardinality(Upto(j)) = Cardinality(S) - 1
    <3>1. PICK j \in before : \A k \in before : k <= j
      BY <2>5, <2>6
    <3>2. Upto(j) = before /\ j \in DOMAIN l
      BY <2>2, <2>3, <3>1
    <3> HIDE DEF Upto
    <3>3. QED
      BY <3>2, <2>4
  <2>7. QED
    BY <2>4, <2>6 DEF S
<1> HIDE DEF Upto
<1>5. QED
  BY <1>1, <1>2, <1>4 DEF Numbered

\* Behind the first number that is missing nothing follows.
LEMMA NoneBehind ==
    ASSUME NEW p, Numbered(p), NEW n \in Nat \ {0}, n \notin DOMAIN p
    PROVE  \A k \in DOMAIN p : k < n
<1> DEFINE T == {k \in DOMAIN p : k >= n}
<1> SUFFICES ASSUME T # {} PROVE FALSE
  BY DEF Numbered
<1>1. T \subseteq Nat
  BY DEF Numbered
<1>2. PICK x \in T : \A y \in T : x <= y
  BY <1>1, Least
<1>3. x \in DOMAIN p /\ x > n /\ x \in Nat
  BY <1>1, <1>2
<1>4. x - 1 \in DOMAIN p /\ x - 1 >= n
  BY <1>3 DEF Numbered
<1>5. QED
  BY <1>2, <1>3, <1>4

\* The loop over the packages of relations, and the relations whose turn has
\* not come.
Looping == todo # <<>> /\ Head(todo) = [op |-> "package", type |-> "Relation"]
LaterIds == UNION {IdsOf(packages[k]) : k \in {j \in DOMAIN packages : j >= package}}

\* Relations in a table refer to visible ones or to these.
VisibleBut(tb, awaited) ==
    \A m \in tb.members["Relation"] :
        m.type = "Relation" => Visible(tb, "Relation", m.ref) \/ m.ref \in awaited

\* Inside the loop a relation may refer to one that a later package undeletes:
\* lock_future_members leaves out the ids of all packages.
LoopInv ==
    IF Looping
    THEN /\ package \in Nat \ {0}
         /\ Numbered(packages)
         /\ VisibleBut(tx, LaterIds)
         /\ \A k \in DOMAIN packages : k < package =>
                \A id \in IdsOf(packages[k]) : Visible(tx, "Relation", id)
    ELSE RelationRefsVisible(tx)

RelationsInv ==
    /\ RelationRefsVisible(db)
    /\ phase = "flushing" \/ todo = <<>>
    /\ LoopInv

\* Nodes and ways are written: nothing changes for relations.
LEMMA RelationsUntouched ==
    ASSUME NEW tb, NEW nt, NEW t \in Types, t # "Relation", NEW l, NEW rw, GoodWrite(tb, nt, t, l, rw)
    PROVE  /\ nt.members["Relation"] = tb.members["Relation"]
           /\ RelationRefsVisible(tb) => RelationRefsVisible(nt)
<1>1. nt.current["Relation"] = tb.current["Relation"] /\ nt.members["Relation"] = tb.members["Relation"]
  BY DEF GoodWrite, Rewritten, CurrentRewritten, Types
<1>2. QED
  BY <1>1 DEF RelationRefsVisible, Visible

\* Relations are created or modified.
LEMMA RelationsShown ==
    ASSUME NEW tb, tb \in Tables, NEW nt, NEW l, NEW rw, GoodWrite(tb, nt, "Relation", l, rw),
           \A i \in DOMAIN l : rw[i].visible,
           NEW awaited, VisibleBut(tb, awaited),
           NEW exempt, FutureRelations(tb, l, exempt)
    PROVE  /\ \A id \in Ids : Visible(tb, "Relation", id) => Visible(nt, "Relation", id)
           /\ \A id \in IdsOf(l) : Visible(nt, "Relation", id)
           /\ VisibleBut(nt, (awaited \cup exempt) \ IdsOf(l))
<1>0. "Relation" \in Types
  BY DEF Types
<1>1. Rewritten(tb, nt, "Relation", l, rw) /\ GoodRows(tb, "Relation", l, rw)
  BY DEF GoodWrite
<1>2. /\ nt \in Tables
      /\ \A id \in Ids : \/ nt.current["Relation"][id] = tb.current["Relation"][id] /\ id \notin IdsOf(l)
                         \/ \E i \in DOMAIN l : l[i].id = id /\ nt.current["Relation"][id] = rw[i]
      /\ \A i \in DOMAIN l : l[i].id \in Ids
  BY <1>0, <1>1, RowsAfter
<1>3. \A i \in DOMAIN l : nt.current["Relation"][l[i].id] = rw[i]
  BY <1>1 DEF Rewritten, CurrentRewritten
<1>4. \A id \in Ids : Visible(tb, "Relation", id) => Visible(nt, "Relation", id)
  BY <1>2 DEF Visible
<1>5. \A id \in IdsOf(l) : Visible(nt, "Relation", id)
  BY <1>3 DEF Visible, IdsOf
<1>6. ASSUME NEW m \in nt.members["Relation"], m.type = "Relation"
      PROVE  m.ref \in Ids /\ (Visible(tb, "Relation", m.ref) \/ m.ref \in awaited \/ m.ref \in exempt)
  <2>1. m.ref \in Ids
    <3>1. nt.members["Relation"] \subseteq MemberRow
      BY <1>0, <1>2, TablesFields
    <3>2. QED
      BY <3>1 DEF MemberRow
  <2>2. \/ m \in tb.members["Relation"]
        \/ \E i \in DOMAIN l : \E k \in DOMAIN l[i].members : m = MemberRowOf(l[i], k)
    BY <1>1 DEF Rewritten, CurrentRewritten
  <2>3. CASE m \in tb.members["Relation"]
    BY <1>6, <2>1, <2>3 DEF VisibleBut
  <2>4. ASSUME NEW i \in DOMAIN l, NEW k \in DOMAIN l[i].members, m = MemberRowOf(l[i], k)
        PROVE  Visible(tb, "Relation", m.ref) \/ m.ref \in exempt
    <3>1. m.type = l[i].members[k].type /\ m.ref = l[i].members[k].ref
      BY <2>4 DEF MemberRowOf
    <3>2. QED
      BY <1>6, <3>1 DEF FutureRelations
  <2>5. QED
    BY <2>1, <2>2, <2>3, <2>4
<1>7. VisibleBut(nt, (awaited \cup exempt) \ IdsOf(l))
  BY <1>4, <1>5, <1>6 DEF VisibleBut
<1>8. QED
  BY <1>4, <1>5, <1>7

\* Relations are deleted.
LEMMA RelationsHidden ==
    ASSUME NEW tb, tb \in Tables, NEW nt, NEW l, NEW rw, GoodWrite(tb, nt, "Relation", l, rw),
           \A i \in DOMAIN l : l[i].members = <<>>,
           \A i \in DOMAIN l : \A x \in tb.members["Relation"] :
               x.type = "Relation" /\ x.ref = l[i].id => x.id \in IdsOf(l),
           RelationRefsVisible(tb)
    PROVE  RelationRefsVisible(nt)
<1>0. "Relation" \in Types
  BY DEF Types
<1>1. Rewritten(tb, nt, "Relation", l, rw)
  BY DEF GoodWrite
<1> SUFFICES ASSUME NEW m \in nt.members["Relation"], m.type = "Relation"
             PROVE  Visible(nt, "Relation", m.ref)
  BY DEF RelationRefsVisible
<1>2. m \in tb.members["Relation"] /\ m.id \notin IdsOf(l)
  <2>1. \A i \in DOMAIN l : DOMAIN l[i].members = {}
    OBVIOUS
  <2>2. QED
    BY <2>1, <1>1 DEF Rewritten, CurrentRewritten
<1>3. m.ref \in Ids
  <2>1. tb.members["Relation"] \subseteq MemberRow
    BY <1>0, TablesFields
  <2>2. QED
    BY <1>2, <2>1 DEF MemberRow
<1>4. m.ref \notin IdsOf(l)
  BY <1>2 DEF IdsOf
<1>5. nt.current["Relation"][m.ref] = tb.current["Relation"][m.ref]
  BY <1>1, <1>3, <1>4 DEF Rewritten, CurrentRewritten
<1>6. QED
  BY <1>2, <1>5 DEF RelationRefsVisible, Visible

\* Before a call that is not a round of the loop, and after it, the loop is
\* not open.
LEMMA CallsOutsideLoop ==
    ASSUME PackageInv, NEW op, NEW t, Calling(op, t), op # "package" \/ t # "Relation"
    PROVE  ~Looping
  BY DEF Calling, Looping

LEMMA ReturnsOutsideLoop ==
    ASSUME PackageInv, todo # <<>>, todo' = Tail(todo)
    PROVE  ~Looping'
<1>1. /\ Tail(todo) \in Seq(Call)
      /\ \A j \in DOMAIN Tail(todo) : Tail(todo)[j].op # "package"
  BY NoPackageLeft
<1> DEFINE r == Tail(todo)
           C == Call
<1>2. r \in Seq(C) /\ todo' = r
  BY <1>1
<1>3. \A j \in DOMAIN r : r[j].op # "package"
  BY <1>1
<1> HIDE DEF r, C
<1>4. ASSUME r # <<>> PROVE Head(r).op # "package"
  <2>1. 1 \in DOMAIN r /\ Head(r) = r[1]
    BY <1>2, <1>4, HeadTail
  <2>2. QED
    BY <2>1, <1>3
<1>5. QED
  BY <1>2, <1>4 DEF Looping

LEMMA CreateKeepsRelations ==
    ASSUME UploadInv, RelationsInv, NEW t \in Types, CreateStep(t)
    PROVE  RelationsInv'
<1> DEFINE l == CreateList(t)
           rw == CreatedRows(buffer["create"][t])
<1>1. /\ Calling("create", t) /\ db' = db /\ phase' = phase /\ todo' = Tail(todo)
      /\ FutureRelations(tx, l, IdsOf(l))
  BY DEF CreateStep, handlerVars, Return
<1>2. ~Looping /\ ~Looping' /\ phase = "flushing"
  BY <1>1, CallsOutsideLoop, ReturnsOutsideLoop DEF UploadInv, Calling
<1>3. GoodWrite(tx, tx', t, l, rw) /\ tx \in Tables /\ RelationRefsVisible(tx)
  BY <1>2, CreateStepKeeps DEF UploadInv, TablesInv, Sane, RelationsInv, LoopInv
<1>4. \A i \in DOMAIN l : rw[i].visible
  <2>1. DOMAIN l = DOMAIN buffer["create"][t]
    BY CreateStepKeeps
  <2>2. QED
    BY <2>1 DEF CreatedRows
<1> HIDE DEF l, rw
<1>5. RelationRefsVisible(tx')
  <2>1. CASE t # "Relation"
    BY <1>3, <2>1, RelationsUntouched
  <2>2. CASE t = "Relation"
    <3>1. VisibleBut(tx, {})
      BY <1>3 DEF VisibleBut, RelationRefsVisible
    <3>2. VisibleBut(tx', ({} \cup IdsOf(l)) \ IdsOf(l))
      BY <1>1, <1>3, <1>4, <2>2, <3>1, RelationsShown
    <3>3. QED
      BY <3>2 DEF VisibleBut, RelationRefsVisible
  <2>3. QED
    BY <2>1, <2>2
<1>6. QED
  BY <1>1, <1>2, <1>5 DEF RelationsInv, LoopInv

LEMMA DeleteKeepsRelations ==
    ASSUME UploadInv, RelationsInv, UnmixedDeletes, NEW t \in Types, NEW m, NEW skipped,
           DeleteStep(t, m, skipped)
    PROVE  RelationsInv'
<1> DEFINE rw == HiddenRows(tx, t, m)
<1>1. /\ Calling("delete", t) /\ db' = db /\ phase' = phase /\ todo' = Tail(todo)
      /\ Part(m, DeleteList(t)) /\ PlaceholdersKnown(ct.created, t, buffer["delete"][t])
      /\ \A i \in DOMAIN m : \A x \in tx.members["Relation"] :
               x.type = t /\ x.ref = m[i].id => x.id \in IdsOf(m)
  BY DEF DeleteStep, handlerVars, Return
<1>2. ~Looping /\ ~Looping' /\ phase = "flushing"
  BY <1>1, CallsOutsideLoop, ReturnsOutsideLoop DEF UploadInv, Calling
<1>3. GoodWrite(tx, tx', t, m, rw) /\ tx \in Tables /\ RelationRefsVisible(tx)
  BY <1>2, DeleteStepKeeps DEF UploadInv, TablesInv, Sane, RelationsInv, LoopInv
<1>4. \A i \in DOMAIN m : m[i].members = <<>>
  BY <1>1, DeletedFits DEF Part
<1> HIDE DEF rw
<1>5. RelationRefsVisible(tx')
  <2>1. CASE t # "Relation"
    BY <1>3, <2>1, RelationsUntouched
  <2>2. CASE t = "Relation"
    BY <1>1, <1>3, <1>4, <2>2, RelationsHidden
  <2>3. QED
    BY <2>1, <2>2
<1>6. QED
  BY <1>1, <1>2, <1>5 DEF RelationsInv, LoopInv

LEMMA ModifyKeepsRelations ==
    ASSUME UploadInv, RelationsInv, NEW t \in Types, ModifyStep(t)
    PROVE  RelationsInv'
<1>1. /\ Calling("modify", t) /\ db' = db /\ tx' = tx /\ phase' = phase
      /\ todo' = <<[op |-> "package", type |-> t]>> \o Tail(todo)
      /\ packages' = BuildPackages(ModifyList(t)) /\ package' = 1
  BY DEF ModifyStep, handlerVars
<1>2. ~Looping /\ phase = "flushing"
  BY <1>1, CallsOutsideLoop DEF UploadInv, Calling
<1>3. RelationRefsVisible(tx)
  BY <1>2 DEF RelationsInv, LoopInv
<1>4. Numbered(packages')
  <2>1. DOMAIN ModifyList(t) \subseteq Nat
    BY ModifyStepKeeps DEF FitList, Listed
  <2>2. QED
    BY <2>1, <1>1, PackagesNumbered
<1>5. \A k \in DOMAIN packages' : ~(k < 1)
  BY <1>4 DEF Numbered
<1>6. VisibleBut(tx', LaterIds')
  BY <1>1, <1>3 DEF VisibleBut, RelationRefsVisible
<1>7. LoopInv'
  BY <1>1, <1>3, <1>4, <1>5, <1>6 DEF LoopInv
<1>8. QED
  BY <1>1, <1>2, <1>7 DEF RelationsInv

\* A round of the loop: the relations of this package become visible.
LEMMA PackageKeepsRelations ==
    ASSUME UploadInv, RelationsInv, NEW t \in Types, PackageStep(t)
    PROVE  RelationsInv'
<1> DEFINE l == packages[package]
           rw == ShownRows(l)
           all == UNION {IdsOf(packages[k]) : k \in DOMAIN packages}
<1>1. /\ Calling("package", t) /\ db' = db /\ phase' = phase /\ todo' = todo
      /\ package \in DOMAIN packages /\ package' = package + 1 /\ packages' = packages
      /\ FutureRelations(tx, l, all)
  BY DEF PackageStep, handlerVars
<1>2. GoodWrite(tx, tx', t, l, rw) /\ tx \in Tables /\ Listed(l)
  BY PackageStepKeeps DEF UploadInv, TablesInv, Sane, FitList
<1>3. \A i \in DOMAIN l : rw[i].visible
  BY DEF ShownRows, ShownRow
<1>4. CASE t # "Relation"
  <2>1. ~Looping
    BY <1>1, <1>4, CallsOutsideLoop DEF UploadInv
  <2>2. ~Looping'
    BY <1>1, <2>1 DEF Looping
  <2> HIDE DEF rw, l
  <2>3. RelationRefsVisible(tx')
    BY <1>2, <1>4, <2>1, RelationsUntouched DEF RelationsInv, LoopInv
  <2>4. QED
    BY <1>1, <2>2, <2>3 DEF RelationsInv, LoopInv
<1>5. CASE t = "Relation"
  <2>1. Looping /\ Looping'
    BY <1>1, <1>5 DEF Calling, Looping
  <2>2. /\ package \in Nat \ {0} /\ Numbered(packages) /\ VisibleBut(tx, LaterIds)
        /\ \A k \in DOMAIN packages : k < package =>
             \A id \in IdsOf(packages[k]) : Visible(tx, "Relation", id)
    BY <2>1 DEF RelationsInv, LoopInv
  <2>3. \A k \in DOMAIN packages : k \in Nat /\ (k < package \/ k = package \/ k >= package + 1)
    BY <2>2 DEF Numbered
  <2>4. \A k \in DOMAIN packages : IdsOf(packages[k]) \subseteq Ids
    <3>1. \A k \in DOMAIN packages : Listed(packages[k])
      BY <1>1 DEF UploadInv, PackageInv, PackageFits, FitList, Calling
    <3>2. QED
      BY <3>1, ListedIds
  <2> HIDE DEF rw
  <2>5. /\ \A id \in Ids : Visible(tx, "Relation", id) => Visible(tx', "Relation", id)
        /\ \A id \in IdsOf(l) : Visible(tx', "Relation", id)
        /\ VisibleBut(tx', (LaterIds \cup all) \ IdsOf(l))
    <3> DEFINE later == LaterIds
    <3> HIDE DEF all, l, later
    <3>1. VisibleBut(tx, later)
      BY <2>2 DEF later
    <3>2. /\ \A id \in Ids : Visible(tx, "Relation", id) => Visible(tx', "Relation", id)
          /\ \A id \in IdsOf(l) : Visible(tx', "Relation", id)
          /\ VisibleBut(tx', (later \cup all) \ IdsOf(l))
      BY <1>1, <1>2, <1>3, <1>5, <3>1, RelationsShown
    <3>3. QED
      BY <3>2 DEF later
  <2>6. \A k \in DOMAIN packages : k < package + 1 =>
          \A id \in IdsOf(packages[k]) : Visible(tx', "Relation", id)
    BY <2>2, <2>3, <2>4, <2>5
  <2>7. ASSUME NEW id \in LaterIds \cup all PROVE Visible(tx', "Relation", id) \/ id \in LaterIds'
    <3>1. PICK k \in DOMAIN packages : id \in IdsOf(packages[k])
      BY DEF LaterIds
    <3>2. CASE k < package + 1
      BY <2>6, <3>1, <3>2
    <3>3. CASE k >= package + 1
      BY <1>1, <3>1, <3>3 DEF LaterIds
    <3>4. QED
      BY <2>2, <2>3, <3>2, <3>3
  <2>8. VisibleBut(tx', LaterIds')
    <3> DEFINE rest == (LaterIds \cup all) \ IdsOf(l)
               later == LaterIds'
    <3>1. \A id \in rest : Visible(tx', "Relation", id) \/ id \in later
      BY <2>7
    <3>2. VisibleBut(tx', rest)
      BY <2>5
    <3> HIDE DEF rest, later
    <3>3. VisibleBut(tx', later)
      BY <3>1, <3>2 DEF VisibleBut
    <3>4. QED
      BY <3>3 DEF later
  <2>9. LoopInv'
    BY <1>1, <2>1, <2>2, <2>6, <2>8 DEF LoopInv
  <2>10. QED
    BY <1>1, <2>9 DEF RelationsInv
<1>6. QED
  BY <1>4, <1>5

\* The loop ends when all packages were written.
LEMMA LoopEndKeepsRelations ==
    ASSUME UploadInv, RelationsInv, NEW t \in Types, LoopEnd(t)
    PROVE  RelationsInv'
<1>1. /\ Calling("package", t) /\ db' = db /\ tx' = tx /\ phase' = phase /\ todo' = Tail(todo)
      /\ package \notin DOMAIN packages
  BY DEF LoopEnd, handlerVars, Return
<1>2. ~Looping' /\ phase = "flushing"
  BY <1>1, ReturnsOutsideLoop DEF UploadInv, Calling
<1>3. RelationRefsVisible(tx)
  <2>1. CASE t # "Relation"
    BY <1>1, <2>1, CallsOutsideLoop DEF UploadInv, RelationsInv, LoopInv
  <2>2. CASE t = "Relation"
    <3>1. /\ package \in Nat \ {0} /\ Numbered(packages) /\ VisibleBut(tx, LaterIds)
      BY <1>1, <2>2 DEF RelationsInv, LoopInv, Calling, Looping
    <3>2. \A k \in DOMAIN packages : k < package /\ k \in Nat
      BY <1>1, <3>1, NoneBehind DEF Numbered
    <3>3. LaterIds = {}
      BY <3>1, <3>2 DEF LaterIds
    <3>4. QED
      BY <3>1, <3>3 DEF VisibleBut, RelationRefsVisible
  <2>3. QED
    BY <2>1, <2>2
<1>4. QED
  BY <1>1, <1>2, <1>3 DEF RelationsInv, LoopInv

LEMMA FreshKeepsRelations ==
    ASSUME RelationRefsVisible(db'), tx' = db', FreshSession
    PROVE  RelationsInv'
  BY DEF FreshSession, RelationsInv, LoopInv, Looping

LEMMA ThrowsKeepRelations ==
    ASSUME RelationsInv, Throws
    PROVE  RelationsInv'
<1>1. PICK code : Throw(code)
  BY DEF Throws
<1>2. QED
  BY <1>1, FreshKeepsRelations DEF Throw, RelationsInv

LEMMA ProcessKeepsRelations ==
    ASSUME UploadInv, RelationsInv, UnmixedDeletes, Process, scenario' = scenario
    PROVE  RelationsInv'
<1>1. ASSUME NEW t \in Types, CreateStep(t) PROVE RelationsInv'
  BY <1>1, CreateKeepsRelations
<1>2. ASSUME NEW t \in Types, ModifyStep(t) PROVE RelationsInv'
  BY <1>2, ModifyKeepsRelations
<1>3. ASSUME NEW t \in Types, PackageStep(t) PROVE RelationsInv'
  BY <1>3, PackageKeepsRelations
<1>4. ASSUME NEW t \in Types, LoopEnd(t) PROVE RelationsInv'
  BY <1>4, LoopEndKeepsRelations
<1>5. ASSUME NEW t \in Types, NEW m, NEW skipped, DeleteStep(t, m, skipped) PROVE RelationsInv'
  BY <1>5, DeleteKeepsRelations
<1>6. QED
  BY <1>1, <1>2, <1>3, <1>4, <1>5, ProcessSteps, ThrowsKeepRelations

LEMMA NewStateKeepsRelations ==
    ASSUME UploadInv, RelationsInv, current_state \in States, phase = "reading",
           NEW e, handle_new_state(e)
    PROVE  RelationsInv'
<1>1. /\ db' = db /\ tx' = tx /\ phase' = "flushing"
      /\ todo' = <<>> \/ todo' = flush_calls(current_state)
  BY DEF handle_new_state
<1>2. ~Looping /\ RelationRefsVisible(tx)
  BY DEF RelationsInv, LoopInv, Looping
<1>3. ~Looping'
  <2> DEFINE r == flush_calls(current_state)
             C == Call
  <2>1. r \in Seq(C) /\ \A j \in DOMAIN r : r[j].op # "package"
    BY FlushCalls
  <2>2. todo' = <<>> \/ todo' = r
    BY <1>1
  <2> HIDE DEF r, C
  <2>3. ASSUME r # <<>> PROVE Head(r).op # "package"
    <3>1. 1 \in DOMAIN r /\ Head(r) = r[1]
      BY <2>1, <2>3, HeadTail
    <3>2. QED
      BY <2>1, <3>1
  <2>4. QED
    BY <2>2, <2>3 DEF Looping
<1>4. QED
  BY <1>1, <1>2, <1>3 DEF RelationsInv, LoopInv

LEMMA StepKeepsRelations ==
    ASSUME UploadInv, current_state \in States, RelationsInv, UnmixedDeletes, [Next]_upload_vars
    PROVE  RelationsInv'
<1>1. ASSUME NEW e, process_element(e) PROVE RelationsInv'
  <2>1. phase = "reading" /\ (Throws \/ handle_new_state(e))
    BY <1>1 DEF process_element, Throws
  <2>2. QED
    BY <2>1, ThrowsKeepRelations, NewStateKeepsRelations
<1>2. CASE end_document
  BY <1>2, NewStateKeepsRelations DEF end_document
<1>3. CASE complete_transition
  <2>1. db' = db /\ tx' = tx /\ todo' = <<>> /\ todo = <<>>
    BY <1>3 DEF complete_transition
  <2>2. QED
    BY <2>1 DEF RelationsInv, LoopInv, Looping
<1>4. CASE Process /\ scenario' = scenario
  BY <1>4, ProcessKeepsRelations
<1>5. CASE finish_upload
  <2>1. CASE Throws
    BY <2>1, ThrowsKeepRelations
  <2>2. CASE ~Throws
    <3>1. db' = tx /\ tx' = tx /\ FreshSession /\ phase = "finishing"
      BY <1>5, <2>2 DEF finish_upload, Throws
    <3>2. RelationRefsVisible(tx)
      BY <3>1 DEF RelationsInv, LoopInv, Looping
    <3>3. QED
      BY <3>1, <3>2, FreshKeepsRelations
  <2>3. QED
    BY <2>1, <2>2
<1>6. CASE begin_upload
  <2>1. db' = db /\ tx' = tx /\ todo' = todo /\ phase = "idle"
    BY <1>6 DEF begin_upload
  <2>2. QED
    BY <2>1 DEF RelationsInv, LoopInv, Looping
<1>7. CASE parse_error \/ upload_fails
  <2>1. Throws
    BY <1>7 DEF parse_error, upload_fails, Throws
  <2>2. QED
    BY <2>1, ThrowsKeepRelations
<1>8. CASE UNCHANGED <<vars, scenario>>
  <2>1. /\ db' = db /\ tx' = tx /\ todo' = todo /\ phase' = phase
        /\ packages' = packages /\ package' = package
    BY <1>8 DEF vars, sessionVars
  <2>2. Looping' = Looping /\ LaterIds' = LaterIds
    BY <2>1 DEF Looping, LaterIds
  <2>3. LoopInv'
    BY <2>1, <2>2 DEF RelationsInv, LoopInv
  <2>4. QED
    BY <2>1, <2>3 DEF RelationsInv
<1>9. QED
  BY <1>1, <1>2, <1>3, <1>4, <1>5, <1>6, <1>7, <1>8
     DEF Next, Serve, no_more_requests, upload_vars

\* RelationMembersVisible, for every database and any number of uploads whose
\* documents do not mix deletes of relations with and without if-unused: a
\* relation that is a member of a committed relation is visible, also when one
\* modification undeletes it in a later package, and when deletes are skipped
\* (lock_future_members, is_relation_still_referenced and
\* extend_deletion_block_to_relation_children).
THEOREM RelationMembersAlwaysVisible == Spec /\ []UnmixedDeletes => []RelationMembersVisible
<1>1. Init => RelationsInv
  <2> SUFFICES ASSUME Init PROVE RelationsInv
    OBVIOUS
  <2>1. scenario \in Scenarios /\ db = scenario.tables /\ tx = scenario.tables /\ todo = <<>>
    BY DEF Init
  <2>2. RelationRefsVisible(scenario.tables)
    BY <2>1, ScenariosAssumption
  <2>3. QED
    BY <2>1, <2>2 DEF RelationsInv, LoopInv, Looping
<1>2. /\ RelationsInv /\ UnmixedDeletes /\ UploadInv /\ current_state \in States
      /\ [Next]_upload_vars
      => RelationsInv'
  BY StepKeepsRelations
<1>3. RelationsInv => RelationMembersVisible
  BY DEF RelationsInv, RelationMembersVisible
<1>4. QED
  BY <1>1, <1>2, <1>3, UploadInvariant, PTL DEF Spec
=============================================================================
