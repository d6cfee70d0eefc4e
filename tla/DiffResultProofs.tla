-------------------------- MODULE DiffResultProofs ---------------------------
(***************************************************************************)
(* The diffResult of an upload tells what happened to every element of the *)
(* document: theorem DiffResultAlwaysTruthful about ChangesetUpload, for   *)
(* every database, every document and any number of uploads.               *)
(***************************************************************************)
EXTENDS ChangesetUploadProofs

\* The loop over the packages of a modification of elements of the type.
InLoop(t) == todo # <<>> /\ Head(todo) = [op |-> "package", type |-> t]

\* The members of an element of the document, by their ids.
MembersKnown(created, e) ==
    \A k \in DOMAIN e.members : Known(created, e.members[k].type, e.members[k].ref)
MembersOf(created, e) ==
    {[seq |-> k, type |-> e.members[k].type,
      ref |-> Resolve(created, e.members[k].type, e.members[k].ref)] : k \in DOMAIN e.members}

\* The transaction has written this version of an element of type t, and it is
\* what element e of the document says.
Stored(old, tb, created, t, e, id, v) ==
    /\ [id |-> id, version |-> v, visible |-> TRUE, loc |-> e.loc] \in Added(old, tb, t)
    /\ TagsAt(tb, t, id, v) = e.tags
    /\ MembersAt(tb, t, id, v) = MembersOf(created, e)
    /\ MembersKnown(created, e)

Report(created, t, e) ==
    [old_id |-> e.old_id, new_id |-> Resolve(created, t, e.old_id), new_version |-> e.version + 1]

\* What has become of an element of the document: it has been written and
\* reported.
IsCreated(t, e) ==
    \E m \in ct.created[t] : m.old_id = e.old_id /\ Stored(db, tx, ct.created, t, e, m.new_id, 1)
IsModified(t, e) ==
    LET m == Report(ct.created, t, e)
    IN  /\ Known(ct.created, t, e.old_id)
        /\ e.version > 0
        /\ m \in ct.modified[t]
        /\ Stored(db, tx, ct.created, t, e, m.new_id, m.new_version)

\* The n-th element of the buffer still has to be modified.
Waits(t, n) ==
    /\ n \in DOMAIN buffer["modify"][t]
    /\ InLoop(t) => Occurrence(ModifyList(t), n) >= package

\* Every buffer holds elements of the document of its operation and its type,
\* and only those of the current state, or of the calls still to be made, hold
\* anything.
Holds(op, t) == buffer[op][t] # <<>>
Awaited(op, t) ==
    \E n \in DOMAIN todo :
        todo[n].type = t /\ (todo[n].op = op \/ (op = "modify" /\ todo[n].op = "package"))
StateOf(op, t) == NewState([op |-> op, type |-> t])
Leaves == phase = "flushing" /\ NewState(pending) # current_state

FlushInv ==
    /\ phase = "flushing" \/ todo = <<>>
    /\ phase = "finishing" => current_state = "st_finished"
    /\ \A op \in Ops, t \in Types :
         Holds(op, t) => IF Leaves THEN Awaited(op, t) ELSE current_state = StateOf(op, t)

LoopedInv ==
    \A t \in Types : InLoop(t) =>
        /\ package \in Nat \ {0}
        /\ packages = BuildPackages(ModifyList(t))
        /\ PlaceholdersKnown(ct.created, t, buffer["modify"][t])

\* The reports agree with each other and with what is written.
CreatedReports ==
    \A t \in Types : \A m \in ct.created[t] :
        /\ m.old_id < 0 /\ m.new_version = 1 /\ m.new_id <= tx.id_seq[t]
        /\ \A n \in ct.created[t] : m.old_id = n.old_id \/ m.new_id = n.new_id => m = n
OtherReports ==
    \A t \in Types :
        /\ \A m \in ct.modified[t] \cup ct.deleted[t] :
             Known(ct.created, t, m.old_id) /\ m.new_id = Resolve(ct.created, t, m.old_id)
        /\ \A m \in ct.deleted[t] : \E h \in Added(db, tx, t) : ~h.visible /\ h.id = m.new_id

\* The elements of the document are in a buffer or done.
DocumentInv ==
    LET doc == ct.orig_sequence
    IN  /\ doc \in Seq(Element)
        /\ \A op \in Ops, t \in Types : \A n \in DOMAIN buffer[op][t] :
             /\ buffer[op][t][n].op = op /\ buffer[op][t][n].type = t
             /\ \E i \in DOMAIN doc : doc[i] = buffer[op][t][n]
        /\ \A t \in Types, i \in DOMAIN doc :
             /\ doc[i].op = "create" /\ doc[i].type = t =>
                  IsCreated(t, doc[i]) \/ \E n \in DOMAIN buffer["create"][t] : buffer["create"][t][n] = doc[i]
             /\ doc[i].op = "modify" /\ doc[i].type = t =>
                  IsModified(t, doc[i]) \/ \E n : Waits(t, n) /\ buffer["modify"][t][n] = doc[i]

\* Of two creations with the same placeholder one is still in the buffer,
\* where it will be found to be another use of the placeholder.
CreatesTwice(t, o) ==
    \E n \in DOMAIN buffer["create"][t] :
        /\ buffer["create"][t][n].old_id = o
        /\ \/ o \in create_placeholder_ids[t]
           \/ \E k \in DOMAIN buffer["create"][t] : k # n /\ buffer["create"][t][k].old_id = o
CreatesInv ==
    \A t \in Types : \A i, j \in DOMAIN ct.orig_sequence :
        LET e == ct.orig_sequence[i]  f == ct.orig_sequence[j]
        IN  /\ i # j /\ e.op = "create" /\ f.op = "create" /\ e.type = t /\ f.type = t
            /\ e.old_id = f.old_id
            => CreatesTwice(t, e.old_id)

\* Two modifications of the same version are of different elements, or one
\* of them still has to be made.
Apart(t, e, f) ==
    \/ \E n, k : n # k /\ Waits(t, n) /\ Waits(t, k) /\ buffer["modify"][t][n] = e /\ buffer["modify"][t][k] = f
    \/ IsModified(t, e) /\ \E k : Waits(t, k) /\ buffer["modify"][t][k] = f
    \/ IsModified(t, f) /\ \E n : Waits(t, n) /\ buffer["modify"][t][n] = e
    \/ /\ IsModified(t, e) /\ IsModified(t, f)
       /\ Resolve(ct.created, t, e.old_id) # Resolve(ct.created, t, f.old_id)
ModifiesInv ==
    \A t \in Types : \A i, j \in DOMAIN ct.orig_sequence :
        LET e == ct.orig_sequence[i]  f == ct.orig_sequence[j]
        IN  /\ i # j /\ e.op = "modify" /\ f.op = "modify" /\ e.type = t /\ f.type = t
            /\ e.version = f.version
            => Apart(t, e, f)

\* Every visible version that was written is what an element of the document
\* asked for.
Asked(created, t, h, e) ==
    /\ e.type = t
    /\ \/ /\ e.op = "create" /\ h.version = 1
          /\ \E m \in created[t] : m.old_id = e.old_id /\ m.new_id = h.id
       \/ /\ e.op = "modify" /\ h.version = e.version + 1
          /\ Known(created, t, e.old_id) /\ h.id = Resolve(created, t, e.old_id)
AskedInv ==
    \A t \in Types : \A h \in Added(db, tx, t) :
        h.visible => \E i \in DOMAIN ct.orig_sequence : Asked(ct.created, t, h, ct.orig_sequence[i])

DiffInv ==
    /\ FlushInv /\ LoopedInv /\ CreatedReports /\ OtherReports
    /\ DocumentInv /\ CreatesInv /\ ModifiesInv /\ AskedInv

-----------------------------------------------------------------------------
(* What is written stays, and what is new is what the list says. *)

LEMMA HistoryStays ==
    ASSUME NEW tb, Sane(tb), NEW nt, NEW t \in Types, NEW l, NEW rw, GoodWrite(tb, nt, t, l, rw),
           NEW u \in Types, NEW h \in tb.history[u]
    PROVE  /\ h \in nt.history[u]
           /\ TagsAt(nt, u, h.id, h.version) = TagsAt(tb, u, h.id, h.version)
           /\ MembersAt(nt, u, h.id, h.version) = MembersAt(tb, u, h.id, h.version)
<1>1. HistoryExtended(tb, nt, t, l, rw) /\ HistoryWritten(tb, tb, nt, t, l, rw)
  BY WriteHistory DEF GoodWrite, Rewritten
<1>2. CASE u # t
  BY <1>1, <1>2 DEF HistoryExtended, TagsAt, MembersAt
<1>3. CASE u = t
  <2>1. /\ h.version \in Nat /\ h.version <= tb.current[t][h.id].version
        /\ \A i \in DOMAIN l : /\ tb.current[t][l[i].id].version \in Nat
                               /\ rw[i].version = tb.current[t][l[i].id].version + 1
    BY <1>1, <1>3 DEF HistoryWritten
  <2>2. \A i \in DOMAIN l : ~(l[i].id = h.id /\ rw[i].version = h.version)
    BY <2>1
  <2>3. h \in nt.history[t]
    BY <1>1, <1>3 DEF HistoryExtended
  <2>4. \A r : r \in nt.history_tags[t] /\ r.id = h.id /\ r.version = h.version
               <=> r \in tb.history_tags[t] /\ r.id = h.id /\ r.version = h.version
    <3>1. \A i, g : /\ HistoryTagRowOf(l[i], rw[i], g).id = l[i].id
                    /\ HistoryTagRowOf(l[i], rw[i], g).version = rw[i].version
      BY DEF HistoryTagRowOf
    <3>2. \A r : r \in nt.history_tags[t] <=>
            \/ r \in tb.history_tags[t]
            \/ \E i \in DOMAIN l : \E g \in l[i].tags : r = HistoryTagRowOf(l[i], rw[i], g)
      BY <1>1 DEF HistoryExtended
    <3>3. ASSUME NEW r, r.id = h.id, r.version = h.version,
                 \E i \in DOMAIN l : \E g \in l[i].tags : r = HistoryTagRowOf(l[i], rw[i], g)
          PROVE  FALSE
      BY <2>2, <3>1, <3>3
    <3>4. QED
      BY <3>2, <3>3
  <2>5. \A r : r \in nt.history_members[t] /\ r.id = h.id /\ r.version = h.version
               <=> r \in tb.history_members[t] /\ r.id = h.id /\ r.version = h.version
    <3>1. \A i, k : /\ HistoryMemberRowOf(l[i], rw[i], k).id = l[i].id
                    /\ HistoryMemberRowOf(l[i], rw[i], k).version = rw[i].version
      BY DEF HistoryMemberRowOf
    <3>2. \A r : r \in nt.history_members[t] <=>
            \/ r \in tb.history_members[t]
            \/ \E i \in DOMAIN l : \E k \in DOMAIN l[i].members : r = HistoryMemberRowOf(l[i], rw[i], k)
      BY <1>1 DEF HistoryExtended
    <3>3. ASSUME NEW r, r.id = h.id, r.version = h.version,
                 \E i \in DOMAIN l : \E k \in DOMAIN l[i].members : r = HistoryMemberRowOf(l[i], rw[i], k)
          PROVE  FALSE
      BY <2>2, <3>1, <3>3
    <3>4. QED
      BY <3>2, <3>3
  <2>6. {x \in nt.history_tags[t] : x.id = h.id /\ x.version = h.version}
            = {x \in tb.history_tags[t] : x.id = h.id /\ x.version = h.version}
    BY <2>4
  <2>7. {x \in nt.history_members[t] : x.id = h.id /\ x.version = h.version}
            = {x \in tb.history_members[t] : x.id = h.id /\ x.version = h.version}
    BY <2>5
  <2>8. QED
    BY <1>3, <2>3, <2>6, <2>7 DEF TagsAt, MembersAt
<1>4. QED
  BY <1>2, <1>3

ListMembers(e) ==
    {[seq |-> k, type |-> e.members[k].type, ref |-> e.members[k].ref] : k \in DOMAIN e.members}

LEMMA HistoryNew ==
    ASSUME NEW old \in Tables, NEW tb, Sane(tb), Grows(old, tb),
           NEW nt, NEW t \in Types, NEW l, NEW rw, GoodWrite(tb, nt, t, l, rw), NEW i \in DOMAIN l
    PROVE  /\ HistoryRowOf(l[i], rw[i]) \in Added(old, nt, t)
           /\ TagsAt(nt, t, l[i].id, rw[i].version) = l[i].tags
           /\ MembersAt(nt, t, l[i].id, rw[i].version) = ListMembers(l[i])
<1>1. HistoryExtended(tb, nt, t, l, rw) /\ HistoryWritten(tb, tb, nt, t, l, rw) /\ Unique(l)
  BY WriteHistory DEF GoodWrite, Rewritten, GoodRows
<1>2. /\ l[i].id \in Ids
      /\ tb.current[t][l[i].id].version \in Nat
      /\ rw[i].version = tb.current[t][l[i].id].version + 1
      /\ \A h \in tb.history[t] : h.version \in Nat /\ h.version <= tb.current[t][h.id].version
  BY <1>1 DEF HistoryWritten
<1>3. \A r \in tb.history_tags[t] \cup tb.history_members[t] :
        ~(r.id = l[i].id /\ r.version = rw[i].version)
  <2>1. \A r \in tb.history_tags[t] \cup tb.history_members[t] :
          r.version <= tb.current[t][r.id].version
    BY DEF Sane, Regular
  <2>2. QED
    BY <1>2, <2>1
<1>4. \A j \in DOMAIN l : l[j].id = l[i].id => j = i
  BY <1>1 DEF Unique
<1>5. HistoryRowOf(l[i], rw[i]) \in Added(old, nt, t)
  <2> DEFINE h == HistoryRowOf(l[i], rw[i])
  <2>1. h \in nt.history[t]
    BY <1>1 DEF HistoryExtended
  <2>2. h.id = l[i].id /\ h.version = rw[i].version
    BY DEF HistoryRowOf
  <2> HIDE DEF h
  <2>3. h \notin tb.history[t]
    BY <1>2, <2>2
  <2>4. old.history[t] \subseteq tb.history[t]
    BY DEF Grows
  <2>5. QED
    BY <2>1, <2>3, <2>4 DEF Added, h
<1>6. TagsAt(nt, t, l[i].id, rw[i].version) = l[i].tags
  <2>1. \A j, g : /\ HistoryTagRowOf(l[j], rw[j], g).id = l[j].id
                  /\ HistoryTagRowOf(l[j], rw[j], g).version = rw[j].version
                  /\ HistoryTagRowOf(l[j], rw[j], g).tag = g
    BY DEF HistoryTagRowOf
  <2>2. \A r : r \in nt.history_tags[t] /\ r.id = l[i].id /\ r.version = rw[i].version
               <=> \E g \in l[i].tags : r = HistoryTagRowOf(l[i], rw[i], g)
    <3>1. \A r : r \in nt.history_tags[t] <=>
            \/ r \in tb.history_tags[t]
            \/ \E j \in DOMAIN l : \E g \in l[j].tags : r = HistoryTagRowOf(l[j], rw[j], g)
      BY <1>1 DEF HistoryExtended
    <3>2. ASSUME NEW r, r \in nt.history_tags[t], r.id = l[i].id, r.version = rw[i].version
          PROVE  \E g \in l[i].tags : r = HistoryTagRowOf(l[i], rw[i], g)
      <4>1. PICK j \in DOMAIN l : \E g \in l[j].tags : r = HistoryTagRowOf(l[j], rw[j], g)
        BY <1>3, <3>1, <3>2
      <4>2. j = i
        BY <1>4, <2>1, <3>2, <4>1
      <4>3. QED
        BY <4>1, <4>2
    <3>3. ASSUME NEW g \in l[i].tags
          PROVE  HistoryTagRowOf(l[i], rw[i], g) \in nt.history_tags[t]
      BY <3>1
    <3>4. QED
      BY <2>1, <3>2, <3>3
  <2> DEFINE R == {x \in nt.history_tags[t] : x.id = l[i].id /\ x.version = rw[i].version}
  <2>3. \A r : r \in R <=> \E g \in l[i].tags : r = HistoryTagRowOf(l[i], rw[i], g)
    BY <2>2
  <2> HIDE DEF R
  <2>4. {r.tag : r \in R} = l[i].tags
    BY <2>1, <2>3
  <2>5. QED
    BY <2>4 DEF TagsAt, R
<1>7. MembersAt(nt, t, l[i].id, rw[i].version) = ListMembers(l[i])
  <2>1. \A j, k : /\ HistoryMemberRowOf(l[j], rw[j], k).id = l[j].id
                  /\ HistoryMemberRowOf(l[j], rw[j], k).version = rw[j].version
                  /\ HistoryMemberRowOf(l[j], rw[j], k).seq = k
                  /\ HistoryMemberRowOf(l[j], rw[j], k).type = l[j].members[k].type
                  /\ HistoryMemberRowOf(l[j], rw[j], k).ref = l[j].members[k].ref
    BY DEF HistoryMemberRowOf
  <2>2. \A r : r \in nt.history_members[t] /\ r.id = l[i].id /\ r.version = rw[i].version
               <=> \E k \in DOMAIN l[i].members : r = HistoryMemberRowOf(l[i], rw[i], k)
    <3>1. \A r : r \in nt.history_members[t] <=>
            \/ r \in tb.history_members[t]
            \/ \E j \in DOMAIN l : \E k \in DOMAIN l[j].members : r = HistoryMemberRowOf(l[j], rw[j], k)
      BY <1>1 DEF HistoryExtended
    <3>2. ASSUME NEW r, r \in nt.history_members[t], r.id = l[i].id, r.version = rw[i].version
          PROVE  \E k \in DOMAIN l[i].members : r = HistoryMemberRowOf(l[i], rw[i], k)
      <4>1. PICK j \in DOMAIN l : \E k \in DOMAIN l[j].members : r = HistoryMemberRowOf(l[j], rw[j], k)
        BY <1>3, <3>1, <3>2
      <4>2. PICK k \in DOMAIN l[j].members : r = HistoryMemberRowOf(l[j], rw[j], k)
        BY <4>1
      <4>3. r.id = l[j].id
        BY <2>1, <4>2
      <4>4. j = i
        BY <1>4, <3>2, <4>3
      <4>5. QED
        BY <4>1, <4>4
    <3>3. ASSUME NEW k \in DOMAIN l[i].members
          PROVE  HistoryMemberRowOf(l[i], rw[i], k) \in nt.history_members[t]
      BY <3>1
    <3>4. QED
      BY <2>1, <3>2, <3>3
  <2> DEFINE R == {x \in nt.history_members[t] : x.id = l[i].id /\ x.version = rw[i].version}
             F(r) == [seq |-> r.seq, type |-> r.type, ref |-> r.ref]
             G(k) == [seq |-> k, type |-> l[i].members[k].type, ref |-> l[i].members[k].ref]
  <2>3. \A r : r \in R <=> \E k \in DOMAIN l[i].members : r = HistoryMemberRowOf(l[i], rw[i], k)
    BY <2>2
  <2>4. \A k : F(HistoryMemberRowOf(l[i], rw[i], k)) = G(k)
    BY <2>1
  <2> HIDE DEF R, F, G
  <2>5. {F(r) : r \in R} = {G(k) : k \in DOMAIN l[i].members}
    BY <2>3, <2>4
  <2>6. QED
    BY <2>5 DEF MembersAt, ListMembers, R, F, G
<1>8. QED
  BY <1>5, <1>6, <1>7

\* Later elements are added to the map of created ones, and none is changed.
Widens(c, d) ==
    \A t \in Types :
        /\ c[t] \subseteq d[t]
        /\ \A m, n \in d[t] : m.old_id = n.old_id => m = n

LEMMA ResolveStays ==
    ASSUME NEW c, NEW d, Widens(c, d), NEW t \in Types, NEW ref, Known(c, t, ref)
    PROVE  Known(d, t, ref) /\ Resolve(d, t, ref) = Resolve(c, t, ref)
<1>1. CASE ref < 0
  <2>1. PICK m \in c[t] : m.old_id = ref
    BY <1>1 DEF Known
  <2> DEFINE x == CHOOSE y \in c[t] : y.old_id = ref
             z == CHOOSE y \in d[t] : y.old_id = ref
  <2>2. m \in d[t]
    BY <2>1 DEF Widens
  <2>3. x \in c[t] /\ x.old_id = ref
    BY <2>1
  <2>4. z \in d[t] /\ z.old_id = ref
    BY <2>1, <2>2
  <2>5. Resolve(c, t, ref) = x.new_id /\ Resolve(d, t, ref) = z.new_id
    BY <1>1 DEF Resolve
  <2> HIDE DEF x, z
  <2>6. x = z
    BY <2>3, <2>4 DEF Widens
  <2>7. QED
    BY <2>1, <2>2, <2>5, <2>6 DEF Known
<1>2. CASE ~(ref < 0)
  BY <1>2 DEF Known, Resolve
<1>3. QED
  BY <1>1, <1>2

LEMMA ElementFields ==
    ASSUME NEW e \in Element
    PROVE  /\ e.op \in Ops /\ e.type \in Types /\ e.old_id \in Ids \cup Placeholders
           /\ e.version \in Nat
           /\ \A k \in DOMAIN e.members : /\ e.members[k].type \in Types
                                          /\ e.members[k].ref \in Ids \cup Placeholders
<1> DEFINE M == [type: Types, ref: Ids \cup Placeholders]
           S == Seq(M)
<1>1. e \in [op: Ops, type: Types, old_id: Ids \cup Placeholders, id: Ids \cup {0},
             version: Nat, loc: Coord, tags: SUBSET Tags, members: S,
             if_unused: BOOLEAN, same_changeset: BOOLEAN]
  BY DEF Element
<1> HIDE DEF S
<1>2. /\ e.op \in Ops /\ e.type \in Types /\ e.old_id \in Ids \cup Placeholders
      /\ e.version \in Nat /\ e.members \in S
  BY <1>1
<1>3. ASSUME NEW k \in DOMAIN e.members PROVE e.members[k] \in M
  <2> HIDE DEF M
  <2>1. QED
    BY <1>2, <1>3, SeqElement DEF S
<1>4. QED
  BY <1>2, <1>3

LEMMA MembersStay ==
    ASSUME NEW c, NEW d, Widens(c, d), NEW e \in Element, MembersKnown(c, e)
    PROVE  MembersKnown(d, e) /\ MembersOf(d, e) = MembersOf(c, e)
<1>1. \A k \in DOMAIN e.members :
        /\ Known(d, e.members[k].type, e.members[k].ref)
        /\ Resolve(d, e.members[k].type, e.members[k].ref)
             = Resolve(c, e.members[k].type, e.members[k].ref)
  BY ElementFields, ResolveStays DEF MembersKnown
<1>2. QED
  BY <1>1 DEF MembersKnown, MembersOf

LEMMA StoredStays ==
    ASSUME NEW tb, Sane(tb), NEW nt, NEW t \in Types, NEW l, NEW rw, GoodWrite(tb, nt, t, l, rw),
           NEW c, NEW d, Widens(c, d), NEW old, NEW u \in Types, NEW e \in Element, NEW id, NEW v,
           Stored(old, tb, c, u, e, id, v)
    PROVE  Stored(old, nt, d, u, e, id, v)
<1> DEFINE h == [id |-> id, version |-> v, visible |-> TRUE, loc |-> e.loc]
<1>1. h \in tb.history[u] /\ h \notin old.history[u]
  BY DEF Stored, Added
<1>2. h.id = id /\ h.version = v
  OBVIOUS
<1> HIDE DEF h
<1>3. /\ h \in nt.history[u]
      /\ TagsAt(nt, u, id, v) = TagsAt(tb, u, id, v)
      /\ MembersAt(nt, u, id, v) = MembersAt(tb, u, id, v)
  <2>1. /\ h \in nt.history[u]
        /\ TagsAt(nt, u, h.id, h.version) = TagsAt(tb, u, h.id, h.version)
        /\ MembersAt(nt, u, h.id, h.version) = MembersAt(tb, u, h.id, h.version)
    BY <1>1, HistoryStays
  <2>2. QED
    BY <1>2, <2>1
<1>4. h \in Added(old, nt, u)
  BY <1>1, <1>3 DEF Added
<1>5. MembersKnown(d, e) /\ MembersOf(d, e) = MembersOf(c, e)
  BY MembersStay DEF Stored
<1>6. QED
  BY <1>3, <1>4, <1>5 DEF Stored, h

\* l[i] is element e of the document with its placeholders replaced.
Stands(created, t, x, e) ==
    /\ x.id = Resolve(created, t, e.old_id) /\ x.old_id = e.old_id
    /\ x.version = e.version /\ x.loc = e.loc /\ x.tags = e.tags
    /\ ListMembers(x) = MembersOf(created, e)
    /\ Known(created, t, e.old_id) /\ MembersKnown(created, e)

LEMMA ResolvedStands ==
    ASSUME NEW created \in [Types -> SUBSET Mapping], NEW t \in Types,
           NEW raw, DOMAIN raw \subseteq Nat, \A i \in DOMAIN raw : raw[i] \in Element,
           PlaceholdersKnown(created, t, raw), NEW i \in DOMAIN raw
    PROVE  /\ DOMAIN ResolveAll(created, t, raw) = DOMAIN raw
           /\ Stands(created, t, ResolveAll(created, t, raw)[i], raw[i])
<1> DEFINE l == ResolveAll(created, t, raw)
<1>1. /\ DOMAIN l = DOMAIN raw
      /\ l[i].id = Resolve(created, t, raw[i].old_id)
      /\ l[i].old_id = raw[i].old_id
      /\ l[i].version = raw[i].version /\ l[i].loc = raw[i].loc
      /\ l[i].tags = raw[i].tags
      /\ DOMAIN l[i].members = DOMAIN raw[i].members
      /\ \A k \in DOMAIN raw[i].members :
           /\ l[i].members[k].type = raw[i].members[k].type
           /\ l[i].members[k].ref =
                Resolve(created, raw[i].members[k].type, raw[i].members[k].ref)
  BY ResolvedList
<1> HIDE DEF l
<1>2. ListMembers(l[i]) = MembersOf(created, raw[i])
  BY <1>1 DEF ListMembers, MembersOf
<1>3. Known(created, t, raw[i].old_id) /\ MembersKnown(created, raw[i])
  BY DEF PlaceholdersKnown, MembersKnown
<1>4. QED
  BY <1>1, <1>2, <1>3 DEF Stands, l

LEMMA StoredNew ==
    ASSUME NEW old \in Tables, NEW tb, Sane(tb), Grows(old, tb),
           NEW nt, NEW t \in Types, NEW l, NEW rw, GoodWrite(tb, nt, t, l, rw), NEW i \in DOMAIN l,
           NEW created, NEW e, Stands(created, t, l[i], e), NEW v,
           rw[i].version = v, rw[i].visible, rw[i].loc = e.loc
    PROVE  Stored(old, nt, created, t, e, l[i].id, v)
<1>0. rw[i].visible = TRUE
  BY DEF GoodWrite, GoodRows, Row
<1>1. /\ HistoryRowOf(l[i], rw[i]) \in Added(old, nt, t)
      /\ TagsAt(nt, t, l[i].id, v) = l[i].tags
      /\ MembersAt(nt, t, l[i].id, v) = ListMembers(l[i])
  BY HistoryNew
<1>2. HistoryRowOf(l[i], rw[i]) = [id |-> l[i].id, version |-> v, visible |-> TRUE, loc |-> e.loc]
  BY <1>0 DEF HistoryRowOf
<1>3. QED
  BY <1>1, <1>2 DEF Stored, Stands

-----------------------------------------------------------------------------
(* What a step that goes on with the upload keeps. *)

Advances ==
    /\ db' = db
    /\ tx' = tx \/ \E t \in Types : \E l, rw : GoodWrite(tx, tx', t, l, rw)
    /\ Widens(ct.created, ct'.created)
    /\ \A t \in Types : ct.modified[t] \subseteq ct'.modified[t]

LEMMA StoredKept ==
    ASSUME UploadInv, Advances, NEW u \in Types, NEW e \in Element, NEW id, NEW v,
           Stored(db, tx, ct.created, u, e, id, v)
    PROVE  Stored(db', tx', ct'.created, u, e, id, v)
<1>1. db' = db /\ Widens(ct.created, ct'.created) /\ Sane(tx)
  BY DEF Advances, UploadInv, TablesInv
<1>2. CASE tx' = tx
  <2>1. MembersKnown(ct'.created, e) /\ MembersOf(ct'.created, e) = MembersOf(ct.created, e)
    BY <1>1, MembersStay DEF Stored
  <2>2. QED
    BY <1>1, <1>2, <2>1 DEF Stored
<1>3. CASE \E t \in Types : \E l, rw : GoodWrite(tx, tx', t, l, rw)
  <2>0. PICK t \in Types : \E l, rw : GoodWrite(tx, tx', t, l, rw)
    BY <1>3
  <2>1. PICK l, rw : GoodWrite(tx, tx', t, l, rw)
    BY <2>0
  <2>2. QED
    BY <1>1, <2>1, StoredStays
<1>4. QED
  BY <1>2, <1>3 DEF Advances

LEMMA AddedStays ==
    ASSUME UploadInv, Advances, NEW u \in Types
    PROVE  Added(db, tx, u) \subseteq Added(db', tx', u)
<1>1. db' = db /\ Sane(tx)
  BY DEF Advances, UploadInv, TablesInv
<1>2. CASE tx' = tx
  BY <1>1, <1>2
<1>3. CASE \E t \in Types : \E l, rw : GoodWrite(tx, tx', t, l, rw)
  <2>0. PICK t \in Types : \E l, rw : GoodWrite(tx, tx', t, l, rw)
    BY <1>3
  <2>1. PICK l, rw : GoodWrite(tx, tx', t, l, rw)
    BY <2>0
  <2>2. \A h \in tx.history[u] : h \in tx'.history[u]
    BY <1>1, <2>1, HistoryStays
  <2>3. QED
    BY <1>1, <2>2 DEF Added
<1>4. QED
  BY <1>2, <1>3 DEF Advances

LEMMA CreatedStays ==
    ASSUME UploadInv, Advances, NEW u \in Types, NEW e \in Element, IsCreated(u, e)
    PROVE  IsCreated(u, e)'
<1>1. PICK m \in ct.created[u] : m.old_id = e.old_id /\ Stored(db, tx, ct.created, u, e, m.new_id, 1)
  BY DEF IsCreated
<1>2. m \in ct'.created[u]
  BY DEF Advances, Widens
<1>3. Stored(db', tx', ct'.created, u, e, m.new_id, 1)
  BY <1>1, StoredKept
<1>4. QED
  BY <1>1, <1>2, <1>3 DEF IsCreated

LEMMA ModifiedStays ==
    ASSUME UploadInv, Advances, NEW u \in Types, NEW e \in Element, IsModified(u, e)
    PROVE  IsModified(u, e)' /\ Resolve(ct'.created, u, e.old_id) = Resolve(ct.created, u, e.old_id)
<1> DEFINE id == Resolve(ct.created, u, e.old_id)
<1>1. /\ Known(ct.created, u, e.old_id) /\ e.version > 0
      /\ Report(ct.created, u, e) \in ct.modified[u]
      /\ Stored(db, tx, ct.created, u, e, id, e.version + 1)
  BY DEF IsModified, Report
<1>2. Known(ct'.created, u, e.old_id) /\ Resolve(ct'.created, u, e.old_id) = id
  BY <1>1, ResolveStays DEF Advances
<1> HIDE DEF id
<1>3. Stored(db', tx', ct'.created, u, e, id, e.version + 1)
  BY <1>1, StoredKept
<1>4. Report(ct'.created, u, e) = Report(ct.created, u, e)
  BY <1>2 DEF Report, id
<1>5. Report(ct'.created, u, e) \in ct'.modified[u]
  BY <1>1, <1>4 DEF Advances
<1>6. Report(ct'.created, u, e).new_id = id /\ Report(ct'.created, u, e).new_version = e.version + 1
  BY <1>2 DEF Report
<1>7. IsModified(u, e)'
  BY <1>1, <1>2, <1>3, <1>5, <1>6 DEF IsModified
<1>8. QED
  BY <1>2, <1>7 DEF id

LEMMA AskedStays ==
    ASSUME Advances, NEW u \in Types, NEW h, NEW e, Asked(ct.created, u, h, e)
    PROVE  Asked(ct'.created, u, h, e)
<1>1. Widens(ct.created, ct'.created)
  BY DEF Advances
<1>2. Known(ct.created, u, e.old_id) =>
        Known(ct'.created, u, e.old_id) /\ Resolve(ct'.created, u, e.old_id) = Resolve(ct.created, u, e.old_id)
  BY <1>1, ResolveStays
<1>3. ct.created[u] \subseteq ct'.created[u]
  BY <1>1 DEF Widens
<1>4. QED
  BY <1>2, <1>3 DEF Asked

\* Two modifications stay apart while the same ones wait.
LEMMA ApartStays ==
    ASSUME UploadInv, Advances, NEW u \in Types, NEW e \in Element, NEW f \in Element, Apart(u, e, f),
           \A n : Waits(u, n) => Waits(u, n)' /\ buffer'["modify"][u][n] = buffer["modify"][u][n]
    PROVE  Apart(u, e, f)'
<1>1. \A x \in Element : IsModified(u, x) =>
        IsModified(u, x)' /\ Resolve(ct'.created, u, x.old_id) = Resolve(ct.created, u, x.old_id)
  BY ModifiedStays
<1> DEFINE W(n) == Waits(u, n)
           V(n) == Waits(u, n)'
           A(x) == IsModified(u, x)
           B(x) == IsModified(u, x)'
           b == buffer["modify"][u]
           d == buffer'["modify"][u]
<1>2. /\ \A n : W(n) => V(n) /\ d[n] = b[n]
      /\ \A x \in Element : A(x) => B(x) /\ Resolve(ct'.created, u, x.old_id) = Resolve(ct.created, u, x.old_id)
  BY <1>1
<1>3. \/ \E n, k : n # k /\ W(n) /\ W(k) /\ b[n] = e /\ b[k] = f
      \/ A(e) /\ \E k : W(k) /\ b[k] = f
      \/ A(f) /\ \E n : W(n) /\ b[n] = e
      \/ A(e) /\ A(f) /\ Resolve(ct.created, u, e.old_id) # Resolve(ct.created, u, f.old_id)
  BY DEF Apart
<1> HIDE DEF W, V, A, B, b, d
<1>4. \/ \E n, k : n # k /\ V(n) /\ V(k) /\ d[n] = e /\ d[k] = f
      \/ B(e) /\ \E k : V(k) /\ d[k] = f
      \/ B(f) /\ \E n : V(n) /\ d[n] = e
      \/ B(e) /\ B(f) /\ Resolve(ct'.created, u, e.old_id) # Resolve(ct'.created, u, f.old_id)
  BY <1>2, <1>3
<1>5. QED
  BY <1>4 DEF Apart, V, B, d

LEMMA DocumentElements ==
    ASSUME DocumentInv
    PROVE  \A i \in DOMAIN ct.orig_sequence : ct.orig_sequence[i] \in Element
<1> DEFINE S == Element
<1>1. ct.orig_sequence \in Seq(S)
  BY DEF DocumentInv
<1> HIDE DEF S
<1>2. \A i \in DOMAIN ct.orig_sequence : ct.orig_sequence[i] \in S
  BY <1>1, SeqElement
<1>3. QED
  BY <1>2 DEF S

LEMMA ModifiesStay ==
    ASSUME UploadInv, DocumentInv, ModifiesInv, Advances, ct'.orig_sequence = ct.orig_sequence,
           buffer'["modify"] = buffer["modify"],
           \A u \in Types : \A n : Waits(u, n) => Waits(u, n)'
    PROVE  ModifiesInv'
<1> DEFINE doc == ct.orig_sequence
           Same(u, i, j) ==
               /\ i # j /\ doc[i].op = "modify" /\ doc[j].op = "modify"
               /\ doc[i].type = u /\ doc[j].type = u /\ doc[i].version = doc[j].version
<1>1. ASSUME NEW u \in Types, NEW i \in DOMAIN doc, NEW j \in DOMAIN doc, Same(u, i, j)
      PROVE  Apart(u, doc[i], doc[j])'
  <2>1. Apart(u, doc[i], doc[j])
    BY <1>1 DEF ModifiesInv
  <2>2. doc[i] \in Element /\ doc[j] \in Element
    BY DocumentElements
  <2> DEFINE e == doc[i]
             f == doc[j]
  <2>3. e \in Element /\ f \in Element /\ Apart(u, e, f)
    BY <2>1, <2>2
  <2>4. buffer'["modify"][u] = buffer["modify"][u]
    OBVIOUS
  <2>5. doc[i]' = doc[i] /\ doc[j]' = doc[j]
    OBVIOUS
  <2>6. Apart(u, e, f)'
    <3> HIDE DEF doc
    <3>1. PICK x \in Element : x = e
      BY <2>3
    <3>2. PICK y \in Element : y = f
      BY <2>3
    <3>3. Apart(u, x, y)
      BY <2>3, <3>1, <3>2
    <3>4. Apart(u, x, y)'
      BY <2>4, <3>3, ApartStays
    <3>5. QED
      BY <2>5, <3>1, <3>2, <3>4
  <2>7. QED
    BY <2>6
<1>2. QED
  BY <1>1 DEF ModifiesInv

LEMMA ReportsStay ==
    ASSUME UploadInv, Advances, OtherReports, NEW u \in Types
    PROVE  /\ \A m \in ct.modified[u] \cup ct.deleted[u] :
                /\ Known(ct'.created, u, m.old_id)
                /\ m.new_id = Resolve(ct'.created, u, m.old_id)
           /\ \A m \in ct.deleted[u] : \E h \in Added(db', tx', u) : ~h.visible /\ h.id = m.new_id
<1>1. \A m \in ct.modified[u] \cup ct.deleted[u] :
        /\ Known(ct'.created, u, m.old_id)
        /\ m.new_id = Resolve(ct'.created, u, m.old_id)
  <2> SUFFICES ASSUME NEW m \in ct.modified[u] \cup ct.deleted[u]
               PROVE  /\ Known(ct'.created, u, m.old_id)
                      /\ m.new_id = Resolve(ct'.created, u, m.old_id)
    OBVIOUS
  <2>1. Known(ct.created, u, m.old_id) /\ m.new_id = Resolve(ct.created, u, m.old_id)
    BY DEF OtherReports
  <2>2. QED
    BY <2>1, ResolveStays DEF Advances
<1>2. \A m \in ct.deleted[u] : \E h \in Added(db', tx', u) : ~h.visible /\ h.id = m.new_id
  BY AddedStays DEF OtherReports
<1>3. QED
  BY <1>1, <1>2

-----------------------------------------------------------------------------
(* The calls that empty the buffers. *)

LEMMA TailCalls ==
    ASSUME NEW S, NEW s \in Seq(S), s # <<>>, NEW n \in DOMAIN s, n # 1
    PROVE  n - 1 \in DOMAIN Tail(s) /\ Tail(s)[n - 1] = s[n]
  OBVIOUS

\* A call that has returned has emptied its buffer, and is not in a loop.
LEMMA ReturnFlushes ==
    ASSUME UploadInv, FlushInv, NEW op \in Ops, NEW t \in Types, todo # <<>>, phase = "flushing",
           \/ Head(todo) = [op |-> op, type |-> t]
           \/ op = "modify" /\ Head(todo) = [op |-> "package", type |-> t],
           Return(op, t), phase' = phase, current_state' = current_state, pending' = pending
    PROVE  /\ FlushInv' /\ LoopedInv'
           /\ \A o \in Ops, u \in Types :
                buffer'[o][u] = IF o = op /\ u = t THEN <<>> ELSE buffer[o][u]
           /\ \A u \in Types : ~InLoop(u)'
<1>1. /\ Tail(todo) \in Seq(Call)
      /\ Head(todo) = todo[1] /\ 1 \in DOMAIN todo
      /\ \A j \in DOMAIN Tail(todo) : Tail(todo)[j].op # "package"
  BY NoPackageLeft DEF UploadInv
<1>2. \A o \in Ops, u \in Types : buffer'[o][u] = IF o = op /\ u = t THEN <<>> ELSE buffer[o][u]
  <2> DEFINE S == Seq(Element)
  <2>1. buffer \in [Ops -> [Types -> S]] /\ buffer' = [buffer EXCEPT ![op][t] = <<>>]
    BY DEF UploadInv, BufferInv, Return
  <2> HIDE DEF S
  <2>2. QED
    BY <2>1
<1>3. ASSUME NEW u \in Types PROVE ~InLoop(u)'
  <2> SUFFICES ASSUME todo' # <<>>, Head(todo') = [op |-> "package", type |-> u] PROVE FALSE
    BY DEF InLoop
  <2>1. todo' = Tail(todo)
    BY DEF Return
  <2> DEFINE S == Call
  <2>2. todo' \in Seq(S)
    BY <1>1, <2>1
  <2> HIDE DEF S
  <2>3. 1 \in DOMAIN todo' /\ Head(todo') = todo'[1]
    BY <2>2, HeadTail
  <2>4. todo'[1].op = "package"
    BY <2>3
  <2>5. QED
    BY <1>1, <2>1, <2>3, <2>4
<1>4. ASSUME NEW o \in Ops, NEW u \in Types, Awaited(o, u), ~(o = op /\ u = t) PROVE Awaited(o, u)'
  <2>1. PICK n \in DOMAIN todo :
          todo[n].type = u /\ (todo[n].op = o \/ (o = "modify" /\ todo[n].op = "package"))
    BY <1>4 DEF Awaited
  <2>2. n # 1
    BY <1>1, <1>4, <2>1 DEF Ops
  <2>3. todo \in Seq(Call)
    BY DEF UploadInv, PackageInv
  <2>4. n - 1 \in DOMAIN Tail(todo) /\ Tail(todo)[n - 1] = todo[n]
    <3> DEFINE S == Call
    <3>1. todo \in Seq(S)
      BY <2>3
    <3> HIDE DEF S
    <3>2. QED
      BY <2>2, <3>1, TailCalls
  <2>5. todo' = Tail(todo)
    BY DEF Return
  <2>6. QED
    BY <2>1, <2>4, <2>5 DEF Awaited
<1>5. FlushInv'
  <2>1. Leaves' = Leaves
    BY DEF Leaves
  <2>2. ASSUME NEW o \in Ops, NEW u \in Types, Holds(o, u)'
        PROVE  IF Leaves THEN Awaited(o, u)' ELSE current_state = StateOf(o, u)
    <3>1. Holds(o, u) /\ ~(o = op /\ u = t)
      BY <1>2, <2>2 DEF Holds
    <3>2. IF Leaves THEN Awaited(o, u) ELSE current_state = StateOf(o, u)
      BY <3>1 DEF FlushInv
    <3>3. QED
      BY <1>4, <3>1, <3>2
  <2>3. phase' = "flushing" /\ phase' # "finishing"
    OBVIOUS
  <2>4. QED
    BY <2>1, <2>2, <2>3 DEF FlushInv
<1>6. LoopedInv'
  BY <1>3 DEF LoopedInv
<1>7. QED
  BY <1>2, <1>3, <1>5, <1>6

-----------------------------------------------------------------------------
(* process_new_* *)

LEMMA CreateFacts ==
    ASSUME UploadInv, CreatedReports, NEW t \in Types, CreateStep(t)
    PROVE  /\ CreatedReports' /\ Advances
           /\ \A m : m \in ct'.created[t] <=>
                \/ m \in ct.created[t]
                \/ \E i \in DOMAIN buffer["create"][t] :
                     m = [old_id |-> buffer["create"][t][i].old_id, new_id |-> tx.id_seq[t] + i,
                          new_version |-> 1]
           /\ \A u \in Types \ {t} : ct'.created[u] = ct.created[u]
           /\ ct'.modified = ct.modified /\ ct'.deleted = ct.deleted
           /\ ct'.orig_sequence = ct.orig_sequence
<1> DEFINE raw == buffer["create"][t]
           old == ct.created
           new == ct'.created
           seen == create_placeholder_ids[t]
           base == tx.id_seq[t]
           Map(i) == [old_id |-> raw[i].old_id, new_id |-> base + i, new_version |-> 1]
<1>1. /\ raw \in Seq(Fitting("create", t)) /\ raw \in Seq(Element) /\ DOMAIN raw \subseteq Nat
      /\ \A i \in DOMAIN raw : raw[i] \in Element /\ Fits(raw[i], "create", t)
  BY FittingTyped DEF UploadInv, BufferInv, Ops
<1>2. /\ old \in [Types -> SUBSET Mapping]
      /\ \A m \in old[t] : m.old_id \in seen
      /\ {"created", "modified", "deleted", "orig_sequence"} \subseteq DOMAIN ct
  BY DEF UploadInv, PlaceholderInv, TrackingFields
<1>3. /\ ct'.created = AddCreated(t)
      /\ ct'.modified = ct.modified /\ ct'.deleted = ct.deleted
      /\ ct'.orig_sequence = ct.orig_sequence
      /\ db' = db /\ PlaceholdersUnique(seen, raw)
  BY <1>2 DEF CreateStep, handlerVars
<1>4. /\ GoodWrite(tx, tx', t, CreateList(t), CreatedRows(raw))
      /\ tx'.id_seq[t] = base + Len(raw)
  BY CreateStepKeeps
<1>5. /\ base \in Nat /\ Len(raw) \in Nat /\ DOMAIN raw = 1..Len(raw)
      /\ \A u \in Types : tx.id_seq[u] \in Nat
  <2>1. tx \in Tables
    BY DEF UploadInv, TablesInv, Sane
  <2>2. \A u \in Types : tx.id_seq[u] \in Nat
    BY <2>1, TablesFields, MaxIdAssumption
  <2>3. QED
    BY <1>1, <2>2
<1>6. \A u \in Types \ {t} : tx'.id_seq[u] = tx.id_seq[u]
  BY <1>4 DEF GoodWrite, Rewritten, CurrentRewritten
<1>7. new = [old EXCEPT ![t] = @ \cup CreatedMappings(tx, t, raw)]
  BY <1>3 DEF AddCreated
<1>8. \A m : m \in CreatedMappings(tx, t, raw) <=> \E i \in DOMAIN raw : m = Map(i)
  BY DEF CreatedMappings
<1>9. /\ \A m : m \in new[t] <=> m \in old[t] \/ \E i \in DOMAIN raw : m = Map(i)
      /\ \A u \in Types \ {t} : new[u] = old[u]
  BY <1>2, <1>7, <1>8
<1>10. \A i \in DOMAIN raw : /\ Map(i).old_id = raw[i].old_id /\ Map(i).new_id = base + i
                            /\ Map(i).new_version = 1 /\ raw[i].old_id < 0
                            /\ raw[i].old_id \notin seen
  BY <1>1, <1>3 DEF Fits, PlaceholdersUnique
<1>11. \A i, j \in DOMAIN raw : raw[i].old_id = raw[j].old_id => i = j
  BY <1>3 DEF PlaceholdersUnique
<1> HIDE DEF Map, raw, old, new, seen, base
<1>12. \A u \in Types : \A m \in old[u] :
         /\ m.old_id < 0 /\ m.new_version = 1 /\ m.new_id <= tx.id_seq[u]
         /\ \A n \in old[u] : m.old_id = n.old_id \/ m.new_id = n.new_id => m = n
  BY DEF CreatedReports, old
<1>13. ASSUME NEW m \in new[t]
       PROVE  /\ m.old_id < 0 /\ m.new_version = 1 /\ m.new_id <= base + Len(raw)
              /\ \A n \in new[t] : m.old_id = n.old_id \/ m.new_id = n.new_id => m = n
  <2>1. \A x \in old[t] : x.new_id \in Nat /\ x.new_id <= base
    <3>1. \A x \in old[t] : x.new_id \in Nat
      BY <1>2, MaxIdAssumption DEF Mapping, Ids
    <3>2. QED
      BY <3>1, <1>12 DEF base
  <2>2. \A x \in old[t], i \in DOMAIN raw : x.old_id # Map(i).old_id /\ x.new_id # Map(i).new_id
    BY <1>2, <1>5, <1>10, <2>1
  <2>3. \A i, j \in DOMAIN raw :
          Map(i).old_id = Map(j).old_id \/ Map(i).new_id = Map(j).new_id => Map(i) = Map(j)
    BY <1>5, <1>10, <1>11
  <2>4. \A n \in new[t] : m.old_id = n.old_id \/ m.new_id = n.new_id => m = n
    BY <1>9, <1>12, <2>2, <2>3
  <2>5. m.old_id < 0 /\ m.new_version = 1 /\ m.new_id <= base + Len(raw)
    <3>1. CASE m \in old[t]
      BY <1>5, <1>12, <2>1, <3>1
    <3>2. CASE \E i \in DOMAIN raw : m = Map(i)
      BY <1>5, <1>10, <3>2
    <3>3. QED
      BY <1>9, <3>1, <3>2
  <2>6. QED
    BY <2>4, <2>5
<1>14. ASSUME NEW u \in Types, NEW m \in new[u]
       PROVE  /\ m.old_id < 0 /\ m.new_version = 1 /\ m.new_id <= tx'.id_seq[u]
              /\ \A n \in new[u] : m.old_id = n.old_id \/ m.new_id = n.new_id => m = n
  <2>1. CASE u = t
    BY <1>4, <1>13, <2>1
  <2>2. CASE u # t
    BY <1>6, <1>9, <1>12, <2>2
  <2>3. QED
    BY <2>1, <2>2
<1>15. CreatedReports'
  BY <1>14 DEF CreatedReports, new
<1>16. Widens(old, new)
  BY <1>9, <1>14 DEF Widens
<1>17. Advances
  BY <1>3, <1>4, <1>16 DEF Advances, old, new
<1>18. QED
  BY <1>3, <1>9, <1>15, <1>17 DEF raw, old, new, base, Map

\* What is new in the history was in the list.
LEMMA AddedFrom ==
    ASSUME UploadInv, NEW t \in Types, NEW l, NEW rw, GoodWrite(tx, tx', t, l, rw), db' = db
    PROVE  \A u \in Types : \A h \in Added(db', tx', u) :
             \/ h \in Added(db, tx, u)
             \/ u = t /\ \E i \in DOMAIN l : h = HistoryRowOf(l[i], rw[i])
<1>1. Sane(tx)
  BY DEF UploadInv, TablesInv
<1>2. HistoryWritten(db, tx, tx', t, l, rw) /\ HistoryExtended(tx, tx', t, l, rw)
  BY <1>1, WriteHistory DEF GoodWrite, Rewritten
<1>3. \A u \in Types \ {t} : Added(db', tx', u) = Added(db, tx, u)
  BY <1>2 DEF HistoryExtended, Added
<1>4. \A h \in Added(db', tx', t) :
        h \in Added(db, tx, t) \/ \E i \in DOMAIN l : h = HistoryRowOf(l[i], rw[i])
  BY <1>2 DEF HistoryWritten
<1>5. QED
  BY <1>3, <1>4

LEMMA AskedOn ==
    ASSUME UploadInv, AskedInv, Advances, ct'.orig_sequence = ct.orig_sequence,
           NEW t \in Types, NEW l, NEW rw, GoodWrite(tx, tx', t, l, rw),
           \A i \in DOMAIN l : rw[i].visible =>
             \E d \in DOMAIN ct.orig_sequence :
               Asked(ct'.created, t, HistoryRowOf(l[i], rw[i]), ct.orig_sequence[d])
    PROVE  AskedInv'
<1> SUFFICES ASSUME NEW u \in Types, NEW h \in Added(db', tx', u), h.visible
             PROVE  \E d \in DOMAIN ct.orig_sequence : Asked(ct'.created, u, h, ct.orig_sequence[d])
  BY DEF AskedInv
<1>1. db' = db
  BY DEF Advances
<1>2. CASE h \in Added(db, tx, u)
  <2>1. PICK d \in DOMAIN ct.orig_sequence : Asked(ct.created, u, h, ct.orig_sequence[d])
    BY <1>2 DEF AskedInv
  <2>2. QED
    BY <2>1, AskedStays
<1>3. CASE u = t /\ \E i \in DOMAIN l : h = HistoryRowOf(l[i], rw[i])
  <2>1. PICK i \in DOMAIN l : h = HistoryRowOf(l[i], rw[i])
    BY <1>3
  <2>2. rw[i].visible
    BY <2>1 DEF HistoryRowOf
  <2>3. QED
    BY <1>3, <2>1, <2>2
<1>4. QED
  BY <1>1, <1>2, <1>3, AddedFrom

\* Outside of a loop every element of the buffer waits.
LEMMA WaitingBuffer ==
    ASSUME NEW u, ~InLoop(u)
    PROVE  \A n : Waits(u, n) <=> n \in DOMAIN buffer["modify"][u]
  BY DEF Waits

LEMMA NotCalling ==
    ASSUME NEW op \in Ops, NEW t, Calling(op, t), NEW u
    PROVE  ~InLoop(u)
  BY DEF Calling, InLoop, Ops

\* The elements of the list have been created as the document says.
LEMMA ListCreated ==
    ASSUME UploadInv, CreatedReports, NEW t \in Types, CreateStep(t),
           NEW i \in DOMAIN buffer["create"][t], NEW e, e = buffer["create"][t][i]
    PROVE  /\ IsCreated(t, e)'
           /\ \E m \in ct'.created[t] :
                m.old_id = e.old_id /\ m.new_id = HistoryRowOf(CreateList(t)[i], CreatedRows(buffer["create"][t])[i]).id
           /\ HistoryRowOf(CreateList(t)[i], CreatedRows(buffer["create"][t])[i]).version = 1
           /\ i \in DOMAIN CreateList(t)
<1> DEFINE raw == buffer["create"][t]
           l == CreateList(t)
           rw == CreatedRows(raw)
           created == ct'.created
           m == [old_id |-> raw[i].old_id, new_id |-> tx.id_seq[t] + i, new_version |-> 1]
<1>1. /\ raw \in Seq(Fitting("create", t)) /\ DOMAIN raw \subseteq Nat
      /\ \A j \in DOMAIN raw : raw[j] \in Element
  BY FittingTyped DEF UploadInv, BufferInv, Ops
<1>2. created = AddCreated(t) /\ db' = db /\ PlaceholdersKnown(AddCreated(t), t, raw)
  <2>1. "created" \in DOMAIN ct
    BY DEF UploadInv, PlaceholderInv, TrackingFields
  <2>2. QED
    BY <2>1 DEF CreateStep, handlerVars
<1>3. created \in [Types -> SUBSET Mapping]
  BY CreateStepKeeps DEF UploadInv, PlaceholderInv
<1>4. /\ GoodWrite(tx, tx', t, l, rw)
      /\ DOMAIN l = DOMAIN raw /\ l[i].id = tx.id_seq[t] + i
  BY CreateStepKeeps
<1>5. l = ResolveAll(created, t, raw)
  BY <1>2 DEF CreateList
<1>6. rw[i].version = 1 /\ rw[i].visible /\ rw[i].loc = raw[i].loc
  BY DEF CreatedRows
<1>7. m \in created[t]
  BY CreateFacts
<1>8. m.old_id = raw[i].old_id /\ m.new_id = tx.id_seq[t] + i
  OBVIOUS
<1>9. Sane(tx) /\ db \in Tables /\ Grows(db, tx)
  BY DEF UploadInv, TablesInv, Sane
<1>10. PlaceholdersKnown(created, t, raw)
  BY <1>2
<1> HIDE DEF m, raw, l, rw, created
<1>11. i \in DOMAIN raw /\ i \in DOMAIN l /\ e = raw[i]
  BY <1>4 DEF raw
<1>12. Stands(created, t, l[i], e)
  BY <1>1, <1>3, <1>5, <1>10, <1>11, ResolvedStands
<1>13. Stored(db, tx', created, t, e, l[i].id, 1)
  BY <1>4, <1>6, <1>9, <1>11, <1>12, StoredNew
<1>14. m.old_id = e.old_id /\ Stored(db', tx', created, t, e, m.new_id, 1)
  BY <1>2, <1>4, <1>8, <1>11, <1>13
<1>15. IsCreated(t, e)'
  BY <1>7, <1>14 DEF IsCreated, created
<1>16. HistoryRowOf(l[i], rw[i]).id = l[i].id /\ HistoryRowOf(l[i], rw[i]).version = 1
  BY <1>6 DEF HistoryRowOf
<1>17. m \in created[t] /\ m.old_id = e.old_id /\ m.new_id = HistoryRowOf(l[i], rw[i]).id
  BY <1>4, <1>7, <1>8, <1>11, <1>16
<1>18. QED
  BY <1>11, <1>15, <1>16, <1>17 DEF l, rw, raw, created

\* Elements that are done stay so, and those that wait go on waiting or are
\* done now.
LEMMA DocumentOn ==
    ASSUME UploadInv, DocumentInv, Advances, ct'.orig_sequence = ct.orig_sequence,
           \A op \in Ops, t \in Types : buffer'[op][t] = buffer[op][t] \/ buffer'[op][t] = <<>>,
           \A t \in Types : \A n \in DOMAIN buffer["create"][t] : \A e :
             e = buffer["create"][t][n] => IsCreated(t, e)' \/ buffer'["create"][t] = buffer["create"][t],
           \A t \in Types : \A n : \A e : Waits(t, n) /\ e = buffer["modify"][t][n] =>
             IsModified(t, e)' \/ (Waits(t, n)' /\ buffer'["modify"][t] = buffer["modify"][t])
    PROVE  DocumentInv'
<1> DEFINE doc == ct.orig_sequence
<1>1. doc' = doc
  OBVIOUS
<1>2. \A op \in Ops, t \in Types : \A n \in DOMAIN buffer'[op][t] :
        /\ buffer'[op][t][n].op = op /\ buffer'[op][t][n].type = t
        /\ \E i \in DOMAIN doc : doc[i] = buffer'[op][t][n]
  <2>1. \A op \in Ops, t \in Types : \A n \in DOMAIN buffer'[op][t] : buffer'[op][t] = buffer[op][t]
    OBVIOUS
  <2>2. \A op \in Ops, t \in Types : \A n \in DOMAIN buffer[op][t] :
          /\ buffer[op][t][n].op = op /\ buffer[op][t][n].type = t
          /\ \E i \in DOMAIN doc : doc[i] = buffer[op][t][n]
    BY DEF DocumentInv
  <2>3. QED
    BY <2>1, <2>2
<1>3. \A i \in DOMAIN doc : doc[i] \in Element
  BY DocumentElements
<1>4. ASSUME NEW t \in Types, NEW i \in DOMAIN doc, NEW e, e = doc[i], e.op = "create", e.type = t
      PROVE  IsCreated(t, e)' \/ \E n \in DOMAIN buffer'["create"][t] : buffer'["create"][t][n] = e
  <2>1. e \in Element
    BY <1>3, <1>4
  <2>2. IsCreated(t, e) \/ \E n \in DOMAIN buffer["create"][t] : buffer["create"][t][n] = e
    BY <1>4 DEF DocumentInv
  <2>3. CASE IsCreated(t, e)
    BY <2>1, <2>3, CreatedStays
  <2>4. CASE \E n \in DOMAIN buffer["create"][t] : buffer["create"][t][n] = e
    BY <2>4
  <2>5. QED
    BY <2>2, <2>3, <2>4
<1>5. ASSUME NEW t \in Types, NEW i \in DOMAIN doc, NEW e, e = doc[i], e.op = "modify", e.type = t
      PROVE  IsModified(t, e)' \/ \E n : Waits(t, n)' /\ buffer'["modify"][t][n] = e
  <2>1. e \in Element
    BY <1>3, <1>5
  <2>2. IsModified(t, e) \/ \E n : Waits(t, n) /\ buffer["modify"][t][n] = e
    BY <1>5 DEF DocumentInv
  <2>3. CASE IsModified(t, e)
    BY <2>1, <2>3, ModifiedStays
  <2>4. CASE \E n : Waits(t, n) /\ buffer["modify"][t][n] = e
    BY <2>4
  <2>5. QED
    BY <2>2, <2>3, <2>4
<1>6. doc \in Seq(Element)
  BY DEF DocumentInv
<1>7. \A t \in Types, i \in DOMAIN doc' :
        /\ doc'[i].op = "create" /\ doc'[i].type = t =>
             IsCreated(t, doc[i])' \/ \E n \in DOMAIN buffer'["create"][t] : buffer'["create"][t][n] = doc'[i]
        /\ doc'[i].op = "modify" /\ doc'[i].type = t =>
             IsModified(t, doc[i])' \/ \E n : Waits(t, n)' /\ buffer'["modify"][t][n] = doc'[i]
  BY <1>1, <1>4, <1>5
<1>8. doc' \in Seq(Element)
  BY <1>1, <1>6
<1>9. \A op \in Ops, t \in Types : \A n \in DOMAIN buffer'[op][t] :
        /\ buffer'[op][t][n].op = op /\ buffer'[op][t][n].type = t
        /\ \E i \in DOMAIN doc' : doc'[i] = buffer'[op][t][n]
  BY <1>1, <1>2
<1>10. QED
  BY <1>7, <1>8, <1>9 DEF DocumentInv

LEMMA CreatesOn ==
    ASSUME CreatesInv, ct'.orig_sequence = ct.orig_sequence,
           \A u \in Types : \A o : CreatesTwice(u, o) => CreatesTwice(u, o)'
    PROVE  CreatesInv'
<1> DEFINE doc == ct.orig_sequence
           Same(u, i, j) ==
               /\ i # j /\ doc[i].op = "create" /\ doc[j].op = "create"
               /\ doc[i].type = u /\ doc[j].type = u /\ doc[i].old_id = doc[j].old_id
<1>1. ASSUME NEW u \in Types, NEW i \in DOMAIN doc, NEW j \in DOMAIN doc, Same(u, i, j)
      PROVE  CreatesTwice(u, doc[i].old_id)'
  <2>1. PICK o : o = doc[i].old_id
    OBVIOUS
  <2>2. CreatesTwice(u, o)
    BY <1>1, <2>1 DEF CreatesInv
  <2>3. CreatesTwice(u, o)'
    BY <2>2
  <2>4. doc[i]' = doc[i]
    OBVIOUS
  <2>5. QED
    BY <2>1, <2>3, <2>4
<1>2. QED
  BY <1>1 DEF CreatesInv

LEMMA CreateKeepsDiff ==
    ASSUME UploadInv, DiffInv, NEW t \in Types, CreateStep(t)
    PROVE  DiffInv'
<1> DEFINE raw == buffer["create"][t]
           doc == ct.orig_sequence
<1>1. FlushInv /\ CreatedReports /\ OtherReports /\ DocumentInv /\ CreatesInv /\ ModifiesInv /\ AskedInv
  BY DEF DiffInv
<1>2. /\ CreatedReports' /\ Advances /\ doc' = doc
      /\ \A u \in Types \ {t} : ct'.created[u] = ct.created[u]
      /\ ct'.modified = ct.modified /\ ct'.deleted = ct.deleted
  BY <1>1, CreateFacts
<1>3. /\ Calling("create", t) /\ Return("create", t)
      /\ phase' = phase /\ current_state' = current_state /\ pending' = pending
      /\ PlaceholdersUnique(create_placeholder_ids[t], raw)
      /\ create_placeholder_ids' = [create_placeholder_ids EXCEPT ![t] =
           @ \cup {raw[i].old_id : i \in DOMAIN raw}]
  BY DEF CreateStep, handlerVars
<1>4. "create" \in Ops /\ "modify" \in Ops
  BY DEF Ops
<1>5. /\ FlushInv' /\ LoopedInv'
      /\ \A o \in Ops, u \in Types :
           buffer'[o][u] = IF o = "create" /\ u = t THEN <<>> ELSE buffer[o][u]
      /\ \A u \in Types : ~InLoop(u)'
  <2>1. todo # <<>> /\ phase = "flushing" /\ Head(todo) = [op |-> "create", type |-> t]
    BY <1>3 DEF Calling
  <2>2. QED
    BY <1>1, <1>3, <1>4, <2>1, ReturnFlushes
<1>6. /\ \A u \in Types : buffer'["modify"][u] = buffer["modify"][u]
      /\ \A u \in Types : \A n : Waits(u, n) => Waits(u, n)'
  <2>1. \A u \in Types : buffer'["modify"][u] = buffer["modify"][u]
    BY <1>4, <1>5
  <2>2. \A u \in Types : ~InLoop(u)
    BY <1>3, <1>4, NotCalling
  <2>3. QED
    BY <1>5, <2>1, <2>2 DEF Waits
<1>7. \A i \in DOMAIN raw : \A e : e = raw[i] =>
        /\ IsCreated(t, e)'
        /\ \E m \in ct'.created[t] :
             m.old_id = e.old_id /\ m.new_id = HistoryRowOf(CreateList(t)[i], CreatedRows(raw)[i]).id
        /\ HistoryRowOf(CreateList(t)[i], CreatedRows(raw)[i]).version = 1
        /\ i \in DOMAIN CreateList(t)
  BY <1>1, ListCreated
<1>8. OtherReports'
  BY <1>1, <1>2, ReportsStay DEF OtherReports
<1>9. DocumentInv'
  <2>1. \A op \in Ops, u \in Types : buffer'[op][u] = buffer[op][u] \/ buffer'[op][u] = <<>>
    BY <1>5
  <2>2. \A u \in Types : \A n \in DOMAIN buffer["create"][u] : \A e :
          e = buffer["create"][u][n] => IsCreated(u, e)' \/ buffer'["create"][u] = buffer["create"][u]
    BY <1>4, <1>5, <1>7
  <2>3. \A u \in Types : \A n : \A e : Waits(u, n) /\ e = buffer["modify"][u][n] =>
          IsModified(u, e)' \/ (Waits(u, n)' /\ buffer'["modify"][u] = buffer["modify"][u])
    BY <1>6
  <2>4. QED
    BY <1>1, <1>2, <2>1, <2>2, <2>3, DocumentOn
<1>10. CreatesInv'
  <2>1. ASSUME NEW u \in Types, u # t
        PROVE  /\ buffer'["create"][u] = buffer["create"][u]
               /\ create_placeholder_ids'[u] = create_placeholder_ids[u]
    <3>1. create_placeholder_ids \in [Types -> SUBSET Placeholders]
      BY DEF UploadInv, PlaceholderInv
    <3>2. QED
      BY <1>3, <1>4, <1>5, <2>1, <3>1
  <2>2. ASSUME NEW o PROVE ~CreatesTwice(t, o)
    BY <1>3 DEF CreatesTwice, PlaceholdersUnique
  <2>3. \A u \in Types : \A o : CreatesTwice(u, o) => CreatesTwice(u, o)'
    BY <2>1, <2>2 DEF CreatesTwice
  <2>4. QED
    BY <1>1, <1>2, <2>3, CreatesOn
<1>11. ModifiesInv'
  <2>1. buffer'["modify"] = buffer["modify"]
    <3> DEFINE S == Seq(Element)
    <3>1. buffer \in [Ops -> [Types -> S]] /\ buffer' = [buffer EXCEPT !["create"][t] = <<>>]
      BY <1>3 DEF UploadInv, BufferInv, Return
    <3> HIDE DEF S
    <3>2. QED
      BY <1>4, <3>1
  <2>2. QED
    BY <1>1, <1>2, <1>6, <2>1, ModifiesStay
<1>12. AskedInv'
  <2> DEFINE l == CreateList(t)
             rw == CreatedRows(raw)
  <2>1. GoodWrite(tx, tx', t, l, rw) /\ DOMAIN l = DOMAIN raw
    BY CreateStepKeeps
  <2>2. ASSUME NEW i \in DOMAIN l
        PROVE  \E d \in DOMAIN doc : Asked(ct'.created, t, HistoryRowOf(l[i], rw[i]), doc[d])
    <3>1. i \in DOMAIN raw
      BY <2>1, <2>2
    <3>2. /\ raw[i].op = "create" /\ raw[i].type = t
          /\ \E d \in DOMAIN doc : doc[d] = raw[i]
      BY <1>1, <1>4, <3>1 DEF DocumentInv
    <3>3. PICK d \in DOMAIN doc : doc[d] = raw[i]
      BY <3>2
    <3>4. /\ \E m \in ct'.created[t] : m.old_id = raw[i].old_id /\ m.new_id = HistoryRowOf(l[i], rw[i]).id
          /\ HistoryRowOf(l[i], rw[i]).version = 1
      BY <1>7, <3>1
    <3> HIDE DEF doc, raw, l, rw
    <3>5. Asked(ct'.created, t, HistoryRowOf(l[i], rw[i]), doc[d])
      BY <3>2, <3>3, <3>4 DEF Asked
    <3>6. QED
      BY <3>5
  <2> HIDE DEF l, rw
  <2>3. QED
    BY <1>1, <1>2, <2>1, <2>2, AskedOn
<1>13. QED
  BY <1>2, <1>5, <1>8, <1>9, <1>10, <1>11, <1>12 DEF DiffInv

LEMMA CreatedWidens ==
    ASSUME CreatedReports, ct'.created = ct.created
    PROVE  Widens(ct.created, ct'.created)
  BY DEF CreatedReports, Widens

-----------------------------------------------------------------------------
(* process_delete_* *)

\* What is reported as deleted has been deleted, under its id.
LEMMA ListDeleted ==
    ASSUME UploadInv, NEW t \in Types, NEW m, NEW skipped, DeleteStep(t, m, skipped),
           NEW r \in Mappings(Hidden(tx, t, m), t, m, IdsOf(m))
    PROVE  /\ Known(ct.created, t, r.old_id) /\ r.new_id = Resolve(ct.created, t, r.old_id)
           /\ \E h \in Added(db', tx', t) : ~h.visible /\ h.id = r.new_id
<1> DEFINE raw == buffer["delete"][t]
           l == DeleteList(t)
           rw == HiddenRows(tx, t, m)
<1>1. /\ raw \in Seq(Fitting("delete", t)) /\ DOMAIN raw \subseteq Nat
      /\ \A j \in DOMAIN raw : raw[j] \in Element
  BY FittingTyped DEF UploadInv, BufferInv, Ops
<1>2. /\ PlaceholdersKnown(ct.created, t, raw) /\ Part(m, l) /\ Unique(m) /\ db' = db
  BY DEF DeleteStep, handlerVars
<1>3. GoodWrite(tx, tx', t, m, rw) /\ FitList(m, t)
  BY DeleteStepKeeps
<1>4. PICK id \in IdsOf(m) : r = [old_id |-> LastOf(m, id).old_id, new_id |-> id,
                                  new_version |-> Hidden(tx, t, m).current[t][id].version]
  BY DEF Mappings
<1>5. PICK i \in DOMAIN m : m[i].id = id
  BY DEF IdsOf
<1>6. LastOf(m, id) = m[i]
  <2>1. Listed(m)
    BY <1>3 DEF FitList
  <2>2. LastOf(m, m[i].id) = m[i]
    BY <1>2, <2>1, LastOfUnique DEF Listed
  <2>3. QED
    BY <1>5, <2>2
<1>7. r.old_id = m[i].old_id /\ r.new_id = m[i].id
  BY <1>4, <1>5, <1>6
<1>8. i \in DOMAIN l /\ m[i] = l[i]
  BY <1>2 DEF Part
<1>9. ct.created \in [Types -> SUBSET Mapping]
  BY DEF UploadInv, PlaceholderInv
<1>10. l = ResolveAll(ct.created, t, raw)
  BY DEF DeleteList
<1>11. DOMAIN l = DOMAIN raw
  BY <1>10 DEF ResolveAll
<1>12. Sane(tx) /\ db \in Tables /\ Grows(db, tx)
  BY DEF UploadInv, TablesInv, Sane
<1>13. rw[i].visible = FALSE
  BY DEF HiddenRows, HiddenRow
<1> HIDE DEF raw, l, rw
<1>14. Stands(ct.created, t, l[i], raw[i])
  BY <1>1, <1>2, <1>8, <1>9, <1>10, <1>11, ResolvedStands
<1>15. Known(ct.created, t, r.old_id) /\ r.new_id = Resolve(ct.created, t, r.old_id)
  BY <1>7, <1>8, <1>14 DEF Stands
<1>16. HistoryRowOf(m[i], rw[i]) \in Added(db, tx', t)
  BY <1>3, <1>12, HistoryNew
<1>17. HistoryRowOf(m[i], rw[i]).visible = FALSE /\ HistoryRowOf(m[i], rw[i]).id = m[i].id
  BY <1>13 DEF HistoryRowOf
<1>18. QED
  BY <1>2, <1>7, <1>15, <1>16, <1>17

LEMMA DeleteKeepsDiff ==
    ASSUME UploadInv, DiffInv, NEW t \in Types, NEW m, NEW skipped, DeleteStep(t, m, skipped)
    PROVE  DiffInv'
<1>1. FlushInv /\ CreatedReports /\ OtherReports /\ DocumentInv /\ CreatesInv /\ ModifiesInv /\ AskedInv
  BY DEF DiffInv
<1> DEFINE new == Mappings(Hidden(tx, t, m), t, m, IdsOf(m))
<1>2. /\ Calling("delete", t) /\ Return("delete", t) /\ db' = db
      /\ phase' = phase /\ current_state' = current_state /\ pending' = pending
      /\ create_placeholder_ids' = create_placeholder_ids
  BY DEF DeleteStep, handlerVars
<1>3. /\ ct'.created = ct.created /\ ct'.modified = ct.modified
      /\ ct'.orig_sequence = ct.orig_sequence
      /\ ct'.deleted = [ct.deleted EXCEPT ![t] = @ \cup new]
  <2>1. TrackingFields \subseteq DOMAIN ct
    BY DEF UploadInv, PlaceholderInv
  <2>2. ct' = [ct EXCEPT !.skip_deleted[t] = skipped, !.deleted[t] = @ \cup new]
    BY DEF DeleteStep
  <2> HIDE DEF new
  <2>3. QED
    BY <2>1, <2>2 DEF TrackingFields
<1>4. \A u \in Types : ct'.deleted[u] \subseteq ct.deleted[u] \cup (IF u = t THEN new ELSE {})
  BY <1>3
<1>5. GoodWrite(tx, tx', t, m, HiddenRows(tx, t, m))
  BY DeleteStepKeeps
<1>6. Advances
  BY <1>1, <1>2, <1>3, <1>5, CreatedWidens DEF Advances
<1>7. "create" \in Ops /\ "modify" \in Ops /\ "delete" \in Ops
  BY DEF Ops
<1>8. /\ FlushInv' /\ LoopedInv'
      /\ \A o \in Ops, u \in Types :
           buffer'[o][u] = IF o = "delete" /\ u = t THEN <<>> ELSE buffer[o][u]
      /\ \A u \in Types : ~InLoop(u)'
  <2>1. todo # <<>> /\ phase = "flushing" /\ Head(todo) = [op |-> "delete", type |-> t]
    BY <1>2 DEF Calling
  <2>2. QED
    BY <1>1, <1>2, <1>7, <2>1, ReturnFlushes
<1>9. /\ \A u \in Types : /\ buffer'["modify"][u] = buffer["modify"][u]
                          /\ buffer'["create"][u] = buffer["create"][u]
      /\ \A u \in Types : \A n : Waits(u, n) => Waits(u, n)'
  <2>1. \A u \in Types : /\ buffer'["modify"][u] = buffer["modify"][u]
                         /\ buffer'["create"][u] = buffer["create"][u]
    BY <1>7, <1>8
  <2>2. \A u \in Types : ~InLoop(u)
    BY <1>2, <1>7, NotCalling
  <2>3. QED
    BY <1>8, <2>1, <2>2 DEF Waits
<1>10. CreatedReports'
  <2>1. \A u \in Types : tx.id_seq[u] = tx'.id_seq[u]
    BY DeleteStepKeeps
  <2>2. QED
    BY <1>1, <1>3, <2>1 DEF CreatedReports
<1>11. OtherReports'
  <2>1. \A r \in new : /\ Known(ct.created, t, r.old_id) /\ r.new_id = Resolve(ct.created, t, r.old_id)
                       /\ \E h \in Added(db', tx', t) : ~h.visible /\ h.id = r.new_id
    BY ListDeleted
  <2> HIDE DEF new
  <2>2. ASSUME NEW u \in Types
        PROVE  /\ \A r \in ct'.modified[u] \cup ct'.deleted[u] :
                    Known(ct'.created, u, r.old_id) /\ r.new_id = Resolve(ct'.created, u, r.old_id)
               /\ \A r \in ct'.deleted[u] : \E h \in Added(db', tx', u) : ~h.visible /\ h.id = r.new_id
    <3>1. /\ \A r \in ct.modified[u] \cup ct.deleted[u] :
               Known(ct'.created, u, r.old_id) /\ r.new_id = Resolve(ct'.created, u, r.old_id)
          /\ \A r \in ct.deleted[u] : \E h \in Added(db', tx', u) : ~h.visible /\ h.id = r.new_id
      BY <1>1, <1>6, ReportsStay
    <3>2. QED
      BY <1>3, <1>4, <2>1, <3>1
  <2>3. QED
    BY <2>2 DEF OtherReports
<1>12. DocumentInv'
  <2>1. \A op \in Ops, u \in Types : buffer'[op][u] = buffer[op][u] \/ buffer'[op][u] = <<>>
    BY <1>8
  <2>2. \A u \in Types : \A n \in DOMAIN buffer["create"][u] : \A e :
          e = buffer["create"][u][n] => IsCreated(u, e)' \/ buffer'["create"][u] = buffer["create"][u]
    BY <1>9
  <2>3. \A u \in Types : \A n : \A e : Waits(u, n) /\ e = buffer["modify"][u][n] =>
          IsModified(u, e)' \/ (Waits(u, n)' /\ buffer'["modify"][u] = buffer["modify"][u])
    BY <1>9
  <2>4. QED
    BY <1>1, <1>3, <1>6, <2>1, <2>2, <2>3, DocumentOn
<1>13. CreatesInv'
  <2>1. \A u \in Types : \A o : CreatesTwice(u, o) => CreatesTwice(u, o)'
    BY <1>2, <1>9 DEF CreatesTwice
  <2>2. QED
    BY <1>1, <1>3, <2>1, CreatesOn
<1>14. ModifiesInv'
  <2>1. buffer'["modify"] = buffer["modify"]
    <3> DEFINE S == Seq(Element)
    <3>1. buffer \in [Ops -> [Types -> S]] /\ buffer' = [buffer EXCEPT !["delete"][t] = <<>>]
      BY <1>2 DEF UploadInv, BufferInv, Return
    <3> HIDE DEF S
    <3>2. QED
      BY <1>7, <3>1
  <2>2. QED
    BY <1>1, <1>3, <1>6, <1>9, <2>1, ModifiesStay
<1>15. AskedInv'
  <2>1. \A i \in DOMAIN m : ~HiddenRows(tx, t, m)[i].visible
    BY DEF HiddenRows, HiddenRow
  <2>2. QED
    BY <1>1, <1>3, <1>5, <1>6, <2>1, AskedOn
<1>16. QED
  BY <1>8, <1>10, <1>11, <1>12, <1>13, <1>14, <1>15 DEF DiffInv

-----------------------------------------------------------------------------
(* process_modify_* *)

LEMMA OccurrenceTyped ==
    ASSUME NEW l, DOMAIN l \subseteq Nat, NEW i \in DOMAIN l
    PROVE  Occurrence(l, i) \in DOMAIN BuildPackages(l) /\ Occurrence(l, i) \in Nat \ {0}
<1>1. Occurrence(l, i) \in DOMAIN BuildPackages(l)
  BY DEF BuildPackages
<1>2. QED
  BY <1>1, PackagesNumbered DEF Numbered

\* A step that changes neither the tables nor the buffers.
LEMMA RestKeepsDiff ==
    ASSUME UploadInv, DiffInv, db' = db, tx' = tx, ct' = ct, buffer' = buffer,
           create_placeholder_ids' = create_placeholder_ids,
           \A u \in Types : \A n : Waits(u, n) => Waits(u, n)'
    PROVE  CreatedReports' /\ OtherReports' /\ DocumentInv' /\ CreatesInv' /\ ModifiesInv' /\ AskedInv'
<1>1. CreatedReports /\ OtherReports /\ DocumentInv /\ CreatesInv /\ ModifiesInv /\ AskedInv
  BY DEF DiffInv
<1>2. ct'.created = ct.created /\ ct'.modified = ct.modified /\ ct'.orig_sequence = ct.orig_sequence
  OBVIOUS
<1>3. Advances
  BY <1>1, <1>2, CreatedWidens DEF Advances
<1>4. CreatedReports' /\ OtherReports' /\ AskedInv'
  BY <1>1 DEF CreatedReports, OtherReports, AskedInv
<1>5. DocumentInv'
  <2>1. \A op \in Ops, u \in Types : buffer'[op][u] = buffer[op][u] \/ buffer'[op][u] = <<>>
    OBVIOUS
  <2>2. \A u \in Types : \A n \in DOMAIN buffer["create"][u] : \A e :
          e = buffer["create"][u][n] => IsCreated(u, e)' \/ buffer'["create"][u] = buffer["create"][u]
    OBVIOUS
  <2>3. \A u \in Types : \A n : \A e : Waits(u, n) /\ e = buffer["modify"][u][n] =>
          IsModified(u, e)' \/ (Waits(u, n)' /\ buffer'["modify"][u] = buffer["modify"][u])
    OBVIOUS
  <2>4. QED
    BY <1>1, <1>2, <1>3, <2>1, <2>2, <2>3, DocumentOn
<1>6. CreatesInv'
  <2>1. \A u \in Types : \A o : CreatesTwice(u, o) => CreatesTwice(u, o)'
    BY DEF CreatesTwice
  <2>2. QED
    BY <1>1, <1>2, <2>1, CreatesOn
<1>7. ModifiesInv'
  BY <1>1, <1>2, <1>3, ModifiesStay
<1>8. QED
  BY <1>4, <1>5, <1>6, <1>7

LEMMA ModifyKeepsDiff ==
    ASSUME UploadInv, DiffInv, NEW t \in Types, ModifyStep(t)
    PROVE  DiffInv'
<1> DEFINE call == [op |-> "package", type |-> t]
           l == ModifyList(t)
           rest == Tail(todo)
<1>1. FlushInv
  BY DEF DiffInv
<1>2. /\ Calling("modify", t) /\ db' = db /\ tx' = tx /\ ct' = ct /\ buffer' = buffer
      /\ phase' = phase /\ current_state' = current_state /\ pending' = pending
      /\ create_placeholder_ids' = create_placeholder_ids
      /\ packages' = BuildPackages(l) /\ package' = 1
      /\ todo' = <<call>> \o rest
      /\ PlaceholdersKnown(ct.created, t, buffer["modify"][t])
  BY DEF ModifyStep, handlerVars
<1>3. /\ rest \in Seq(Call) /\ Head(todo) = todo[1] /\ 1 \in DOMAIN todo
      /\ todo # <<>> /\ phase = "flushing" /\ Head(todo) = [op |-> "modify", type |-> t]
      /\ todo \in Seq(Call)
  BY <1>2, NoPackageLeft DEF UploadInv, Calling, PackageInv
<1>4. call \in Call /\ call.op = "package" /\ call.type = t
  BY DEF Call, Ops
<1>5. /\ todo' # <<>> /\ Head(todo') = call
      /\ 1 \in DOMAIN todo' /\ todo'[1] = call
      /\ \A n \in DOMAIN todo : n # 1 => n \in DOMAIN todo' /\ todo'[n] = todo[n]
  <2> DEFINE S == Call
  <2>1. todo \in Seq(S) /\ rest \in Seq(S) /\ call \in S /\ rest = Tail(todo)
    BY <1>3, <1>4
  <2> HIDE DEF S, call, rest
  <2>2. /\ <<call>> \o rest # <<>> /\ Head(<<call>> \o rest) = call
        /\ 1 \in DOMAIN (<<call>> \o rest) /\ (<<call>> \o rest)[1] = call
        /\ \A n \in DOMAIN rest : n + 1 \in DOMAIN (<<call>> \o rest) /\ (<<call>> \o rest)[n + 1] = rest[n]
    BY <2>1
  <2>3. ASSUME NEW n \in DOMAIN todo, n # 1 PROVE n \in DOMAIN todo' /\ todo'[n] = todo[n]
    <3>1. n - 1 \in DOMAIN rest /\ rest[n - 1] = todo[n] /\ n \in Nat
      BY <1>3, <2>1, <2>3, TailCalls
    <3>2. (n - 1) + 1 = n
      BY <3>1
    <3>3. QED
      BY <1>2, <2>2, <3>1, <3>2
  <2>4. QED
    BY <1>2, <2>2, <2>3
<1>6. \A u : InLoop(u)' => u = t
  BY <1>4, <1>5 DEF InLoop
<1>7. l' = l
  BY <1>2 DEF ModifyList
<1>8. DOMAIN l \subseteq Nat /\ DOMAIN l = DOMAIN buffer["modify"][t]
  <2>1. FitList(l, t)
    BY ModifyStepKeeps
  <2>2. DOMAIN l \subseteq Nat
    BY <2>1 DEF FitList, Listed
  <2>3. QED
    BY <2>2 DEF ModifyList, ResolveAll
<1>9. \A u \in Types : \A n : Waits(u, n) => Waits(u, n)'
  <2> SUFFICES ASSUME NEW u \in Types, NEW n, Waits(u, n) PROVE Waits(u, n)'
    OBVIOUS
  <2>1. n \in DOMAIN buffer["modify"][u]
    BY DEF Waits
  <2>2. CASE u # t
    BY <1>2, <1>6, <2>1, <2>2 DEF Waits
  <2>3. CASE u = t
    <3>1. Occurrence(l, n) \in Nat \ {0}
      BY <1>8, <2>1, <2>3, OccurrenceTyped
    <3>2. Occurrence(l, n) >= 1
      BY <3>1
    <3>3. Occurrence(l', n) >= package'
      BY <1>2, <1>7, <3>2
    <3>4. QED
      BY <1>2, <2>1, <2>3, <3>3 DEF Waits
  <2>4. QED
    BY <2>2, <2>3
<1>10. CreatedReports' /\ OtherReports' /\ DocumentInv' /\ CreatesInv' /\ ModifiesInv' /\ AskedInv'
  BY <1>2, <1>9, RestKeepsDiff
<1>11. LoopedInv'
  BY <1>2, <1>6, <1>7 DEF LoopedInv
<1>12. FlushInv'
  <2>1. Leaves' = Leaves
    BY <1>2 DEF Leaves
  <2>2. ASSUME NEW o \in Ops, NEW u \in Types, Awaited(o, u) PROVE Awaited(o, u)'
    <3>1. PICK n \in DOMAIN todo :
            todo[n].type = u /\ (todo[n].op = o \/ (o = "modify" /\ todo[n].op = "package"))
      BY <2>2 DEF Awaited
    <3>2. CASE n = 1
      <4>1. u = t /\ o = "modify"
        BY <1>3, <3>1, <3>2
      <4>2. QED
        BY <1>4, <1>5, <4>1 DEF Awaited
    <3>3. CASE n # 1
      BY <1>5, <3>1, <3>3 DEF Awaited
    <3>4. QED
      BY <3>2, <3>3
  <2>3. \A o \in Ops, u \in Types : Holds(o, u)' = Holds(o, u)
    BY <1>2 DEF Holds
  <2>4. QED
    BY <1>1, <1>2, <1>3, <2>1, <2>2, <2>3 DEF FlushInv
<1>13. QED
  BY <1>10, <1>11, <1>12 DEF DiffInv

\* The package is the part of the list whose turn it is.
LEMMA PackageTurn ==
    ASSUME UploadInv, LoopedInv, NEW t \in Types, PackageStep(t)
    PROVE  /\ package \in Nat \ {0} /\ packages = BuildPackages(ModifyList(t))
           /\ PlaceholdersKnown(ct.created, t, buffer["modify"][t])
           /\ \A n : n \in DOMAIN packages[package] <=>
                n \in DOMAIN buffer["modify"][t] /\ Occurrence(ModifyList(t), n) = package
           /\ \A n \in DOMAIN buffer["modify"][t] : Occurrence(ModifyList(t), n) \in Nat
           /\ \A n \in DOMAIN packages[package] :
                Stands(ct.created, t, packages[package][n], buffer["modify"][t][n])
<1> DEFINE raw == buffer["modify"][t]
           all == ModifyList(t)
           l == packages[package]
<1>1. /\ package \in Nat \ {0} /\ packages = BuildPackages(all)
      /\ PlaceholdersKnown(ct.created, t, raw) /\ package \in DOMAIN packages
  <2>1. InLoop(t) /\ package \in DOMAIN packages
    BY DEF PackageStep, Calling, InLoop
  <2>2. QED
    BY <2>1 DEF LoopedInv
<1>2. /\ raw \in Seq(Fitting("modify", t)) /\ DOMAIN raw \subseteq Nat
      /\ \A j \in DOMAIN raw : raw[j] \in Element
  BY FittingTyped DEF UploadInv, BufferInv, Ops
<1>3. all = ResolveAll(ct.created, t, raw) /\ DOMAIN all = DOMAIN raw
  BY DEF ModifyList, ResolveAll
<1>4. ct.created \in [Types -> SUBSET Mapping]
  BY DEF UploadInv, PlaceholderInv
<1> HIDE DEF raw, all
<1>5. /\ \A n : n \in DOMAIN l <=> n \in DOMAIN all /\ Occurrence(all, n) = package
      /\ \A n \in DOMAIN l : l[n] = all[n]
  BY <1>1 DEF BuildPackages
<1>6. \A n \in DOMAIN raw : Occurrence(all, n) \in Nat
  BY <1>2, <1>3, OccurrenceTyped
<1>7. \A n \in DOMAIN raw : Stands(ct.created, t, all[n], raw[n])
  BY <1>1, <1>2, <1>3, <1>4, ResolvedStands
<1>8. QED
  BY <1>1, <1>3, <1>5, <1>6, <1>7 DEF raw, all

LEMMA PackageFacts ==
    ASSUME UploadInv, CountInv, CreatedReports, LoopedInv, NEW t \in Types, PackageStep(t)
    PROVE  /\ Advances /\ ct'.created = ct.created /\ ct'.deleted = ct.deleted
           /\ ct'.orig_sequence = ct.orig_sequence
           /\ \A u \in Types \ {t} : ct'.modified[u] = ct.modified[u]
           /\ \A m : m \in ct'.modified[t] <=>
                \/ m \in ct.modified[t]
                \/ \E n \in DOMAIN packages[package] :
                     m = Report(ct.created, t, buffer["modify"][t][n])
<1> DEFINE l == packages[package]
           raw == buffer["modify"][t]
           mid == Updated(tx, t, l)
           new == Mappings(mid, t, l, IdsOf(l))
<1>1. GoodWrite(tx, tx', t, l, ShownRows(l)) /\ FitList(l, t)
  BY PackageStepKeeps
<1>2. /\ Unique(l) /\ db' = db /\ tx' = Saved(mid, t, l)
      /\ ct' = [ct EXCEPT !.modified[t] = @ \cup new]
  BY DEF PackageStep, handlerVars
<1>3. tx \in Tables /\ Listed(l)
  BY <1>1 DEF UploadInv, TablesInv, Sane, FitList
<1>4. mid \in Tables
  <2> HIDE DEF l
  <2>1. QED
    BY <1>2, <1>3, BetweenStatements
<1>5. mid.current = tx'.current
  <2> HIDE DEF l, mid
  <2>1. QED
    BY <1>2, <1>3, <1>4, BetweenStatements
<1>6. \A n \in DOMAIN l : Stands(ct.created, t, l[n], raw[n])
  BY PackageTurn
<1>7. \A n \in DOMAIN l : /\ LastOf(l, l[n].id) = l[n]
                          /\ tx'.current[t][l[n].id] = ShownRows(l)[n]
                          /\ ShownRows(l)[n].version = l[n].version + 1
  <2>1. \A n \in DOMAIN l : LastOf(l, l[n].id) = l[n]
    BY <1>2, <1>3, LastOfUnique
  <2>2. \A n \in DOMAIN l : tx'.current[t][l[n].id] = ShownRows(l)[n]
    BY <1>1 DEF GoodWrite, Rewritten, CurrentRewritten
  <2>3. \A n \in DOMAIN l : ShownRows(l)[n].version = l[n].version + 1
    BY DEF ShownRows, ShownRow
  <2>4. QED
    BY <2>1, <2>2, <2>3
<1> DEFINE Map(id) == [old_id |-> LastOf(l, id).old_id, new_id |-> id,
                       new_version |-> mid.current[t][id].version]
<1>8. \A m : m \in new <=> \E id \in IdsOf(l) : m = Map(id)
  BY DEF Mappings
<1>9. \A id : id \in IdsOf(l) <=> \E n \in DOMAIN l : id = l[n].id
  BY DEF IdsOf
<1>10. \A n \in DOMAIN l : Map(l[n].id) = Report(ct.created, t, raw[n])
  BY <1>5, <1>6, <1>7 DEF Stands, Report
<1> HIDE DEF new, Map, mid, l, raw
<1>11. \A m : m \in new <=> \E n \in DOMAIN l : m = Report(ct.created, t, raw[n])
  BY <1>8, <1>9, <1>10
<1>12. /\ ct'.modified = [ct.modified EXCEPT ![t] = @ \cup new]
       /\ ct'.created = ct.created /\ ct'.deleted = ct.deleted
       /\ ct'.orig_sequence = ct.orig_sequence
  BY <1>2 DEF UploadInv, PlaceholderInv, TrackingFields
<1>13. ct.modified \in [Types -> SUBSET Mapping]
  BY DEF CountInv
<1>14. ct'.modified[t] = ct.modified[t] \cup new /\ \A u \in Types \ {t} : ct'.modified[u] = ct.modified[u]
  BY <1>12, <1>13
<1>15. Widens(ct.created, ct'.created)
  BY <1>12, CreatedWidens
<1>16. Advances
  BY <1>1, <1>2, <1>14, <1>15 DEF Advances
<1>17. QED
  BY <1>11, <1>12, <1>14, <1>16 DEF l, raw

\* The elements of the package have been modified as the document says.
LEMMA ListModified ==
    ASSUME UploadInv, CountInv, CreatedReports, LoopedInv, NEW t \in Types, PackageStep(t),
           NEW n \in DOMAIN packages[package], NEW e, e = buffer["modify"][t][n]
    PROVE  /\ IsModified(t, e)'
           /\ Known(ct.created, t, e.old_id)
           /\ packages[package][n].id = Resolve(ct.created, t, e.old_id)
           /\ tx.current[t][packages[package][n].id].version = e.version
           /\ HistoryRowOf(packages[package][n], ShownRows(packages[package])[n]).id
                = Resolve(ct.created, t, e.old_id)
           /\ HistoryRowOf(packages[package][n], ShownRows(packages[package])[n]).version = e.version + 1
<1> DEFINE l == packages[package]
           rw == ShownRows(l)
           c == ct.created
<1>1. GoodWrite(tx, tx', t, l, rw)
  BY PackageStepKeeps
<1>2. Stands(c, t, l[n], e)
  BY PackageTurn
<1>3. rw[n].version = l[n].version + 1 /\ rw[n].visible /\ rw[n].loc = l[n].loc
  BY DEF ShownRows, ShownRow
<1>4. /\ l[n].version = tx.current[t][l[n].id].version /\ db' = db
  BY DEF PackageStep, handlerVars
<1>5. Exists(tx, t, l[n].id)
  <2>1. /\ 1 \in DOMAIN todo /\ todo[1].op = "package" /\ todo[1].type = t /\ package \in DOMAIN packages
    BY NoPackageLeft DEF UploadInv, PackageStep, Calling
  <2>2. PackageFits(tx, l, t)
    BY <2>1 DEF UploadInv, PackageInv
  <2>3. QED
    BY <2>2 DEF PackageFits
<1>6. Sane(tx) /\ db \in Tables /\ Grows(db, tx)
  BY DEF UploadInv, TablesInv, Sane
<1>7. /\ ct'.created = c
      /\ Report(c, t, e) \in ct'.modified[t]
  BY PackageFacts
<1> HIDE DEF l, rw, c
<1>8. n \in DOMAIN l
  BY DEF l
<1>9. /\ l[n].id = Resolve(c, t, e.old_id) /\ l[n].version = e.version /\ l[n].loc = e.loc
      /\ Known(c, t, e.old_id)
  BY <1>2 DEF Stands
<1>10. Stored(db, tx', c, t, e, l[n].id, e.version + 1)
  BY <1>1, <1>2, <1>3, <1>6, <1>8, <1>9, StoredNew
<1>11. e.version > 0
  BY <1>4, <1>5, <1>9 DEF Exists
<1>12. Report(c, t, e).new_id = l[n].id /\ Report(c, t, e).new_version = e.version + 1
  BY <1>9 DEF Report
<1>13. IsModified(t, e)'
  BY <1>4, <1>7, <1>9, <1>10, <1>11, <1>12 DEF IsModified
<1>14. HistoryRowOf(l[n], rw[n]).id = l[n].id /\ HistoryRowOf(l[n], rw[n]).version = e.version + 1
  BY <1>3, <1>9 DEF HistoryRowOf
<1>15. QED
  BY <1>4, <1>9, <1>13, <1>14 DEF l, rw, c

LEMMA ModifiesOn ==
    ASSUME DocumentInv, ModifiesInv, ct'.orig_sequence = ct.orig_sequence,
           \A u \in Types : \A e, f \in Element :
             e.version = f.version /\ Apart(u, e, f) => Apart(u, e, f)'
    PROVE  ModifiesInv'
<1> DEFINE doc == ct.orig_sequence
           Same(u, i, j) ==
               /\ i # j /\ doc[i].op = "modify" /\ doc[j].op = "modify"
               /\ doc[i].type = u /\ doc[j].type = u /\ doc[i].version = doc[j].version
<1>1. ASSUME NEW u \in Types, NEW i \in DOMAIN doc, NEW j \in DOMAIN doc, Same(u, i, j)
      PROVE  Apart(u, doc[i], doc[j])'
  <2>1. Apart(u, doc[i], doc[j])
    BY <1>1 DEF ModifiesInv
  <2>2. doc[i] \in Element /\ doc[j] \in Element
    BY DocumentElements
  <2>3. PICK x \in Element : x = doc[i]
    BY <2>2
  <2>4. PICK y \in Element : y = doc[j]
    BY <2>2
  <2>5. Apart(u, x, y) /\ x.version = y.version
    BY <1>1, <2>1, <2>3, <2>4
  <2>6. Apart(u, x, y)'
    BY <2>5
  <2>7. doc[i]' = doc[i] /\ doc[j]' = doc[j]
    OBVIOUS
  <2>8. QED
    BY <2>3, <2>4, <2>6, <2>7
<1>2. QED
  BY <1>1 DEF ModifiesInv

\* A version that was written before is behind the current one.
LEMMA ModifiedBehind ==
    ASSUME UploadInv, NEW u \in Types, NEW e \in Element, IsModified(u, e)
    PROVE  /\ e.version + 1 <= tx.current[u][Resolve(ct.created, u, e.old_id)].version
           /\ tx.current[u][Resolve(ct.created, u, e.old_id)].version \in Nat
<1> DEFINE id == Resolve(ct.created, u, e.old_id)
           h == [id |-> id, version |-> e.version + 1, visible |-> TRUE, loc |-> e.loc]
<1>1. h \in tx.history[u]
  BY DEF IsModified, Report, Stored, Added
<1>2. h.id = id /\ h.version = e.version + 1
  OBVIOUS
<1> HIDE DEF h
<1>3. tx \in Tables /\ HistoryMatches(tx, u, id) /\ id \in Ids
  <2>1. Sane(tx) /\ tx \in Tables
    BY DEF UploadInv, TablesInv, Sane
  <2>2. h \in HistoryRow
    BY <1>1, <2>1, TablesFields
  <2>3. h.id \in Ids
    BY <2>2 DEF HistoryRow
  <2>4. QED
    BY <1>2, <2>1, <2>3 DEF Sane
<1>4. tx.current[u][id].version \in Nat
  BY <1>3, TablesFields DEF Row
<1>5. h.version \in 1..tx.current[u][id].version
  <2>1. h \in HistoryOf(tx, u, id)
    BY <1>1, <1>2 DEF HistoryOf
  <2>2. {r.version : r \in HistoryOf(tx, u, id)} = 1..tx.current[u][id].version
    BY <1>3 DEF HistoryMatches
  <2>3. QED
    BY <2>1, <2>2
<1>6. QED
  BY <1>2, <1>4, <1>5

\* Two modifications of one version stay apart in a round of the loop: of
\* those of one id only one is in the package, and none was made before.
LEMMA PackageKeepsApart ==
    ASSUME UploadInv, CountInv, CreatedReports, LoopedInv, NEW t \in Types, PackageStep(t),
           NEW e \in Element, NEW f \in Element, e.version = f.version, Apart(t, e, f),
           \A n : Waits(t, n) => n \in DOMAIN packages[package] \/ Waits(t, n)'
    PROVE  Apart(t, e, f)'
<1> DEFINE W(n) == Waits(t, n)
           V(n) == Waits(t, n)'
           A(x) == IsModified(t, x)
           B(x) == IsModified(t, x)'
           raw == buffer["modify"][t]
           l == packages[package]
           Id(x) == Resolve(ct.created, t, x.old_id)
<1>1. \A n \in DOMAIN l : \A x : x = raw[n] =>
        B(x) /\ l[n].id = Id(x) /\ tx.current[t][Id(x)].version = x.version
  BY ListModified
<1>2. Advances /\ ct'.created = ct.created /\ raw' = raw /\ Unique(l)
  BY PackageFacts DEF PackageStep
<1>3. \A x \in Element : A(x) => B(x)
  BY <1>2, ModifiedStays
<1>4. \A x \in Element : A(x) => /\ x.version + 1 <= tx.current[t][Id(x)].version
                                 /\ tx.current[t][Id(x)].version \in Nat /\ x.version \in Nat
  BY ModifiedBehind, ElementFields
<1>5. \A n : W(n) => n \in DOMAIN l \/ V(n)
  OBVIOUS
<1>6. \/ \E n, k : n # k /\ W(n) /\ W(k) /\ raw[n] = e /\ raw[k] = f
      \/ A(e) /\ \E k : W(k) /\ raw[k] = f
      \/ A(f) /\ \E n : W(n) /\ raw[n] = e
      \/ A(e) /\ A(f) /\ Id(e) # Id(f)
  BY DEF Apart
<1> HIDE DEF W, V, A, B, raw, l, Id
<1> DEFINE Goal == \/ \E n, k : n # k /\ V(n) /\ V(k) /\ raw[n] = e /\ raw[k] = f
                   \/ B(e) /\ \E k : V(k) /\ raw[k] = f
                   \/ B(f) /\ \E n : V(n) /\ raw[n] = e
                   \/ B(e) /\ B(f) /\ Id(e) # Id(f)
<1>7. ASSUME NEW n, NEW k, n # k, W(n), W(k), raw[n] = e, raw[k] = f PROVE Goal
  <2>1. CASE n \in DOMAIN l /\ k \in DOMAIN l
    BY <1>1, <1>2, <1>7, <2>1 DEF Unique
  <2>2. CASE n \in DOMAIN l /\ V(k)
    BY <1>1, <1>7, <2>2
  <2>3. CASE V(n) /\ k \in DOMAIN l
    BY <1>1, <1>7, <2>3
  <2>4. CASE V(n) /\ V(k)
    BY <1>7, <2>4
  <2>5. QED
    BY <1>5, <1>7, <2>1, <2>2, <2>3, <2>4
<1>8. ASSUME NEW k, A(e), W(k), raw[k] = f PROVE Goal
  <2>1. CASE V(k)
    BY <1>3, <1>8, <2>1
  <2>2. CASE k \in DOMAIN l
    <3>1. B(e) /\ B(f) /\ tx.current[t][Id(f)].version = f.version
      BY <1>1, <1>3, <1>8, <2>2
    <3>2. Id(e) # Id(f)
      BY <1>4, <1>8, <3>1
    <3>3. QED
      BY <3>1, <3>2
  <2>3. QED
    BY <1>5, <1>8, <2>1, <2>2
<1>9. ASSUME NEW n, A(f), W(n), raw[n] = e PROVE Goal
  <2>1. CASE V(n)
    BY <1>3, <1>9, <2>1
  <2>2. CASE n \in DOMAIN l
    <3>1. B(e) /\ B(f) /\ tx.current[t][Id(e)].version = e.version
      BY <1>1, <1>3, <1>9, <2>2
    <3>2. Id(e) # Id(f)
      BY <1>4, <1>9, <3>1
    <3>3. QED
      BY <3>1, <3>2
  <2>3. QED
    BY <1>5, <1>9, <2>1, <2>2
<1>10. Goal
  BY <1>3, <1>6, <1>7, <1>8, <1>9
<1>11. raw' = buffer'["modify"][t] /\ raw' = raw
  BY <1>2 DEF raw
<1>12. QED
  BY <1>2, <1>10, <1>11 DEF Apart, V, B, Id

LEMMA PackageKeepsDiff ==
    ASSUME UploadInv, CountInv, DiffInv, NEW t \in Types, PackageStep(t)
    PROVE  DiffInv'
<1> DEFINE raw == buffer["modify"][t]
           l == packages[package]
           doc == ct.orig_sequence
<1>1. /\ FlushInv /\ LoopedInv /\ CreatedReports /\ OtherReports
      /\ DocumentInv /\ CreatesInv /\ ModifiesInv /\ AskedInv
  BY DEF DiffInv
<1>2. /\ Calling("package", t) /\ db' = db /\ buffer' = buffer /\ todo' = todo
      /\ phase' = phase /\ current_state' = current_state /\ pending' = pending
      /\ create_placeholder_ids' = create_placeholder_ids
      /\ packages' = packages /\ package' = package + 1
  BY DEF PackageStep, handlerVars
<1>3. /\ Advances /\ ct'.created = ct.created /\ ct'.deleted = ct.deleted
      /\ ct'.orig_sequence = ct.orig_sequence
      /\ \A u \in Types \ {t} : ct'.modified[u] = ct.modified[u]
      /\ \A m : m \in ct'.modified[t] <=>
           m \in ct.modified[t] \/ \E n \in DOMAIN l : m = Report(ct.created, t, raw[n])
  BY <1>1, PackageFacts
<1>4. /\ package \in Nat \ {0} /\ packages = BuildPackages(ModifyList(t))
      /\ PlaceholdersKnown(ct.created, t, raw)
      /\ \A n : n \in DOMAIN l <=> n \in DOMAIN raw /\ Occurrence(ModifyList(t), n) = package
      /\ \A n \in DOMAIN raw : Occurrence(ModifyList(t), n) \in Nat
  BY <1>1, PackageTurn
<1>5. \A n \in DOMAIN l : \A e : e = raw[n] =>
        /\ IsModified(t, e)' /\ Known(ct.created, t, e.old_id)
        /\ HistoryRowOf(l[n], ShownRows(l)[n]).id = Resolve(ct.created, t, e.old_id)
        /\ HistoryRowOf(l[n], ShownRows(l)[n]).version = e.version + 1
  BY <1>1, ListModified
<1>6. GoodWrite(tx, tx', t, l, ShownRows(l)) /\ tx'.id_seq = tx.id_seq
  BY PackageStepKeeps
<1>7. /\ InLoop(t) /\ \A u : InLoop(u) => u = t
      /\ \A u : InLoop(u)' = InLoop(u)
  BY <1>2 DEF Calling, InLoop
<1>8. \A u : ModifyList(u)' = ModifyList(u)
  BY <1>2, <1>3 DEF ModifyList
<1>9. \A n : Waits(t, n) => n \in DOMAIN l \/ Waits(t, n)'
  <2> SUFFICES ASSUME NEW n, Waits(t, n), n \notin DOMAIN l PROVE Waits(t, n)'
    OBVIOUS
  <2>1. n \in DOMAIN raw /\ Occurrence(ModifyList(t), n) >= package
    BY <1>7 DEF Waits
  <2>2. Occurrence(ModifyList(t), n) >= package + 1
    BY <1>4, <2>1
  <2>3. QED
    BY <1>2, <1>8, <2>1, <2>2 DEF Waits
<1>10. \A u \in Types \ {t} : \A n : Waits(u, n) => Waits(u, n)'
  BY <1>2, <1>7 DEF Waits
<1>11. FlushInv'
  BY <1>1, <1>2 DEF FlushInv, Holds, Leaves, Awaited
<1>12. LoopedInv'
  <2>1. package + 1 \in Nat \ {0}
    BY <1>4
  <2>2. QED
    BY <1>2, <1>3, <1>4, <1>7, <1>8, <2>1 DEF LoopedInv
<1>13. CreatedReports'
  BY <1>1, <1>3, <1>6 DEF CreatedReports
<1>14. OtherReports'
  <2>1. ASSUME NEW u \in Types
        PROVE  /\ \A r \in ct'.modified[u] \cup ct'.deleted[u] :
                    Known(ct'.created, u, r.old_id) /\ r.new_id = Resolve(ct'.created, u, r.old_id)
               /\ \A r \in ct'.deleted[u] : \E h \in Added(db', tx', u) : ~h.visible /\ h.id = r.new_id
    <3>1. /\ \A r \in ct.modified[u] \cup ct.deleted[u] :
               Known(ct'.created, u, r.old_id) /\ r.new_id = Resolve(ct'.created, u, r.old_id)
          /\ \A r \in ct.deleted[u] : \E h \in Added(db', tx', u) : ~h.visible /\ h.id = r.new_id
      BY <1>1, <1>3, ReportsStay
    <3>2. \A n \in DOMAIN l : /\ Known(ct.created, t, Report(ct.created, t, raw[n]).old_id)
                              /\ Report(ct.created, t, raw[n]).new_id
                                   = Resolve(ct.created, t, Report(ct.created, t, raw[n]).old_id)
      BY <1>5 DEF Report
    <3>3. QED
      BY <1>3, <3>1, <3>2
  <2>2. QED
    BY <2>1 DEF OtherReports
<1>15. DocumentInv'
  <2>1. \A op \in Ops, u \in Types : buffer'[op][u] = buffer[op][u] \/ buffer'[op][u] = <<>>
    BY <1>2
  <2>2. \A u \in Types : \A n \in DOMAIN buffer["create"][u] : \A e :
          e = buffer["create"][u][n] => IsCreated(u, e)' \/ buffer'["create"][u] = buffer["create"][u]
    BY <1>2
  <2>3. \A u \in Types : \A n : \A e : Waits(u, n) /\ e = buffer["modify"][u][n] =>
          IsModified(u, e)' \/ (Waits(u, n)' /\ buffer'["modify"][u] = buffer["modify"][u])
    BY <1>2, <1>5, <1>9, <1>10
  <2>4. QED
    BY <1>1, <1>3, <2>1, <2>2, <2>3, DocumentOn
<1>16. CreatesInv'
  <2>1. \A u \in Types : \A o : CreatesTwice(u, o) => CreatesTwice(u, o)'
    BY <1>2 DEF CreatesTwice
  <2>2. QED
    BY <1>1, <1>3, <2>1, CreatesOn
<1>17. ModifiesInv'
  <2>1. ASSUME NEW u \in Types, NEW e \in Element, NEW f \in Element,
               e.version = f.version, Apart(u, e, f)
        PROVE  Apart(u, e, f)'
    <3>1. CASE u = t
      <4>1. Apart(t, e, f)
        BY <2>1, <3>1
      <4>2. Apart(t, e, f)'
        BY <1>1, <1>9, <2>1, <4>1, PackageKeepsApart
      <4>3. QED
        BY <3>1, <4>2
    <3>2. CASE u # t
      BY <1>2, <1>3, <1>10, <2>1, <3>2, ApartStays
    <3>3. QED
      BY <3>1, <3>2
  <2>2. QED
    BY <1>1, <1>3, <2>1, ModifiesOn
<1>18. AskedInv'
  <2> DEFINE rw == ShownRows(l)
  <2>1. ASSUME NEW i \in DOMAIN l
        PROVE  \E d \in DOMAIN doc : Asked(ct'.created, t, HistoryRowOf(l[i], rw[i]), doc[d])
    <3>1. i \in DOMAIN raw
      BY <1>4
    <3>2. /\ raw[i].op = "modify" /\ raw[i].type = t
          /\ \E d \in DOMAIN doc : doc[d] = raw[i]
      BY <1>1, <3>1 DEF DocumentInv, Ops
    <3>3. PICK d \in DOMAIN doc : doc[d] = raw[i]
      BY <3>2
    <3>4. /\ Known(ct.created, t, raw[i].old_id)
          /\ HistoryRowOf(l[i], rw[i]).id = Resolve(ct.created, t, raw[i].old_id)
          /\ HistoryRowOf(l[i], rw[i]).version = raw[i].version + 1
      BY <1>5
    <3> HIDE DEF doc, raw, l, rw
    <3>5. Asked(ct'.created, t, HistoryRowOf(l[i], rw[i]), doc[d])
      BY <1>3, <3>2, <3>3, <3>4 DEF Asked
    <3>6. QED
      BY <3>5
  <2> HIDE DEF l, rw
  <2>2. QED
    BY <1>1, <1>3, <1>6, <2>1, AskedOn DEF rw
<1>19. QED
  BY <1>11, <1>12, <1>13, <1>14, <1>15, <1>16, <1>17, <1>18 DEF DiffInv

\* After the last package nothing waits any more.
LEMMA LoopEndKeepsDiff ==
    ASSUME UploadInv, DiffInv, NEW t \in Types, LoopEnd(t)
    PROVE  DiffInv'
<1>1. /\ FlushInv /\ LoopedInv /\ CreatedReports /\ OtherReports
      /\ DocumentInv /\ CreatesInv /\ ModifiesInv /\ AskedInv
  BY DEF DiffInv
<1>2. /\ Calling("package", t) /\ Return("modify", t) /\ db' = db /\ tx' = tx /\ ct' = ct
      /\ phase' = phase /\ current_state' = current_state /\ pending' = pending
      /\ create_placeholder_ids' = create_placeholder_ids /\ package \notin DOMAIN packages
  BY DEF LoopEnd, handlerVars
<1>3. "create" \in Ops /\ "modify" \in Ops
  BY DEF Ops
<1>4. /\ FlushInv' /\ LoopedInv'
      /\ \A o \in Ops, u \in Types :
           buffer'[o][u] = IF o = "modify" /\ u = t THEN <<>> ELSE buffer[o][u]
      /\ \A u \in Types : ~InLoop(u)'
  <2>1. todo # <<>> /\ phase = "flushing" /\ Head(todo) = [op |-> "package", type |-> t]
    BY <1>2 DEF Calling
  <2>2. QED
    BY <1>1, <1>2, <1>3, <2>1, ReturnFlushes
<1>5. \A n : ~Waits(t, n)
  <2> SUFFICES ASSUME NEW n, Waits(t, n) PROVE FALSE
    OBVIOUS
  <2> DEFINE all == ModifyList(t)
  <2>1. InLoop(t)
    BY <1>2 DEF Calling, InLoop
  <2>2. package \in Nat \ {0} /\ packages = BuildPackages(all)
    BY <1>1, <2>1 DEF LoopedInv
  <2>3. n \in DOMAIN buffer["modify"][t] /\ Occurrence(all, n) >= package
    BY <2>1 DEF Waits
  <2>4. n \in DOMAIN all /\ DOMAIN all \subseteq Nat
    <3>1. DOMAIN buffer["modify"][t] \subseteq Nat
      BY <1>3, FittingTyped DEF UploadInv, BufferInv
    <3>2. QED
      BY <2>3, <3>1 DEF ModifyList, ResolveAll
  <2> HIDE DEF all
  <2>5. Occurrence(all, n) \in DOMAIN packages /\ Occurrence(all, n) \in Nat
    BY <2>2, <2>4, OccurrenceTyped
  <2>6. Occurrence(all, n) < package
    BY <1>2, <2>2, <2>4, <2>5, NoneBehind, PackagesNumbered
  <2>7. QED
    BY <2>2, <2>3, <2>5, <2>6
<1>6. /\ \A u \in Types \ {t} : buffer'["modify"][u] = buffer["modify"][u]
      /\ \A u \in Types : buffer'["create"][u] = buffer["create"][u]
  BY <1>3, <1>4
<1>7. \A u \in Types \ {t} : \A n : Waits(u, n) => Waits(u, n)'
  BY <1>4, <1>6 DEF Waits
<1>8. ct'.created = ct.created /\ ct'.modified = ct.modified /\ ct'.orig_sequence = ct.orig_sequence
  BY <1>2
<1>9. Advances
  BY <1>1, <1>2, <1>8, CreatedWidens DEF Advances
<1>10. CreatedReports' /\ OtherReports' /\ AskedInv'
  BY <1>1, <1>2 DEF CreatedReports, OtherReports, AskedInv
<1>11. DocumentInv'
  <2>1. \A op \in Ops, u \in Types : buffer'[op][u] = buffer[op][u] \/ buffer'[op][u] = <<>>
    BY <1>4
  <2>2. \A u \in Types : \A n \in DOMAIN buffer["create"][u] : \A e :
          e = buffer["create"][u][n] => IsCreated(u, e)' \/ buffer'["create"][u] = buffer["create"][u]
    BY <1>6
  <2>3. \A u \in Types : \A n : \A e : Waits(u, n) /\ e = buffer["modify"][u][n] =>
          IsModified(u, e)' \/ (Waits(u, n)' /\ buffer'["modify"][u] = buffer["modify"][u])
    BY <1>5, <1>6, <1>7
  <2>4. QED
    BY <1>1, <1>8, <1>9, <2>1, <2>2, <2>3, DocumentOn
<1>12. CreatesInv'
  <2>1. \A u \in Types : \A o : CreatesTwice(u, o) => CreatesTwice(u, o)'
    BY <1>2, <1>6 DEF CreatesTwice
  <2>2. QED
    BY <1>1, <1>8, <2>1, CreatesOn
<1>13. ModifiesInv'
  <2>1. ASSUME NEW u \in Types, NEW e \in Element, NEW f \in Element,
               e.version = f.version, Apart(u, e, f)
        PROVE  Apart(u, e, f)'
    <3>1. CASE u = t
      <4>1. /\ IsModified(t, e) /\ IsModified(t, f)
            /\ Resolve(ct.created, t, e.old_id) # Resolve(ct.created, t, f.old_id)
        BY <1>5, <2>1, <3>1 DEF Apart
      <4>2. IsModified(t, e)' /\ IsModified(t, f)'
        BY <1>9, <4>1, ModifiedStays
      <4>3. Apart(t, e, f)'
        BY <1>8, <4>1, <4>2 DEF Apart
      <4>4. QED
        BY <3>1, <4>3
    <3>2. CASE u # t
      BY <1>6, <1>7, <1>9, <2>1, <3>2, ApartStays
    <3>3. QED
      BY <3>1, <3>2
  <2>2. QED
    BY <1>1, <1>8, <2>1, ModifiesOn
<1>14. QED
  BY <1>4, <1>10, <1>11, <1>12, <1>13 DEF DiffInv

-----------------------------------------------------------------------------
(* The rest of the upload. *)

\* The request has not begun.
Fresh == phase = "idle" /\ tx = db /\ ct = NoTracking /\ buffer = EmptyBuffer /\ todo = <<>>

LEMMA FreshDiff == Fresh => DiffInv
<1> SUFFICES ASSUME Fresh PROVE DiffInv
  OBVIOUS
<1> USE DEF Fresh
<1>1. /\ \A t \in Types : ct.created[t] = {} /\ ct.modified[t] = {} /\ ct.deleted[t] = {}
      /\ ct.orig_sequence = <<>>
  BY DEF NoTracking
<1>2. \A op \in Ops, t \in Types : buffer[op][t] = <<>>
  BY DEF EmptyBuffer
<1>3. \A t \in Types : Added(db, tx, t) = {}
  BY DEF Added
<1>4. FlushInv
  BY <1>2 DEF FlushInv, Holds
<1>5. LoopedInv
  BY DEF LoopedInv, InLoop
<1>6. CreatedReports /\ OtherReports /\ AskedInv
  BY <1>1, <1>3 DEF CreatedReports, OtherReports, AskedInv
<1>7. <<>> \in Seq(Element) /\ DOMAIN <<>> = {}
  OBVIOUS
<1>8. DocumentInv
  BY <1>1, <1>2, <1>7 DEF DocumentInv
<1>9. CreatesInv /\ ModifiesInv
  BY <1>1, <1>7 DEF CreatesInv, ModifiesInv
<1>10. QED
  BY <1>4, <1>5, <1>6, <1>8, <1>9 DEF DiffInv

LEMMA FreshKeepsDiff ==
    ASSUME FreshSession, phase' = "idle", tx' = db'
    PROVE  DiffInv'
<1>1. Fresh'
  BY DEF FreshSession, Fresh
<1>2. QED
  BY <1>1, FreshDiff, PTL

\* The state an element puts the handler in, and the call that empties the
\* buffer it goes to.
LEMMA StateCalls ==
    ASSUME NEW op \in Ops, NEW t \in Types
    PROVE  /\ StateOf(op, t) # "st_finished"
           /\ \E n \in DOMAIN flush_calls(StateOf(op, t)) :
                flush_calls(StateOf(op, t))[n] = Flush(op, t)
           /\ \A e : e # EndOfDocument /\ e.op = op /\ e.type = t => NewState(e) = StateOf(op, t)
<1>1. [op |-> op, type |-> t] # EndOfDocument
  <2>1. [op |-> op, type |-> t].op # EndOfDocument.op
    BY DEF Ops, EndOfDocument
  <2>2. QED
    BY <2>1
<1>2. StateOf(op, t) = CASE t = "Node" -> process_node(op) [] t = "Way" -> process_way(op)
                         [] t = "Relation" -> process_relation(op)
  BY <1>1 DEF StateOf, NewState, Types
<1>3. /\ op = "create" \/ op = "modify" \/ op = "delete"
      /\ t = "Node" \/ t = "Way" \/ t = "Relation"
  BY DEF Ops, Types
<1>4. StateOf(op, t) # "st_finished"
  BY <1>2, <1>3 DEF process_node, process_way, process_relation
<1>5. \A e : e # EndOfDocument /\ e.op = op /\ e.type = t => NewState(e) = StateOf(op, t)
  BY <1>2, <1>3 DEF NewState
<1>6. \A x : 1 \in DOMAIN <<x>> /\ <<x>>[1] = x
  OBVIOUS
<1>7. \A x, y, z : LET s == <<x, y, z>>
                   IN  /\ 1 \in DOMAIN s /\ 2 \in DOMAIN s /\ 3 \in DOMAIN s
                       /\ s[1] = x /\ s[2] = y /\ s[3] = z
  OBVIOUS
<1>8. \E n \in DOMAIN flush_calls(StateOf(op, t)) : flush_calls(StateOf(op, t))[n] = Flush(op, t)
  <2>1. CASE op = "modify"
    <3>1. StateOf(op, t) = "st_modify"
      BY <1>2, <1>3, <2>1 DEF process_node, process_way, process_relation
    <3>2. flush_calls("st_modify") =
            <<Flush("modify", "Node"), Flush("modify", "Way"), Flush("modify", "Relation")>>
      BY DEF flush_calls
    <3>3. QED
      BY <1>3, <1>7, <2>1, <3>1, <3>2
  <2>2. CASE op # "modify"
    <3>1. flush_calls(StateOf(op, t)) = <<Flush(op, t)>>
      BY <1>2, <1>3, <2>2 DEF flush_calls, process_node, process_way, process_relation
    <3>2. QED
      BY <1>6, <3>1
  <2>3. QED
    BY <2>1, <2>2
<1>9. QED
  BY <1>4, <1>5, <1>8

\* Without calls to make there is no loop.
LEMMA NoCallsNoLoop ==
    ASSUME todo = <<>>
    PROVE  \A u : ~InLoop(u)
  BY DEF InLoop

LEMMA NewStateKeepsDiff ==
    ASSUME UploadInv, DiffInv, current_state \in States, phase = "reading", NEW e, handle_new_state(e)
    PROVE  DiffInv'
<1>1. FlushInv
  BY DEF DiffInv
<1>2. /\ db' = db /\ tx' = tx /\ ct' = ct /\ buffer' = buffer /\ pending' = e
      /\ create_placeholder_ids' = create_placeholder_ids
      /\ current_state' = current_state /\ phase' = "flushing"
      /\ todo' = IF NewState(e) = current_state THEN <<>> ELSE flush_calls(current_state)
  BY DEF handle_new_state
<1>3. todo = <<>>
  BY <1>1 DEF FlushInv
<1>4. \A u : ~InLoop(u)
  BY <1>3, NoCallsNoLoop
<1>5. \A u : ~InLoop(u)'
  <2> DEFINE r == flush_calls(current_state)
             C == Call
  <2>1. r \in Seq(C) /\ \A j \in DOMAIN r : r[j].op # "package"
    BY FlushCalls
  <2>2. todo' = <<>> \/ todo' = r
    BY <1>2
  <2> HIDE DEF r, C
  <2>3. ASSUME r # <<>> PROVE Head(r).op # "package"
    <3>1. 1 \in DOMAIN r /\ Head(r) = r[1]
      BY <2>1, <2>3, HeadTail
    <3>2. QED
      BY <2>1, <3>1
  <2>4. QED
    BY <2>2, <2>3 DEF InLoop
<1>6. \A u \in Types : \A n : Waits(u, n) => Waits(u, n)'
  BY <1>2, <1>5 DEF Waits
<1>7. CreatedReports' /\ OtherReports' /\ DocumentInv' /\ CreatesInv' /\ ModifiesInv' /\ AskedInv'
  BY <1>2, <1>6, RestKeepsDiff
<1>8. LoopedInv'
  BY <1>5 DEF LoopedInv
<1>9. FlushInv'
  <2>1. Leaves' <=> NewState(e) # current_state
    BY <1>2 DEF Leaves
  <2>2. ASSUME NEW op \in Ops, NEW t \in Types, Holds(op, t)'
        PROVE  IF Leaves' THEN Awaited(op, t)' ELSE current_state' = StateOf(op, t)
    <3>1. current_state = StateOf(op, t)
      BY <1>1, <1>2, <2>2 DEF FlushInv, Holds, Leaves
    <3>2. ASSUME Leaves' PROVE Awaited(op, t)'
      <4>1. todo' = flush_calls(StateOf(op, t))
        BY <1>2, <2>1, <3>1, <3>2
      <4>2. PICK n \in DOMAIN todo' : todo'[n] = Flush(op, t)
        BY <4>1, StateCalls
      <4>3. todo'[n].op = op /\ todo'[n].type = t
        BY <4>2 DEF Flush
      <4>4. QED
        BY <4>3 DEF Awaited
    <3>3. QED
      BY <1>2, <3>1, <3>2
  <2>3. QED
    BY <1>2, <2>2 DEF FlushInv
<1>10. QED
  BY <1>7, <1>8, <1>9 DEF DiffInv

LEMMA BufferedKeeps ==
    ASSUME NEW e \in Element
    PROVE  Buffered(e).op = e.op /\ Buffered(e).type = e.type
<1> DEFINE S == Seq([type: Types, ref: Ids \cup Placeholders])
<1>1. e \in [op: Ops, type: Types, old_id: Ids \cup Placeholders, id: Ids \cup {0},
             version: Nat, loc: Coord, tags: SUBSET Tags, members: S,
             if_unused: BOOLEAN, same_changeset: BOOLEAN]
  BY DEF Element
<1> HIDE DEF S
<1>2. /\ e.op = "create" \/ e.op = "modify" \/ e.op = "delete"
      /\ e.type = "Node" \/ e.type = "Way" \/ e.type = "Relation"
  BY <1>1 DEF Ops, Types
<1>3. CASE e.op = "create"
  BY <1>1, <1>2, <1>3 DEF Buffered, add_node, add_way, add_relation
<1>4. CASE e.op = "modify"
  BY <1>1, <1>2, <1>4 DEF Buffered, modify_node, modify_way, modify_relation
<1>5. CASE e.op = "delete"
  BY <1>1, <1>2, <1>5 DEF Buffered, delete_node, delete_way, delete_relation
<1>6. QED
  BY <1>2, <1>3, <1>4, <1>5

LEMMA AppendParts ==
    ASSUME NEW S, NEW s \in Seq(S), NEW x \in S
    PROVE  /\ Append(s, x) \in Seq(S)
           /\ Len(s) + 1 \in DOMAIN Append(s, x) /\ Append(s, x)[Len(s) + 1] = x
           /\ Len(s) + 1 \notin DOMAIN s
           /\ \A n \in DOMAIN s : n \in DOMAIN Append(s, x) /\ Append(s, x)[n] = s[n]
           /\ \A n \in DOMAIN Append(s, x) : n \in DOMAIN s \/ n = Len(s) + 1
           /\ Append(s, x) # <<>>
  OBVIOUS

\* The end of the document: all buffers are empty.
LEMMA EndKeepsDiff ==
    ASSUME UploadInv, DiffInv, complete_transition, pending = EndOfDocument
    PROVE  DiffInv'
<1>1. FlushInv
  BY DEF DiffInv
<1>2. /\ phase = "flushing" /\ todo = <<>> /\ phase' = "finishing" /\ current_state' = NewState(pending)
      /\ db' = db /\ tx' = tx /\ ct' = ct /\ buffer' = buffer /\ todo' = todo
      /\ create_placeholder_ids' = create_placeholder_ids
  BY DEF complete_transition
<1>3. \A u : ~InLoop(u) /\ ~InLoop(u)'
  BY <1>2 DEF InLoop
<1>4. \A u \in Types : \A n : Waits(u, n) => Waits(u, n)'
  BY <1>2, <1>3 DEF Waits
<1>5. CreatedReports' /\ OtherReports' /\ DocumentInv' /\ CreatesInv' /\ ModifiesInv' /\ AskedInv'
  BY <1>2, <1>4, RestKeepsDiff
<1>6. LoopedInv'
  BY <1>3 DEF LoopedInv
<1>7. NewState(pending) = "st_finished"
  BY DEF NewState
<1>8. \A op \in Ops, t \in Types : ~Awaited(op, t)
  BY <1>2 DEF Awaited
<1>9. \A op \in Ops, t \in Types : ~Holds(op, t)
  <2> SUFFICES ASSUME NEW op \in Ops, NEW t \in Types, Holds(op, t) PROVE FALSE
    OBVIOUS
  <2>1. ~Leaves /\ current_state = StateOf(op, t)
    BY <1>1, <1>8 DEF FlushInv
  <2>2. current_state = "st_finished"
    BY <1>2, <1>7, <2>1 DEF Leaves
  <2>3. QED
    BY <2>1, <2>2, StateCalls
<1>10. FlushInv'
  BY <1>2, <1>7, <1>9 DEF FlushInv, Holds
<1>11. QED
  BY <1>5, <1>6, <1>10 DEF DiffInv

\* An element comes to the end of its buffer and to the end of the document.
Comes(e) ==
    LET op == e.op  t == e.type
    IN  /\ e \in Element /\ op \in Ops /\ t \in Types
        /\ db' = db /\ tx' = tx /\ create_placeholder_ids' = create_placeholder_ids
        /\ ct'.created = ct.created /\ ct'.modified = ct.modified /\ ct'.deleted = ct.deleted
        /\ ct.orig_sequence \in Seq(Element)
        /\ ct'.orig_sequence = Append(ct.orig_sequence, e)
        /\ buffer[op][t] \in Seq(Element)
        /\ buffer'[op][t] = Append(buffer[op][t], e)
        /\ \A o \in Ops, u \in Types : ~(o = op /\ u = t) => buffer'[o][u] = buffer[o][u]
        /\ todo = <<>> /\ todo' = <<>>
        /\ phase = "flushing" /\ phase' = "reading"
        /\ NewState(pending) = StateOf(op, t) /\ current_state' = StateOf(op, t)

LEMMA TransitionComes ==
    ASSUME UploadInv, DiffInv, complete_transition, pending # EndOfDocument
    PROVE  Comes(Buffered(pending))
<1> DEFINE e == pending
           f == Buffered(e)
           op == e.op
           t == e.type
<1>1. /\ phase = "flushing" /\ todo = <<>> /\ phase' = "reading" /\ current_state' = NewState(pending)
      /\ db' = db /\ tx' = tx /\ todo' = todo /\ create_placeholder_ids' = create_placeholder_ids
      /\ buffer' = [buffer EXCEPT ![op][t] = Append(@, f)]
      /\ ct' = [ct EXCEPT !.orig_sequence = Append(@, f)]
  BY DEF complete_transition
<1>2. /\ e \in Element /\ IsPlaceholder(e)
      /\ e.type = "Way" => \A k \in DOMAIN e.members : e.members[k].type = "Node"
  <2>1. e \in scenario.elements /\ scenario \in Scenarios /\ IsPlaceholder(e)
    BY DEF UploadInv, PendingInv
  <2>2. QED
    BY <2>1, ScenariosAssumption
<1>3. op \in Ops /\ t \in Types
  BY <1>2, ElementFields
<1>4. f \in Element /\ f.op = op /\ f.type = t
  BY <1>2, BufferedFits, BufferedKeeps
<1>5. /\ ct'.created = ct.created /\ ct'.modified = ct.modified /\ ct'.deleted = ct.deleted
      /\ ct'.orig_sequence = Append(ct.orig_sequence, f)
  <2> HIDE DEF f
  <2>1. QED
    BY <1>1 DEF UploadInv, PlaceholderInv, TrackingFields
<1>6. ct.orig_sequence \in Seq(Element)
  BY DEF DiffInv, DocumentInv
<1>7. NewState(pending) = StateOf(op, t)
  BY <1>3, StateCalls
<1>8. /\ buffer[op][t] \in Seq(Element)
      /\ buffer'[op][t] = Append(buffer[op][t], f)
      /\ \A o \in Ops, u \in Types : ~(o = op /\ u = t) => buffer'[o][u] = buffer[o][u]
  <2> DEFINE S == Seq(Element)
  <2>1. buffer \in [Ops -> [Types -> S]]
    BY DEF UploadInv, BufferInv
  <2> HIDE DEF S, f, op, t
  <2>2. /\ buffer[op][t] \in S /\ buffer'[op][t] = Append(buffer[op][t], f)
        /\ \A o \in Ops, u \in Types : ~(o = op /\ u = t) => buffer'[o][u] = buffer[o][u]
    BY <1>1, <1>3, <2>1
  <2>3. QED
    BY <2>2 DEF S
<1>9. f = Buffered(pending)
  OBVIOUS
<1> HIDE DEF f, e, op, t
<1>10. Comes(f)
  BY <1>1, <1>3, <1>4, <1>5, <1>6, <1>7, <1>8 DEF Comes
<1>11. QED
  BY <1>9, <1>10

\* Nothing that was in a buffer or in the document moves.
LEMMA ComesAfter ==
    ASSUME UploadInv, DocumentInv, CreatedReports, NEW e, Comes(e)
    PROVE  /\ Advances
           /\ \A u : ~InLoop(u) /\ ~InLoop(u)'
           /\ \A o \in Ops, u \in Types : \A n \in DOMAIN buffer[o][u] :
                n \in DOMAIN buffer'[o][u] /\ buffer'[o][u][n] = buffer[o][u][n]
           /\ \E k : /\ k \in DOMAIN buffer'[e.op][e.type] /\ buffer'[e.op][e.type][k] = e
                     /\ k \notin DOMAIN buffer[e.op][e.type]
                     /\ \A o \in Ops, u \in Types : \A n \in DOMAIN buffer'[o][u] :
                          n \in DOMAIN buffer[o][u] \/ (o = e.op /\ u = e.type /\ n = k)
           /\ \E N : /\ N \in DOMAIN ct'.orig_sequence /\ ct'.orig_sequence[N] = e
                     /\ N \notin DOMAIN ct.orig_sequence
                     /\ \A i \in DOMAIN ct'.orig_sequence : i \in DOMAIN ct.orig_sequence \/ i = N
           /\ \A i \in DOMAIN ct.orig_sequence :
                i \in DOMAIN ct'.orig_sequence /\ ct'.orig_sequence[i] = ct.orig_sequence[i]
           /\ ct'.orig_sequence \in Seq(Element)
           /\ \A u \in Types : \A n : Waits(u, n) =>
                Waits(u, n)' /\ buffer'["modify"][u][n] = buffer["modify"][u][n]
<1> DEFINE op == e.op
           t == e.type
           b == buffer[op][t]
           d == buffer'[op][t]
           doc == ct.orig_sequence
           new == ct'.orig_sequence
           S == Element
<1>1. /\ e \in S /\ op \in Ops /\ t \in Types /\ db' = db /\ tx' = tx
      /\ ct'.created = ct.created /\ ct'.modified = ct.modified
      /\ doc \in Seq(S) /\ new = Append(doc, e) /\ b \in Seq(S) /\ d = Append(b, e)
      /\ \A o \in Ops, u \in Types : ~(o = op /\ u = t) => buffer'[o][u] = buffer[o][u]
      /\ todo = <<>> /\ todo' = <<>>
  BY DEF Comes
<1>2. Advances
  BY <1>1, CreatedWidens DEF Advances
<1>3. \A u : ~InLoop(u) /\ ~InLoop(u)'
  BY <1>1 DEF InLoop
<1> HIDE DEF S
<1>4. /\ Len(b) + 1 \in DOMAIN d /\ d[Len(b) + 1] = e /\ Len(b) + 1 \notin DOMAIN b
      /\ \A n \in DOMAIN b : n \in DOMAIN d /\ d[n] = b[n]
      /\ \A n \in DOMAIN d : n \in DOMAIN b \/ n = Len(b) + 1
  <2> HIDE DEF b, d
  <2>1. QED
    BY <1>1, AppendParts
<1>5. /\ Len(doc) + 1 \in DOMAIN new /\ new[Len(doc) + 1] = e /\ Len(doc) + 1 \notin DOMAIN doc
      /\ \A n \in DOMAIN doc : n \in DOMAIN new /\ new[n] = doc[n]
      /\ \A n \in DOMAIN new : n \in DOMAIN doc \/ n = Len(doc) + 1
      /\ new \in Seq(S)
  <2> HIDE DEF doc, new
  <2>1. QED
    BY <1>1, AppendParts
<1>6. \A o \in Ops, u \in Types : \A n \in DOMAIN buffer[o][u] :
        n \in DOMAIN buffer'[o][u] /\ buffer'[o][u][n] = buffer[o][u][n]
  <2> SUFFICES ASSUME NEW o \in Ops, NEW u \in Types, NEW n \in DOMAIN buffer[o][u]
               PROVE  n \in DOMAIN buffer'[o][u] /\ buffer'[o][u][n] = buffer[o][u][n]
    OBVIOUS
  <2>1. CASE o = op /\ u = t
    BY <1>4, <2>1
  <2>2. CASE ~(o = op /\ u = t)
    BY <1>1, <2>2
  <2>3. QED
    BY <2>1, <2>2
<1>7. \A o \in Ops, u \in Types : \A n \in DOMAIN buffer'[o][u] :
        n \in DOMAIN buffer[o][u] \/ (o = op /\ u = t /\ n = Len(b) + 1)
  <2> SUFFICES ASSUME NEW o \in Ops, NEW u \in Types, NEW n \in DOMAIN buffer'[o][u]
               PROVE  n \in DOMAIN buffer[o][u] \/ (o = op /\ u = t /\ n = Len(b) + 1)
    OBVIOUS
  <2>1. CASE o = op /\ u = t
    BY <1>4, <2>1
  <2>2. CASE ~(o = op /\ u = t)
    BY <1>1, <2>2
  <2>3. QED
    BY <2>1, <2>2
<1>8. \A u \in Types : \A n : Waits(u, n) =>
        Waits(u, n)' /\ buffer'["modify"][u][n] = buffer["modify"][u][n]
  <2>1. "modify" \in Ops
    BY DEF Ops
  <2>2. QED
    BY <1>3, <1>6, <2>1 DEF Waits
<1>9. \E k : /\ k \in DOMAIN d /\ d[k] = e /\ k \notin DOMAIN b
             /\ \A o \in Ops, u \in Types : \A n \in DOMAIN buffer'[o][u] :
                  n \in DOMAIN buffer[o][u] \/ (o = op /\ u = t /\ n = k)
  BY <1>4, <1>7
<1>10. \E N : /\ N \in DOMAIN new /\ new[N] = e /\ N \notin DOMAIN doc
              /\ \A i \in DOMAIN new : i \in DOMAIN doc \/ i = N
  <2> HIDE DEF doc, new
  <2>1. QED
    BY <1>5
<1>11. QED
  BY <1>2, <1>3, <1>5, <1>6, <1>8, <1>9, <1>10 DEF S

LEMMA ComesFlush ==
    ASSUME FlushInv, NEW e, Comes(e)
    PROVE  FlushInv' /\ LoopedInv'
<1>1. /\ e.op \in Ops /\ e.type \in Types /\ todo = <<>> /\ todo' = <<>>
      /\ phase = "flushing" /\ phase' = "reading"
      /\ NewState(pending) = StateOf(e.op, e.type) /\ current_state' = StateOf(e.op, e.type)
      /\ \A o \in Ops, u \in Types : ~(o = e.op /\ u = e.type) => buffer'[o][u] = buffer[o][u]
  BY DEF Comes
<1>2. ASSUME NEW o \in Ops, NEW u \in Types, Holds(o, u)'
      PROVE  current_state' = StateOf(o, u)
  <2>1. CASE o = e.op /\ u = e.type
    BY <1>1, <2>1
  <2>2. CASE ~(o = e.op /\ u = e.type)
    <3>1. Holds(o, u)
      BY <1>1, <1>2, <2>2 DEF Holds
    <3>2. ~Awaited(o, u)
      BY <1>1 DEF Awaited
    <3>3. ~Leaves /\ current_state = StateOf(o, u)
      BY <3>1, <3>2 DEF FlushInv
    <3>4. NewState(pending) = current_state
      BY <1>1, <3>3 DEF Leaves
    <3>5. QED
      BY <1>1, <3>3, <3>4
  <2>3. QED
    BY <2>1, <2>2
<1>3. ~Leaves'
  BY <1>1 DEF Leaves
<1>4. \A o, u : StateOf(o, u)' = StateOf(o, u)
  OBVIOUS
<1>5. FlushInv'
  BY <1>1, <1>2, <1>3, <1>4 DEF FlushInv
<1>6. LoopedInv'
  BY <1>1 DEF LoopedInv, InLoop
<1>7. QED
  BY <1>5, <1>6

LEMMA ComesDocument ==
    ASSUME UploadInv, DocumentInv, CreatedReports, NEW e, Comes(e)
    PROVE  DocumentInv'
<1> DEFINE doc == ct.orig_sequence
           new == ct'.orig_sequence
<1>1. /\ Advances
      /\ \A u : ~InLoop(u) /\ ~InLoop(u)'
      /\ \A o \in Ops, u \in Types : \A n \in DOMAIN buffer[o][u] :
           n \in DOMAIN buffer'[o][u] /\ buffer'[o][u][n] = buffer[o][u][n]
      /\ \A i \in DOMAIN doc : i \in DOMAIN new /\ new[i] = doc[i]
      /\ new \in Seq(Element)
      /\ \A u \in Types : \A n : Waits(u, n) =>
           Waits(u, n)' /\ buffer'["modify"][u][n] = buffer["modify"][u][n]
  BY ComesAfter
<1>2. PICK k : /\ k \in DOMAIN buffer'[e.op][e.type] /\ buffer'[e.op][e.type][k] = e
               /\ \A o \in Ops, u \in Types : \A n \in DOMAIN buffer'[o][u] :
                    n \in DOMAIN buffer[o][u] \/ (o = e.op /\ u = e.type /\ n = k)
  BY ComesAfter
<1>3. PICK N : /\ N \in DOMAIN new /\ new[N] = e
               /\ \A i \in DOMAIN new : i \in DOMAIN doc \/ i = N
  BY ComesAfter
<1>4. e \in Element /\ e.op \in Ops /\ e.type \in Types
  BY DEF Comes
<1>5. ASSUME NEW o \in Ops, NEW u \in Types, NEW n \in DOMAIN buffer'[o][u]
      PROVE  /\ buffer'[o][u][n].op = o /\ buffer'[o][u][n].type = u
             /\ \E i \in DOMAIN new : new[i] = buffer'[o][u][n]
  <2>1. CASE n \in DOMAIN buffer[o][u]
    <3>1. /\ buffer[o][u][n].op = o /\ buffer[o][u][n].type = u
          /\ \E i \in DOMAIN doc : doc[i] = buffer[o][u][n]
      BY <2>1 DEF DocumentInv
    <3>2. buffer'[o][u][n] = buffer[o][u][n]
      BY <1>1, <2>1
    <3>3. QED
      BY <1>1, <3>1, <3>2
  <2>2. CASE o = e.op /\ u = e.type /\ n = k
    BY <1>2, <1>3, <2>2
  <2>3. QED
    BY <1>2, <2>1, <2>2
<1>6. ASSUME NEW u \in Types, NEW i \in DOMAIN new, new[i].op = "create", new[i].type = u
      PROVE  \/ IsCreated(u, doc[i])'
             \/ \E n \in DOMAIN buffer'["create"][u] : buffer'["create"][u][n] = new[i]
  <2>0. "create" \in Ops
    BY DEF Ops
  <2>1. CASE i \in DOMAIN doc
    <3>1. new[i] = doc[i] /\ doc[i] \in Element
      BY <1>1, <2>1, DocumentElements
    <3>2. PICK x \in Element : x = doc[i]
      BY <3>1
    <3>3. IsCreated(u, doc[i]) \/ \E n \in DOMAIN buffer["create"][u] : buffer["create"][u][n] = doc[i]
      BY <1>6, <2>1, <3>1 DEF DocumentInv
    <3>4. IsCreated(u, x) \/ \E n \in DOMAIN buffer["create"][u] : buffer["create"][u][n] = x
      BY <3>2, <3>3
    <3>5. IsCreated(u, x) => IsCreated(u, x)'
      BY <1>1, CreatedStays
    <3>6. IsCreated(u, x)' => IsCreated(u, doc[i])'
      <4>1. x = doc[i]'
        BY <3>1, <3>2
      <4>2. QED
        BY <4>1
    <3>7. QED
      BY <1>1, <2>0, <3>1, <3>2, <3>4, <3>5, <3>6
  <2>2. CASE i = N
    BY <1>2, <1>3, <1>6, <2>2
  <2>3. QED
    BY <1>3, <2>1, <2>2
<1>7. ASSUME NEW u \in Types, NEW i \in DOMAIN new, new[i].op = "modify", new[i].type = u
      PROVE  \/ IsModified(u, doc[i])'
             \/ \E n : Waits(u, n)' /\ buffer'["modify"][u][n] = new[i]
  <2>1. CASE i \in DOMAIN doc
    <3>1. new[i] = doc[i] /\ doc[i] \in Element
      BY <1>1, <2>1, DocumentElements
    <3>2. PICK x \in Element : x = doc[i]
      BY <3>1
    <3>3. IsModified(u, doc[i]) \/ \E n : Waits(u, n) /\ buffer["modify"][u][n] = doc[i]
      BY <1>7, <2>1, <3>1 DEF DocumentInv
    <3>4. IsModified(u, x) \/ \E n : Waits(u, n) /\ buffer["modify"][u][n] = x
      BY <3>2, <3>3
    <3>5. IsModified(u, x) => IsModified(u, x)'
      BY <1>1, ModifiedStays
    <3>6. IsModified(u, x)' => IsModified(u, doc[i])'
      <4>1. x = doc[i]'
        BY <3>1, <3>2
      <4>2. QED
        BY <4>1
    <3>7. QED
      BY <1>1, <3>1, <3>2, <3>4, <3>5, <3>6
  <2>2. CASE i = N
    <3>1. e.op = "modify" /\ e.type = u
      BY <1>3, <1>7, <2>2
    <3>2. Waits(u, k)'
      BY <1>1, <1>2, <3>1 DEF Waits
    <3>3. QED
      BY <1>2, <1>3, <2>2, <3>1, <3>2
  <2>3. QED
    BY <1>3, <2>1, <2>2
<1>8. QED
  BY <1>1, <1>5, <1>6, <1>7 DEF DocumentInv

LEMMA ComesReports ==
    ASSUME UploadInv, DocumentInv, CreatedReports, OtherReports, AskedInv, NEW e, Comes(e)
    PROVE  CreatedReports' /\ OtherReports' /\ AskedInv'
<1> DEFINE doc == ct.orig_sequence
           new == ct'.orig_sequence
<1>1. /\ db' = db /\ tx' = tx
      /\ ct'.created = ct.created /\ ct'.modified = ct.modified /\ ct'.deleted = ct.deleted
  BY DEF Comes
<1>2. Advances /\ \A i \in DOMAIN doc : i \in DOMAIN new /\ new[i] = doc[i]
  BY ComesAfter
<1>3. CreatedReports'
  BY <1>1 DEF CreatedReports
<1>4. OtherReports'
  <2>1. \A u \in Types : Added(db, tx, u)' = Added(db, tx, u)
    BY <1>1 DEF Added
  <2>2. QED
    BY <1>1, <2>1 DEF OtherReports
<1>5. AskedInv'
  <2>1. ASSUME NEW u \in Types, NEW h \in Added(db', tx', u), h.visible
        PROVE  \E i \in DOMAIN new : Asked(ct'.created, u, h, new[i])
    <3>1. h \in Added(db, tx, u)
      BY <1>1
    <3>2. PICK i \in DOMAIN doc : Asked(ct.created, u, h, doc[i])
      BY <2>1, <3>1 DEF AskedInv
    <3>3. Asked(ct'.created, u, h, new[i])
      BY <1>1, <1>2, <3>2
    <3>4. QED
      BY <1>2, <3>3
  <2>2. QED
    BY <2>1 DEF AskedInv
<1>6. QED
  BY <1>3, <1>4, <1>5

\* A placeholder that comes again is found in the buffer or among those used.
LEMMA ComesCreates ==
    ASSUME UploadInv, DocumentInv, CreatedReports, CreatesInv, NEW e, Comes(e)
    PROVE  CreatesInv'
<1> DEFINE doc == ct.orig_sequence
           new == ct'.orig_sequence
           used == create_placeholder_ids
           B(u) == buffer["create"][u]
           D(u) == buffer'["create"][u]
           Same(s, u, i, j) ==
               /\ i # j /\ s[i].op = "create" /\ s[j].op = "create"
               /\ s[i].type = u /\ s[j].type = u /\ s[i].old_id = s[j].old_id
<1>1. /\ \A u \in Types : \A n \in DOMAIN B(u) : n \in DOMAIN D(u) /\ D(u)[n] = B(u)[n]
      /\ \A i \in DOMAIN doc : i \in DOMAIN new /\ new[i] = doc[i]
  <2>1. "create" \in Ops
    BY DEF Ops
  <2>2. QED
    BY <2>1, ComesAfter
<1>2. used' = used
  BY DEF Comes
<1>3. ASSUME NEW u \in Types, NEW o, CreatesTwice(u, o)
      PROVE  CreatesTwice(u, o)'
  <2>1. PICK n \in DOMAIN B(u) :
          /\ B(u)[n].old_id = o
          /\ o \in used[u] \/ \E k \in DOMAIN B(u) : k # n /\ B(u)[k].old_id = o
    BY <1>3 DEF CreatesTwice
  <2>2. n \in DOMAIN D(u) /\ D(u)[n].old_id = o
    BY <1>1, <2>1
  <2>3. o \in used'[u] \/ \E k \in DOMAIN D(u) : k # n /\ D(u)[k].old_id = o
    BY <1>1, <1>2, <2>1
  <2>4. QED
    BY <2>2, <2>3 DEF CreatesTwice
<1>4. PICK k : /\ k \in DOMAIN buffer'[e.op][e.type] /\ buffer'[e.op][e.type][k] = e
               /\ k \notin DOMAIN buffer[e.op][e.type]
  BY ComesAfter
<1>5. PICK N : /\ N \in DOMAIN new /\ new[N] = e
               /\ \A i \in DOMAIN new : i \in DOMAIN doc \/ i = N
  BY ComesAfter
<1>6. ASSUME NEW u \in Types, NEW i \in DOMAIN doc, doc[i].op = "create", doc[i].type = u,
             e.op = "create", e.type = u, doc[i].old_id = e.old_id
      PROVE  CreatesTwice(u, e.old_id)'
  <2>1. k \in DOMAIN D(u) /\ D(u)[k].old_id = e.old_id /\ k \notin DOMAIN B(u)
    BY <1>4, <1>6
  <2>2. CASE IsCreated(u, doc[i])
    <3>1. PICK m \in ct.created[u] : m.old_id = doc[i].old_id
      BY <2>2 DEF IsCreated
    <3>2. e.old_id \in used'[u]
      BY <1>2, <1>6, <3>1 DEF UploadInv, PlaceholderInv
    <3>3. QED
      BY <2>1, <3>2 DEF CreatesTwice
  <2>3. CASE \E n \in DOMAIN B(u) : B(u)[n] = doc[i]
    <3>1. PICK n \in DOMAIN B(u) : B(u)[n] = doc[i]
      BY <2>3
    <3>2. n \in DOMAIN D(u) /\ n # k /\ D(u)[n].old_id = e.old_id
      BY <1>1, <1>6, <2>1, <3>1
    <3>3. QED
      BY <2>1, <3>2 DEF CreatesTwice
  <2>4. QED
    BY <1>6, <2>2, <2>3 DEF DocumentInv
<1>7. ASSUME NEW u \in Types, NEW i \in DOMAIN new, NEW j \in DOMAIN new, Same(new, u, i, j)
      PROVE  CreatesTwice(u, doc[i].old_id)'
  <2>0. PICK o : o = new[i].old_id
    OBVIOUS
  <2>1. CASE i \in DOMAIN doc /\ j \in DOMAIN doc
    <3>1. new[i] = doc[i] /\ new[j] = doc[j]
      BY <1>1, <2>1
    <3>2. Same(doc, u, i, j)
      BY <1>7, <3>1
    <3>3. CreatesTwice(u, doc[i].old_id)
      BY <2>1, <3>2 DEF CreatesInv
    <3>4. CreatesTwice(u, o)
      BY <2>0, <3>1, <3>3
    <3>5. CreatesTwice(u, o)'
      BY <1>3, <3>4
    <3>6. QED
      BY <2>0, <3>5
  <2>2. CASE i \in DOMAIN doc /\ j = N
    <3>1. new[i] = doc[i] /\ new[j] = e
      BY <1>1, <1>5, <2>2
    <3>2. CreatesTwice(u, e.old_id)'
      BY <1>6, <1>7, <2>2, <3>1
    <3>3. e.old_id = doc[i].old_id'
      BY <1>7, <3>1
    <3>4. QED
      BY <3>2, <3>3
  <2>3. CASE j \in DOMAIN doc /\ i = N
    <3>1. new[j] = doc[j] /\ new[i] = e
      BY <1>1, <1>5, <2>3
    <3>2. CreatesTwice(u, e.old_id)'
      BY <1>6, <1>7, <2>3, <3>1
    <3>3. e.old_id = doc[i].old_id'
      BY <3>1
    <3>4. QED
      BY <3>2, <3>3
  <2>4. QED
    BY <1>5, <1>7, <2>1, <2>2, <2>3
<1>8. QED
  BY <1>7 DEF CreatesInv

\* A modification that comes waits behind the one of the same version.
LEMMA ComesModifies ==
    ASSUME UploadInv, DocumentInv, CreatedReports, ModifiesInv, NEW e, Comes(e)
    PROVE  ModifiesInv'
<1> DEFINE doc == ct.orig_sequence
           new == ct'.orig_sequence
           Same(s, u, i, j) ==
               /\ i # j /\ s[i].op = "modify" /\ s[j].op = "modify"
               /\ s[i].type = u /\ s[j].type = u /\ s[i].version = s[j].version
<1>1. /\ Advances
      /\ \A u : ~InLoop(u)'
      /\ \A i \in DOMAIN doc : i \in DOMAIN new /\ new[i] = doc[i]
      /\ \A u \in Types : \A n : Waits(u, n) =>
           Waits(u, n)' /\ buffer'["modify"][u][n] = buffer["modify"][u][n]
  BY ComesAfter
<1>2. PICK k : /\ k \in DOMAIN buffer'[e.op][e.type] /\ buffer'[e.op][e.type][k] = e
               /\ k \notin DOMAIN buffer[e.op][e.type]
  BY ComesAfter
<1>3. PICK N : /\ N \in DOMAIN new /\ new[N] = e
               /\ \A i \in DOMAIN new : i \in DOMAIN doc \/ i = N
  BY ComesAfter
<1>4. ASSUME NEW u \in Types, NEW x \in Element,
             IsModified(u, x) \/ \E n : Waits(u, n) /\ buffer["modify"][u][n] = x,
             e.op = "modify", e.type = u
      PROVE  Apart(u, x, e)' /\ Apart(u, e, x)'
  <2>1. Waits(u, k)' /\ buffer'["modify"][u][k] = e /\ ~Waits(u, k)
    BY <1>1, <1>2, <1>4 DEF Waits
  <2>2. CASE IsModified(u, x)
    <3>1. IsModified(u, x)'
      BY <1>1, <2>2, ModifiedStays
    <3>2. QED
      BY <2>1, <3>1 DEF Apart
  <2>3. CASE \E n : Waits(u, n) /\ buffer["modify"][u][n] = x
    <3>1. PICK n : Waits(u, n) /\ buffer["modify"][u][n] = x
      BY <2>3
    <3>2. n # k /\ Waits(u, n)' /\ buffer'["modify"][u][n] = x
      BY <1>1, <2>1, <3>1
    <3>3. QED
      BY <2>1, <3>2 DEF Apart
  <2>4. QED
    BY <1>4, <2>2, <2>3
<1>5. ASSUME NEW u \in Types, NEW i \in DOMAIN doc, doc[i].op = "modify", doc[i].type = u,
             e.op = "modify", e.type = u
      PROVE  \E x \in Element : x = doc[i] /\ Apart(u, x, e)' /\ Apart(u, e, x)'
  <2>1. PICK x \in Element : x = doc[i]
    BY DocumentElements
  <2>2. IsModified(u, doc[i]) \/ \E n : Waits(u, n) /\ buffer["modify"][u][n] = doc[i]
    BY <1>5 DEF DocumentInv
  <2>3. IsModified(u, x) \/ \E n : Waits(u, n) /\ buffer["modify"][u][n] = x
    BY <2>1, <2>2
  <2>4. QED
    BY <1>4, <1>5, <2>1, <2>3
<1>6. ASSUME NEW u \in Types, NEW i \in DOMAIN new, NEW j \in DOMAIN new, Same(new, u, i, j)
      PROVE  Apart(u, doc[i], doc[j])'
  <2>1. CASE i \in DOMAIN doc /\ j \in DOMAIN doc
    <3>1. new[i] = doc[i] /\ new[j] = doc[j]
      BY <1>1, <2>1
    <3>2. Same(doc, u, i, j)
      BY <1>6, <3>1
    <3>3. Apart(u, doc[i], doc[j])
      BY <2>1, <3>2 DEF ModifiesInv
    <3>4. PICK x \in Element : x = doc[i]
      BY <2>1, DocumentElements
    <3>5. PICK y \in Element : y = doc[j]
      BY <2>1, DocumentElements
    <3>6. Apart(u, x, y)
      BY <3>3, <3>4, <3>5
    <3>7. Apart(u, x, y)'
      BY <1>1, <3>6, ApartStays
    <3>8. x = doc[i]' /\ y = doc[j]'
      BY <3>1, <3>4, <3>5
    <3>9. QED
      BY <3>7, <3>8
  <2>2. CASE i \in DOMAIN doc /\ j = N
    <3>1. new[i] = doc[i] /\ new[j] = e
      BY <1>1, <1>3, <2>2
    <3>2. PICK x \in Element : x = doc[i] /\ Apart(u, x, e)'
      BY <1>5, <1>6, <2>2, <3>1
    <3>3. x = doc[i]' /\ e = doc[j]'
      BY <3>1, <3>2
    <3>4. QED
      BY <3>2, <3>3
  <2>3. CASE j \in DOMAIN doc /\ i = N
    <3>1. new[j] = doc[j] /\ new[i] = e
      BY <1>1, <1>3, <2>3
    <3>2. PICK x \in Element : x = doc[j] /\ Apart(u, e, x)'
      BY <1>5, <1>6, <2>3, <3>1
    <3>3. x = doc[j]' /\ e = doc[i]'
      BY <3>1, <3>2
    <3>4. QED
      BY <3>2, <3>3
  <2>4. QED
    BY <1>3, <1>6, <2>1, <2>2, <2>3
<1>7. QED
  BY <1>6 DEF ModifiesInv

LEMMA TransitionKeepsDiff ==
    ASSUME UploadInv, DiffInv, complete_transition
    PROVE  DiffInv'
<1>1. CASE pending = EndOfDocument
  BY <1>1, EndKeepsDiff
<1>2. CASE pending # EndOfDocument
  <2>1. Comes(Buffered(pending))
    BY <1>2, TransitionComes
  <2>2. PICK e : e = Buffered(pending)
    OBVIOUS
  <2>3. Comes(e)
    BY <2>1, <2>2
  <2>4. /\ FlushInv /\ CreatedReports /\ OtherReports /\ DocumentInv
        /\ CreatesInv /\ ModifiesInv /\ AskedInv
    BY DEF DiffInv
  <2>5. FlushInv' /\ LoopedInv'
    BY <2>3, <2>4, ComesFlush
  <2>6. DocumentInv'
    BY <2>3, <2>4, ComesDocument
  <2>7. CreatedReports' /\ OtherReports' /\ AskedInv'
    BY <2>3, <2>4, ComesReports
  <2>8. CreatesInv' /\ ModifiesInv'
    BY <2>3, <2>4, ComesCreates, ComesModifies
  <2>9. QED
    BY <2>5, <2>6, <2>7, <2>8 DEF DiffInv
<1>3. QED
  BY <1>1, <1>2

-----------------------------------------------------------------------------
(* Every step *)

LEMMA ThrowsKeepDiff == ASSUME Throws PROVE DiffInv'
<1>1. PICK code : Throw(code)
  BY DEF Throws
<1>2. QED
  BY <1>1, FreshKeepsDiff DEF Throw

LEMMA ProcessKeepsDiff ==
    ASSUME UploadInv, CountInv, DiffInv, Process, scenario' = scenario
    PROVE  DiffInv'
<1>1. ASSUME NEW t \in Types, CreateStep(t) PROVE DiffInv'
  BY <1>1, CreateKeepsDiff
<1>2. ASSUME NEW t \in Types, ModifyStep(t) PROVE DiffInv'
  BY <1>2, ModifyKeepsDiff
<1>3. ASSUME NEW t \in Types, PackageStep(t) PROVE DiffInv'
  BY <1>3, PackageKeepsDiff
<1>4. ASSUME NEW t \in Types, LoopEnd(t) PROVE DiffInv'
  BY <1>4, LoopEndKeepsDiff
<1>5. ASSUME NEW t \in Types, NEW m, NEW skipped, DeleteStep(t, m, skipped) PROVE DiffInv'
  BY <1>5, DeleteKeepsDiff
<1>6. QED
  BY <1>1, <1>2, <1>3, <1>4, <1>5, ProcessSteps, ThrowsKeepDiff

\* The session stays as it is, and no call is being made.
LEMMA RestingKeepsDiff ==
    ASSUME UploadInv, DiffInv, db' = db, tx' = tx, ct' = ct, buffer' = buffer,
           create_placeholder_ids' = create_placeholder_ids, todo' = todo,
           packages' = packages, package' = package, current_state' = current_state,
           \/ phase' = phase /\ pending' = pending
           \/ phase = "idle" /\ phase' \in {"idle", "reading"}
    PROVE  DiffInv'
<1>1. FlushInv /\ LoopedInv
  BY DEF DiffInv
<1>2. \A u : InLoop(u)' = InLoop(u) /\ ModifyList(u)' = ModifyList(u)
  BY DEF InLoop, ModifyList
<1>3. \A u \in Types : \A n : Waits(u, n) => Waits(u, n)'
  BY <1>2 DEF Waits
<1>4. CreatedReports' /\ OtherReports' /\ DocumentInv' /\ CreatesInv' /\ ModifiesInv' /\ AskedInv'
  BY <1>3, RestKeepsDiff
<1>5. LoopedInv'
  BY <1>1, <1>2 DEF LoopedInv
<1>6. \A op \in Ops, t \in Types : Holds(op, t)' = Holds(op, t) /\ Awaited(op, t)' = Awaited(op, t)
  BY DEF Holds, Awaited
<1>7. Leaves' = Leaves
  BY DEF Leaves
<1>8. FlushInv'
  <2>1. phase' = "flushing" \/ todo' = <<>>
    BY <1>1 DEF FlushInv
  <2>2. phase' = "finishing" => current_state' = "st_finished"
    BY <1>1 DEF FlushInv
  <2>3. QED
    BY <1>1, <1>6, <1>7, <2>1, <2>2 DEF FlushInv
<1>9. QED
  BY <1>4, <1>5, <1>8 DEF DiffInv

LEMMA StepKeepsDiff ==
    ASSUME UploadInv, current_state \in States, CountInv, DiffInv, [Next]_upload_vars
    PROVE  DiffInv'
<1>1. ASSUME NEW e, process_element(e) PROVE DiffInv'
  <2>1. phase = "reading" /\ (Throws \/ handle_new_state(e))
    BY <1>1 DEF process_element, Throws
  <2>2. QED
    BY <2>1, ThrowsKeepDiff, NewStateKeepsDiff
<1>2. CASE end_document
  <2>1. PICK e : e = EndOfDocument
    OBVIOUS
  <2>2. phase = "reading" /\ handle_new_state(e)
    BY <1>2, <2>1 DEF end_document
  <2>3. QED
    BY <2>2, NewStateKeepsDiff
<1>3. CASE complete_transition
  BY <1>3, TransitionKeepsDiff
<1>4. CASE Process /\ scenario' = scenario
  BY <1>4, ProcessKeepsDiff
<1>5. CASE finish_upload
  <2>1. CASE Throws
    BY <2>1, ThrowsKeepDiff
  <2>2. CASE ~Throws
    <3>1. db' = tx /\ tx' = tx /\ FreshSession /\ phase' = "idle"
      BY <1>5, <2>2 DEF finish_upload, Throws
    <3>2. QED
      BY <3>1, FreshKeepsDiff
  <2>3. QED
    BY <2>1, <2>2
<1>6. CASE begin_upload
  <2>1. /\ db' = db /\ tx' = tx /\ ct' = ct /\ buffer' = buffer /\ todo' = todo
        /\ create_placeholder_ids' = create_placeholder_ids
        /\ packages' = packages /\ package' = package /\ current_state' = current_state
        /\ phase = "idle" /\ phase' \in {"idle", "reading"}
    BY <1>6 DEF begin_upload
  <2>2. QED
    BY <2>1, RestingKeepsDiff
<1>7. CASE parse_error \/ upload_fails
  <2>1. Throws
    BY <1>7 DEF parse_error, upload_fails, Throws
  <2>2. QED
    BY <2>1, ThrowsKeepDiff
<1>8. CASE UNCHANGED <<vars, scenario>>
  <2>1. /\ db' = db /\ tx' = tx /\ ct' = ct /\ buffer' = buffer /\ todo' = todo
        /\ create_placeholder_ids' = create_placeholder_ids
        /\ packages' = packages /\ package' = package /\ current_state' = current_state
        /\ phase' = phase /\ pending' = pending
    BY <1>8 DEF vars, sessionVars
  <2>2. QED
    BY <2>1, RestingKeepsDiff
<1>9. QED
  BY <1>1, <1>2, <1>3, <1>4, <1>5, <1>6, <1>7, <1>8
     DEF Next, Serve, no_more_requests, upload_vars

\* In every state the elements of the document are in a buffer or written and
\* reported, and the reports, the tables written and the document agree.
THEOREM DiffInvariant == Spec => [](CountingInv /\ DiffInv)
<1>1. Init => CountingInv /\ DiffInv
  <2> SUFFICES ASSUME Init PROVE CountingInv /\ DiffInv
    OBVIOUS
  <2>1. Fresh
    BY DEF Init, Fresh
  <2>2. QED
    BY <2>1, InitCounting, FreshDiff
<1>2. CountingInv /\ DiffInv /\ [Next]_upload_vars => (CountingInv /\ DiffInv)'
  BY CountingKept, StepKeepsDiff DEF CountingInv
<1>3. QED
  BY <1>1, <1>2, PTL DEF Spec

-----------------------------------------------------------------------------
(* The commit *)

LEMMA ProcessFlushes == ASSUME Process PROVE phase = "flushing"
<1>1. CASE process_new_nodes \/ process_new_ways \/ process_new_relations
  BY <1>1 DEF process_new_nodes, process_new_ways, process_new_relations, Calling
<1>2. CASE process_modify_nodes \/ process_modify_ways \/ process_modify_relations
  BY <1>2 DEF process_modify_nodes, process_modify_ways, process_modify_relations, Calling
<1>3. CASE \/ process_modify_nodes_package \/ process_modify_ways_package
           \/ process_modify_relations_package
  BY <1>3 DEF process_modify_nodes_package, process_modify_ways_package,
              process_modify_relations_package, Calling
<1>4. CASE process_delete_nodes \/ process_delete_ways \/ process_delete_relations
  BY <1>4 DEF process_delete_nodes, process_delete_ways, process_delete_relations, Calling
<1>5. QED
  BY <1>1, <1>2, <1>3, <1>4 DEF Process

\* Only finish_upload, and only when no check fails, answers with 200.
LEMMA CommitsAtEnd ==
    ASSUME [Next]_upload_vars, Commits
    PROVE  /\ phase = "finishing" /\ db' = tx /\ AllProcessed(ct) = OK
           /\ response' = [code |-> OK, diffresult |-> assemble_diffresult(ct)]
<1>1. phase = "finishing" /\ phase' = "idle" /\ response'.code = OK
  BY DEF Commits
<1>2. finish_upload
  <2>1. ~\E e \in scenario.elements : process_element(e)
    BY <1>1 DEF process_element
  <2>2. ~end_document /\ ~complete_transition /\ ~begin_upload /\ ~parse_error /\ ~no_more_requests
    BY <1>1 DEF end_document, complete_transition, begin_upload, parse_error, no_more_requests
  <2>3. ~Process
    BY <1>1, ProcessFlushes
  <2>4. ~upload_fails
    BY <1>1 DEF upload_fails, Throw, server_error, OK
  <2>5. ~UNCHANGED upload_vars
    BY <1>1 DEF upload_vars, vars, sessionVars
  <2>6. QED
    BY <2>1, <2>2, <2>3, <2>4, <2>5 DEF Next, Serve
<1> DEFINE num == num_new_changes(ct)
           updated == update_changeset(cs, num, get_bbox, 0)
           rest == Then(rate_limit_check(num),
                   Then(update_changeset_check(num),
                        bbox_size_check(updated.bbox)))
           error == Then(AllProcessed(ct), rest)
<1>3. \/ error # OK /\ Throw(error)
      \/ /\ error = OK /\ db' = tx
         /\ response' = [code |-> OK, diffresult |-> assemble_diffresult(ct)]
  BY <1>2 DEF finish_upload
<1> HIDE DEF rest
<1>4. ~(error # OK /\ Throw(error))
  BY <1>1 DEF Throw
<1>5. AllProcessed(ct) = OK
  BY <1>3, <1>4, AllOK
<1>6. QED
  BY <1>1, <1>3, <1>4, <1>5

\* Then no buffer holds anything, and all elements have been written.
LEMMA NothingLeft ==
    ASSUME DiffInv, phase = "finishing"
    PROVE  /\ \A op \in Ops, t \in Types : DOMAIN buffer[op][t] = {}
           /\ \A t \in Types : \A n : ~Waits(t, n)
<1>1. FlushInv /\ current_state = "st_finished" /\ ~Leaves
  BY DEF DiffInv, FlushInv, Leaves
<1>2. \A op \in Ops, t \in Types : ~Holds(op, t)
  BY <1>1, StateCalls DEF FlushInv
<1>3. \A op \in Ops, t \in Types : DOMAIN buffer[op][t] = {}
  BY <1>2 DEF Holds
<1>4. "modify" \in Ops
  BY DEF Ops
<1>5. QED
  BY <1>3, <1>4 DEF Waits

\* The entry of the diffResult for an element.
LEMMA EntryTold ==
    ASSUME DiffInv, phase = "finishing", AllProcessed(ct) = OK,
           NEW i \in DOMAIN ct.orig_sequence, NEW e, e = ct.orig_sequence[i],
           NEW r, r = diffresult_row(ct, e)
    PROVE  /\ e \in Element /\ e.type \in Types /\ e.op \in Ops /\ e.version \in Nat
           /\ r.op = e.op /\ r.old_id = e.old_id
           /\ e.op = "create" =>
                /\ r.new_version = 1 /\ Stored(db, tx, ct.created, e.type, e, r.new_id, 1)
                /\ \E m \in ct.created[e.type] : m.old_id = e.old_id /\ m.new_id = r.new_id
           /\ e.op = "modify" =>
                /\ e.version > 0 /\ r.new_version = e.version + 1
                /\ r.new_id = Resolve(ct.created, e.type, e.old_id)
                /\ Stored(db, tx, ct.created, e.type, e, r.new_id, r.new_version)
           /\ e.op = "delete" /\ ~r.deletion_skipped =>
                \E h \in Added(db, tx, e.type) :
                  ~h.visible /\ h.id = Resolve(ct.created, e.type, e.old_id)
<1> DEFINE t == e.type
<1>1. CreatedReports /\ OtherReports /\ DocumentInv
  BY DEF DiffInv
<1>2. e \in Element /\ t \in Types /\ e.op \in Ops /\ e.version \in Nat
  <2>1. e \in Element
    BY <1>1, DocumentElements
  <2>2. QED
    BY <2>1, ElementFields
<1>3. was_processed(ct, e)
  BY DEF AllProcessed, OK, server_error
<1>4. CASE e.op = "create"
  <2>1. PICK n \in ct.created[t] : n.old_id = e.old_id /\ Stored(db, tx, ct.created, t, e, n.new_id, 1)
    <3>1. "create" \in Ops
      BY DEF Ops
    <3>2. IsCreated(t, e)
      BY <1>1, <1>2, <1>4, <3>1, NothingLeft DEF DocumentInv
    <3>3. QED
      BY <3>2 DEF IsCreated
  <2> DEFINE m == CHOOSE x \in FindCreated(ct, e) : TRUE
  <2>2. n \in FindCreated(ct, e)
    BY <2>1 DEF FindCreated
  <2>3. m \in FindCreated(ct, e)
    BY <2>2
  <2>4. m \in ct.created[t] /\ m.old_id = e.old_id
    BY <2>3 DEF FindCreated
  <2>5. m = n /\ n.new_version = 1
    BY <1>1, <1>2, <2>1, <2>4 DEF CreatedReports
  <2>6. r = row(e, m, FALSE)
    BY <1>4 DEF diffresult_row
  <2> HIDE DEF m
  <2>7. r.op = e.op /\ r.old_id = n.old_id /\ r.new_id = n.new_id /\ r.new_version = n.new_version
    BY <2>5, <2>6 DEF row
  <2>8. QED
    BY <1>2, <1>4, <2>1, <2>5, <2>7
<1>5. CASE e.op = "modify"
  <2>1. IsModified(t, e)
    BY <1>1, <1>2, <1>5, NothingLeft DEF DocumentInv
  <2> DEFINE m == CHOOSE x \in FindModified(ct, e) : TRUE
             rep == Report(ct.created, t, e)
  <2>2. rep \in ct.modified[t] /\ e.version > 0 /\ Stored(db, tx, ct.created, t, e, rep.new_id, rep.new_version)
    BY <2>1 DEF IsModified
  <2>3. /\ rep.old_id = e.old_id /\ rep.new_id = Resolve(ct.created, t, e.old_id)
        /\ rep.new_version = e.version + 1
    BY DEF Report
  <2>4. rep \in FindModified(ct, e)
    BY <2>2, <2>3 DEF FindModified
  <2>5. m \in FindModified(ct, e)
    BY <2>4
  <2>6. m \in ct.modified[t] /\ m.old_id = e.old_id /\ m.new_version = e.version + 1
    BY <2>5 DEF FindModified
  <2>7. m.new_id = Resolve(ct.created, t, e.old_id)
    BY <1>1, <1>2, <2>6 DEF OtherReports
  <2>8. r = row(e, m, FALSE)
    BY <1>5 DEF diffresult_row
  <2> HIDE DEF m, rep
  <2>9. r.op = e.op /\ r.old_id = m.old_id /\ r.new_id = m.new_id /\ r.new_version = m.new_version
    BY <2>8 DEF row
  <2>10. QED
    BY <1>2, <1>5, <2>2, <2>3, <2>6, <2>7, <2>9
<1>6. CASE e.op = "delete"
  <2>1. CASE FindSkipped(ct, e) # {}
    <3> DEFINE m == CHOOSE x \in FindSkipped(ct, e) : TRUE
    <3>1. m \in FindSkipped(ct, e)
      BY <2>1
    <3>2. m.old_id = e.old_id
      BY <3>1 DEF FindSkipped
    <3>3. r = row(e, m, TRUE)
      BY <1>6, <2>1 DEF diffresult_row
    <3> HIDE DEF m
    <3>4. r.op = e.op /\ r.old_id = m.old_id /\ r.deletion_skipped
      BY <3>3 DEF row
    <3>5. QED
      BY <1>2, <1>6, <3>2, <3>4
  <2>2. CASE FindSkipped(ct, e) = {}
    <3>1. r = deleted_row(e)
      BY <1>6, <2>2 DEF diffresult_row
    <3>2. r.op = e.op /\ r.old_id = e.old_id
      BY <3>1 DEF deleted_row, row
    <3>3. PICK m : m \in FindDeleted(ct, e)
      BY <1>3, <1>6, <2>2 DEF was_processed
    <3>4. m \in ct.deleted[t] /\ m.old_id = e.old_id
      BY <3>3 DEF FindDeleted
    <3>5. /\ m.new_id = Resolve(ct.created, t, e.old_id)
          /\ \E h \in Added(db, tx, t) : ~h.visible /\ h.id = m.new_id
      BY <1>1, <1>2, <3>4 DEF OtherReports
    <3>6. QED
      BY <1>2, <1>6, <3>2, <3>5
  <2>3. QED
    BY <2>1, <2>2
<1>7. QED
  BY <1>2, <1>4, <1>5, <1>6 DEF Ops

\* Two entries that name the same version are of the same element.
LEMMA EntriesApart ==
    ASSUME DiffInv, phase = "finishing", AllProcessed(ct) = OK,
           NEW i \in DOMAIN ct.orig_sequence, NEW e, e = ct.orig_sequence[i],
           NEW j \in DOMAIN ct.orig_sequence, NEW f, f = ct.orig_sequence[j],
           e.op \in {"create", "modify"}, f.op \in {"create", "modify"}, e.type = f.type,
           NEW r, r = diffresult_row(ct, e), NEW s, s = diffresult_row(ct, f),
           r.new_id = s.new_id, r.new_version = s.new_version
    PROVE  i = j
<1> DEFINE t == e.type
<1>1. /\ t \in Types /\ e.version \in Nat /\ f.version \in Nat
      /\ e.op = "create" => /\ r.new_version = 1
                            /\ \E m \in ct.created[t] : m.old_id = e.old_id /\ m.new_id = r.new_id
      /\ e.op = "modify" => /\ e.version > 0 /\ r.new_version = e.version + 1
                            /\ r.new_id = Resolve(ct.created, t, e.old_id)
  BY EntryTold
<1>2. /\ f.op = "create" => /\ s.new_version = 1
                            /\ \E m \in ct.created[t] : m.old_id = f.old_id /\ m.new_id = s.new_id
      /\ f.op = "modify" => /\ f.version > 0 /\ s.new_version = f.version + 1
                            /\ s.new_id = Resolve(ct.created, t, f.old_id)
  BY EntryTold
<1>3. e.op = f.op
  BY <1>1, <1>2
<1>4. CreatedReports /\ CreatesInv /\ ModifiesInv
  BY DEF DiffInv
<1>5. CASE e.op = "create"
  <2>1. e.old_id = f.old_id
    BY <1>1, <1>2, <1>3, <1>4, <1>5 DEF CreatedReports
  <2>2. ~CreatesTwice(t, e.old_id)
    BY <1>1, NothingLeft DEF CreatesTwice, Ops
  <2>3. QED
    BY <1>1, <1>3, <1>4, <1>5, <2>1, <2>2 DEF CreatesInv
<1>6. CASE e.op = "modify"
  <2>1. e.version = f.version
    BY <1>1, <1>2, <1>3, <1>6
  <2>2. Resolve(ct.created, t, e.old_id) = Resolve(ct.created, t, f.old_id)
    BY <1>1, <1>2, <1>3, <1>6
  <2>3. ~Apart(t, e, f)
    BY <1>1, <2>2, NothingLeft DEF Apart
  <2>4. QED
    BY <1>1, <1>3, <1>4, <1>6, <2>1, <2>3 DEF ModifiesInv
<1>7. QED
  BY <1>5, <1>6

\* Every visible version that was written has an entry.
LEMMA VersionTold ==
    ASSUME DiffInv, phase = "finishing", AllProcessed(ct) = OK,
           NEW t \in Types, NEW h \in Added(db, tx, t), h.visible
    PROVE  \E i \in DOMAIN ct.orig_sequence :
             LET e == ct.orig_sequence[i]
                 r == diffresult_row(ct, e)
             IN  /\ e.op \in {"create", "modify"} /\ e.type = t
                 /\ r.new_id = h.id /\ r.new_version = h.version
<1>1. AskedInv /\ CreatedReports
  BY DEF DiffInv
<1>2. PICK i \in DOMAIN ct.orig_sequence : Asked(ct.created, t, h, ct.orig_sequence[i])
  BY <1>1 DEF AskedInv
<1>3. PICK e : e = ct.orig_sequence[i]
  OBVIOUS
<1>4. PICK r : r = diffresult_row(ct, e)
  OBVIOUS
<1>5. /\ e.op = "create" => /\ r.new_version = 1
                            /\ \E m \in ct.created[e.type] : m.old_id = e.old_id /\ m.new_id = r.new_id
      /\ e.op = "modify" => /\ r.new_version = e.version + 1
                            /\ r.new_id = Resolve(ct.created, e.type, e.old_id)
  BY <1>3, <1>4, EntryTold
<1>6. /\ e.type = t
      /\ \/ /\ e.op = "create" /\ h.version = 1
            /\ \E m \in ct.created[t] : m.old_id = e.old_id /\ m.new_id = h.id
         \/ /\ e.op = "modify" /\ h.version = e.version + 1
            /\ h.id = Resolve(ct.created, t, e.old_id)
  BY <1>2, <1>3 DEF Asked
<1>7. CASE e.op = "create"
  <2>1. r.new_id = h.id /\ r.new_version = h.version
    BY <1>1, <1>5, <1>6, <1>7 DEF CreatedReports
  <2>2. QED
    BY <1>3, <1>4, <1>6, <1>7, <2>1
<1>8. CASE e.op = "modify"
  <2>1. r.new_id = h.id /\ r.new_version = h.version
    BY <1>5, <1>6, <1>8
  <2>2. QED
    BY <1>3, <1>4, <1>6, <1>8, <2>1
<1>9. QED
  BY <1>6, <1>7, <1>8

\* DiffResultTruthful, for every database, every document and any number of
\* uploads: the diffResult of a committed upload has one entry per element of
\* the document, in its order; what it says was created or modified is stored
\* under that id and version exactly as the document has it, placeholders
\* replaced, also when a document modifies an element several times; no two
\* entries share a version, every visible version written has its entry, and a
\* delete that is not reported as skipped has been executed
\* (assemble_diffresult over what the updaters reported).
THEOREM DiffResultAlwaysTruthful == Spec => DiffResultTruthful
<1> DEFINE doc == ct.orig_sequence
           result == response'.diffresult
           Stores(i) == doc[i].op \in {"create", "modify"}
           Entries ==
               \A i \in DOMAIN doc :
                 /\ result[i].op = doc[i].op /\ result[i].old_id = doc[i].old_id
                 /\ Stores(i) => WrittenAs(doc[i], result[i])
                 /\ ~Stores(i) /\ ~result[i].deletion_skipped =>
                        \E h \in Written(doc[i].type) :
                            /\ ~h.visible
                            /\ h.id = Resolve(ct.created, doc[i].type, doc[i].old_id)
           AllTold ==
               \A t \in Types : \A h \in Written(t) :
                   h.visible => \E i \in DOMAIN doc :
                       /\ Stores(i) /\ doc[i].type = t
                       /\ result[i].new_id = h.id /\ result[i].new_version = h.version
           Distinct ==
               \A i, j \in DOMAIN doc :
                   /\ Stores(i) /\ Stores(j) /\ doc[i].type = doc[j].type
                   /\ result[i].new_id = result[j].new_id
                   /\ result[i].new_version = result[j].new_version
                   => i = j
           A == Commits => DOMAIN result = DOMAIN doc /\ Entries /\ AllTold /\ Distinct
<1>1. CountingInv /\ DiffInv /\ [Next]_upload_vars => A
  <2> SUFFICES ASSUME DiffInv, [Next]_upload_vars, Commits
               PROVE  DOMAIN result = DOMAIN doc /\ Entries /\ AllTold /\ Distinct
    OBVIOUS
  <2>1. /\ phase = "finishing" /\ db' = tx /\ AllProcessed(ct) = OK
        /\ response' = [code |-> OK, diffresult |-> assemble_diffresult(ct)]
    BY CommitsAtEnd
  <2>2. result = [i \in DOMAIN doc |-> diffresult_row(ct, doc[i])]
    BY <2>1 DEF assemble_diffresult
  <2>3. DOMAIN result = DOMAIN doc /\ \A i \in DOMAIN doc : result[i] = diffresult_row(ct, doc[i])
    BY <2>2
  <2>4. \A t : Written(t) = Added(db, tx, t)
    BY <2>1 DEF Written, Added
  <2> HIDE DEF result
  <2>5. Entries
    <3> SUFFICES ASSUME NEW i \in DOMAIN doc
                 PROVE  /\ result[i].op = doc[i].op /\ result[i].old_id = doc[i].old_id
                        /\ Stores(i) => WrittenAs(doc[i], result[i])
                        /\ ~Stores(i) /\ ~result[i].deletion_skipped =>
                             \E h \in Written(doc[i].type) :
                                /\ ~h.visible
                                /\ h.id = Resolve(ct.created, doc[i].type, doc[i].old_id)
      OBVIOUS
    <3>1. PICK e : e = doc[i]
      OBVIOUS
    <3>2. PICK r : r = diffresult_row(ct, e)
      OBVIOUS
    <3>3. result[i] = r
      BY <2>3, <3>1, <3>2
    <3>4. /\ e.op \in Ops /\ r.op = e.op /\ r.old_id = e.old_id
          /\ e.op = "create" => r.new_version = 1 /\ Stored(db, tx, ct.created, e.type, e, r.new_id, 1)
          /\ e.op = "modify" => Stored(db, tx, ct.created, e.type, e, r.new_id, r.new_version)
          /\ e.op = "delete" /\ ~r.deletion_skipped =>
               \E h \in Added(db, tx, e.type) :
                  ~h.visible /\ h.id = Resolve(ct.created, e.type, e.old_id)
      BY <2>1, <3>1, <3>2, EntryTold
    <3>5. ASSUME Stored(db, tx, ct.created, e.type, e, r.new_id, r.new_version)
          PROVE  WrittenAs(e, r)
      BY <2>1, <2>4, <3>5 DEF Stored, WrittenAs, MembersOf
    <3>6. e.op \in {"create", "modify"} => WrittenAs(e, r)
      BY <3>4, <3>5
    <3>7. e.op \notin {"create", "modify"} => e.op = "delete"
      BY <3>4 DEF Ops
    <3>8. QED
      BY <2>4, <3>1, <3>3, <3>4, <3>6, <3>7
  <2>6. AllTold
    <3> SUFFICES ASSUME NEW t \in Types, NEW h \in Written(t), h.visible
                 PROVE  \E i \in DOMAIN doc :
                          /\ Stores(i) /\ doc[i].type = t
                          /\ result[i].new_id = h.id /\ result[i].new_version = h.version
      OBVIOUS
    <3>1. h \in Added(db, tx, t)
      BY <2>4
    <3>2. PICK i \in DOMAIN doc :
            /\ Stores(i) /\ doc[i].type = t
            /\ diffresult_row(ct, doc[i]).new_id = h.id
            /\ diffresult_row(ct, doc[i]).new_version = h.version
      BY <2>1, <3>1, VersionTold
    <3>3. QED
      BY <2>3, <3>2
  <2>7. Distinct
    <3> SUFFICES ASSUME NEW i \in DOMAIN doc, NEW j \in DOMAIN doc,
                        Stores(i), Stores(j), doc[i].type = doc[j].type,
                        result[i].new_id = result[j].new_id,
                        result[i].new_version = result[j].new_version
                 PROVE  i = j
      OBVIOUS
    <3>1. PICK e : e = doc[i]
      OBVIOUS
    <3>2. PICK f : f = doc[j]
      OBVIOUS
    <3>3. PICK r : r = diffresult_row(ct, e)
      OBVIOUS
    <3>4. PICK s : s = diffresult_row(ct, f)
      OBVIOUS
    <3>5. result[i] = r /\ result[j] = s
      BY <2>3, <3>1, <3>2, <3>3, <3>4
    <3>6. QED
      BY <2>1, <3>1, <3>2, <3>3, <3>4, <3>5, EntriesApart
  <2>8. QED
    BY <2>3, <2>5, <2>6, <2>7
<1>2. QED
  BY <1>1, DiffInvariant, PTL DEF Spec, DiffResultTruthful, upload_vars
=============================================================================
