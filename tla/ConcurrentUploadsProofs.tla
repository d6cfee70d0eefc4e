----------------------- MODULE ConcurrentUploadsProofs -----------------------
(***************************************************************************)
(* Theorems about ConcurrentUploads: for any number of uploads, documents  *)
(* and elements, and however their statements interleave.                  *)
(***************************************************************************)
EXTENDS ConcurrentUploads, FiniteSetTheorems, SequenceTheorems, TLAPS

Has(u, e, mode) == [by |-> u, row |-> e, mode |-> mode] \in locks
Mine(u) == Created(doc[u])
Holds(u, e) == e \in Mine(u) \/ \E m \in Modes : Has(u, e, m)
Running(u) == stage[u] \notin {"idle", "end"}
InBatch == {"lock_current", "check", "referenced", "lock_future", "write"}
Queued(u, e) == \E k \in DOMAIN queue[u] : queue[u][k] = e

\* In one delete call either all items have the if-unused flag or none has.
\* The run mixed_deletes shows what is_relation_still_referenced does otherwise.
Unmixed(b) ==
    b.op = "delete" => \A i, j \in b.items : i.if_unused = j.if_unused
NoMixedDeletes ==
    \A u \in Uploads : \A d \in Documents[u] : \A k \in DOMAIN d : Unmixed(d[k])

(***************************************************************************)
(* Helpers                                                                 *)
(***************************************************************************)
LEMMA SeqOfSet ==
    ASSUME NEW S \in SUBSET Elements, NEW s \in SetToSeqs(S)
    PROVE  /\ s \in Seq(Elements)
           /\ \A k \in DOMAIN s : s[k] \in S
           /\ \A e \in S : \E k \in DOMAIN s : s[k] = e
<1> DEFINE n == Cardinality(S)
<1>1. IsFiniteSet(S) /\ n \in Nat
  BY ElementsAssumption, FS_Subset, FS_CardinalityType
<1>2. s \in [1..n -> S] /\ \A i, j \in 1..n : i # j => s[i] # s[j]
  BY DEF SetToSeqs
<1>3. IsFiniteSet(1..n) /\ Cardinality(1..n) = n
  BY <1>1, FS_Interval
<1>4. s \in Injection(1..n, S)
  BY <1>2 DEF Injection, IsInjective
<1>5. s \in Surjection(1..n, S)
  BY <1>1, <1>3, <1>4, FS_Injection
<1>6. \A e \in S : \E k \in 1..n : s[k] = e
  BY <1>5 DEF Surjection
<1> HIDE DEF n
<1>7. QED
  BY <1>1, <1>2, <1>6

\* A batch of the document without some of its items.
LEMMA Dropped ==
    ASSUME NEW d \in Seq(Batch), NEW k \in DOMAIN d, NEW S
    PROVE  [d EXCEPT ![k].items = @ \ S] \in Seq(Batch)
<1> DEFINE b == [d[k] EXCEPT !.items = @ \ S]
<1>1. d[k] \in Batch
  BY LenProperties, ElementOfSeq
<1>2. b \in Batch
  BY <1>1 DEF Batch
<1>3. [d EXCEPT ![k] = b] \in Seq(Batch)
  BY <1>2, LenProperties, ExceptSeq
<1>4. [d EXCEPT ![k].items = @ \ S] = [d EXCEPT ![k] = b]
  OBVIOUS
<1>5. QED
  BY <1>3, <1>4

\* A queue without its first row.
LEMMA Dequeued ==
    ASSUME NEW q \in Seq(Elements), q # <<>>
    PROVE  /\ Head(q) \in Elements /\ Tail(q) \in Seq(Elements)
           /\ \E k \in DOMAIN q : q[k] = Head(q)
           /\ \A k \in DOMAIN Tail(q) : \E j \in DOMAIN q : q[j] = Tail(q)[k]
           /\ \A j \in DOMAIN q : q[j] = Head(q) \/ \E k \in DOMAIN Tail(q) : Tail(q)[k] = q[j]
<1>1. /\ Head(q) \in Elements /\ Tail(q) \in Seq(Elements)
      /\ Len(q) \in Nat \ {0} /\ Len(Tail(q)) = Len(q) - 1
      /\ DOMAIN q = 1..Len(q) /\ DOMAIN Tail(q) = 1..Len(Tail(q))
      /\ \A i \in 1..Len(Tail(q)) : Tail(q)[i] = q[i + 1]
  BY HeadTailProperties, LenProperties, EmptySeq
<1>2. Head(q) = q[1]
  BY <1>1
<1>3. \A k \in DOMAIN Tail(q) : k + 1 \in DOMAIN q /\ q[k + 1] = Tail(q)[k]
  BY <1>1
<1>4. \A j \in DOMAIN q : j = 1 \/ (j - 1 \in DOMAIN Tail(q) /\ Tail(q)[j - 1] = q[j])
  BY <1>1
<1>5. 1 \in DOMAIN q
  BY <1>1
<1>6. QED
  BY <1>1, <1>2, <1>3, <1>4, <1>5

(***************************************************************************)
(* The first half of the inductive invariant: rows and locks               *)
(***************************************************************************)
\* A row that is locked for an update is locked by nobody else.
Exclusive ==
    \A u, v \in Uploads : \A e \in Elements : \A m \in Modes :
        (u # v /\ Has(u, e, "update")) => ~Has(v, e, m)

\* Uploads create different elements, and rows come from somewhere.
NewApart == \A u, v \in Uploads : u # v => Mine(u) \cap Mine(v) = {}
Origin ==
    \A e \in Elements :
        Exists(db, e) => Exists(InitialRows, e) \/ \E v \in Uploads : e \in Mine(v)
VisibleExist == \A e \in Elements : db[e].visible => Exists(db, e)

\* Before it starts and after its end an upload leaves nothing behind.
Quiet(u) ==
    /\ stage[u] = "idle" => doc[u] = <<>>
    /\ ~Running(u) => /\ DOMAIN own[u] = {}
                      /\ queue[u] = <<>>
                      /\ \A e \in Elements, m \in Modes : ~Has(u, e, m)

\* Rows it locks exist, but for the ones it creates; those nobody else has.
RowsKnown(u) ==
    /\ \A e \in Elements :
          ((\E m \in Modes : Has(u, e, m)) \/ Queued(u, e)) => Exists(db, e) \/ e \in Mine(u)
    /\ Running(u) => \A e \in Mine(u) : ~Exists(db, e)

\* It has written only rows it has locked or created.
OwnLocked(u) ==
    \A e \in DOMAIN own[u] : own[u][e].version > 0 /\ (e \in Mine(u) \/ Has(u, e, "update"))

\* The statement an upload is at belongs to the kind of call it makes.
AtBatch(u) ==
    stage[u] \in InBatch =>
        /\ at[u] \in DOMAIN doc[u]
        /\ stage[u] \in {"lock_current", "check"} => batch(u).op # "create"
        /\ stage[u] = "referenced" => batch(u).op = "delete"
        /\ stage[u] = "lock_future" => batch(u).op # "delete"

\* lock_current_* has locked the rows of the call, or is about to.
CurrentLocked(u) ==
    (stage[u] \in InBatch /\ batch(u).op # "create") =>
        \A e \in Ids(batch(u).items) :
            \/ Has(u, e, "update")
            \/ stage[u] = "lock_current" /\ (e \in missing[u] \/ Queued(u, e))

LocksOK(u) == Quiet(u) /\ RowsKnown(u) /\ OwnLocked(u) /\ AtBatch(u) /\ CurrentLocked(u)
LocksShared == Exclusive /\ NewApart /\ Origin /\ VisibleExist

LocksInv == TypeOK /\ LocksShared /\ \A u \in Uploads : LocksOK(u)

(***************************************************************************)
(* Types                                                                   *)
(***************************************************************************)
LEMMA EmptyOwn == <<>> \in [{} -> Row] /\ DOMAIN <<>> = {}
OBVIOUS

LEMMA SeenType ==
    ASSUME TypeOK, NEW u \in Uploads
    PROVE  /\ Seen(u) \in [Elements -> Row]
           /\ DOMAIN own[u] \subseteq Elements
           /\ \A e \in Elements : Seen(u)[e] = IF e \in DOMAIN own[u] THEN own[u][e] ELSE db[e]
<1>1. \A e \in DOMAIN own[u] : own[u][e] \in Row
  BY DEF TypeOK
<1>2. QED
  BY <1>1 DEF TypeOK, Seen

LEMMA BatchType ==
    ASSUME TypeOK, NEW u \in Uploads, at[u] \in DOMAIN doc[u]
    PROVE  /\ batch(u) \in Batch
           /\ batch(u).items \subseteq Item /\ Ids(batch(u).items) \subseteq Elements
           /\ FutureMembers(batch(u)) \subseteq Elements
           /\ batch(u).op \in {"create", "modify", "delete"}
<1>1. doc[u] \in Seq(Batch)
  BY DEF TypeOK
<1>2. batch(u) \in Batch
  BY <1>1, LenProperties, ElementOfSeq DEF batch
<1>3. batch(u).items \subseteq Item
  BY <1>2 DEF Batch
<1>4. \A i \in batch(u).items : i.id \in Elements /\ i.refs \subseteq Elements
  BY <1>3 DEF Item
<1>5. QED
  BY <1>2, <1>3, <1>4 DEF Ids, FutureMembers, Batch

LEMMA WriteType ==
    ASSUME NEW rows \in [Elements -> Row], NEW b \in Batch
    PROVE  /\ WriteBatch(rows, b) \in [Elements -> Row]
           /\ \A e \in Elements \ Ids(b.items) : WriteBatch(rows, b)[e] = rows[e]
           /\ \A e \in Ids(b.items) : \E i \in b.items :
                 /\ i.id = e
                 /\ WriteBatch(rows, b)[e] = Written(b.op, i, rows[e])
                 /\ Written(b.op, i, rows[e]) \in Row
<1>1. b.items \subseteq Item /\ b.op \in {"create", "modify", "delete"}
  BY DEF Batch
<1>2. \A i \in b.items : i.id \in Elements /\ i.refs \subseteq Elements
  BY <1>1 DEF Item
<1>3. ASSUME NEW e \in Ids(b.items)
      PROVE  /\ e \in Elements
             /\ \E i \in b.items :
                 /\ i.id = e
                 /\ WriteBatch(rows, b)[e] = Written(b.op, i, rows[e])
                 /\ Written(b.op, i, rows[e]) \in Row
  <2> DEFINE i == CHOOSE i \in b.items : i.id = e
  <2>1. i \in b.items /\ i.id = e
    BY DEF Ids
  <2>2. e \in Elements
    BY <1>2, <2>1
  <2>3. WriteBatch(rows, b)[e] = Written(b.op, i, rows[e])
    BY <2>2 DEF WriteBatch
  <2>4. rows[e].version + 1 \in Nat /\ i.refs \subseteq Elements
    BY <1>2, <2>1, <2>2 DEF Row
  <2> HIDE DEF i
  <2>5. Written(b.op, i, rows[e]) \in Row
    BY <1>1, <2>4 DEF Written, Row
  <2>6. QED
    BY <2>1, <2>2, <2>3, <2>5
<1>4. \A e \in Elements \ Ids(b.items) : WriteBatch(rows, b)[e] = rows[e]
  BY DEF WriteBatch
<1>5. \A e \in Elements : WriteBatch(rows, b)[e] \in Row
  BY <1>3, <1>4
<1>6. WriteBatch(rows, b) = [e \in Elements |-> WriteBatch(rows, b)[e]]
  BY DEF WriteBatch
<1>7. QED
  BY <1>3, <1>4, <1>5, <1>6

LEMMA TypeInit == Init => TypeOK
BY InitialRowsAssumption, EmptyOwn DEF Init, TypeOK, Stages, Answers

LEMMA EndType ==
    ASSUME TypeOK, NEW u \in Uploads, NEW code \in Answers, End(u, code), db' \in [Elements -> Row]
    PROVE  TypeOK'
<1>1. /\ doc' \in [Uploads -> Seq(Batch)] /\ at' \in [Uploads -> Nat \ {0}]
      /\ stage' \in [Uploads -> Stages] /\ answer' \in [Uploads -> Answers]
      /\ changeset' \in [Uploads -> Changesets \cup {NoChangeset}]
      /\ queue' \in [Uploads -> Seq(Elements)] /\ missing' \in [Uploads -> SUBSET Elements]
  BY DEF End, TypeOK, GoTo, Stages
<1>2. locks' \subseteq [by: Uploads, row: Elements, mode: Modes]
  BY DEF End, TypeOK
<1>3. /\ DOMAIN own' = Uploads
      /\ \A v \in Uploads :
            DOMAIN own'[v] \in SUBSET Elements /\ own'[v] \in [DOMAIN own'[v] -> Row]
  BY EmptyOwn DEF End, TypeOK
<1>4. QED
  BY <1>1, <1>2, <1>3 DEF TypeOK

LEMMA StartLockingType ==
    ASSUME TypeOK, NEW u \in Uploads, NEW st \in {"lock_current", "lock_future"},
           NEW wanted \in SUBSET Elements, NEW notfound \in SUBSET Elements,
           StartLocking(u, st, wanted, notfound)
    PROVE  TypeOK'
<1>1. PICK order \in SetToSeqs(wanted \ notfound) : queue' = [queue EXCEPT ![u] = order]
  BY DEF StartLocking
<1>2. order \in Seq(Elements)
  BY SeqOfSet
<1>3. QED
  BY <1>1, <1>2 DEF StartLocking, TypeOK, GoTo, Stages

LEMMA TypeStep == ASSUME LocksInv, [Next]_vars PROVE TypeOK'
<1>t. TypeOK
  BY DEF LocksInv
<1>1. CASE UNCHANGED vars
  BY <1>1, <1>t DEF vars, progress, TypeOK
<1>2. ASSUME NEW u \in Uploads, NEW code \in Answers, Throw(u, code) PROVE TypeOK'
  BY <1>2, <1>t, EndType DEF Throw, TypeOK
<1>b. \A u \in Uploads : stage[u] \in InBatch => at[u] \in DOMAIN doc[u]
  BY DEF LocksInv, LocksOK, AtBatch
<1>3. ASSUME NEW u \in Uploads, lock_current_changeset(u) PROVE TypeOK'
  <2>1. CASE Throw(u, "conflict")
    BY <1>2, <2>1 DEF Answers
  <2>2. CASE /\ \E c \in Changesets : changeset' = [changeset EXCEPT ![u] = c]
             /\ \E d \in Documents[u] : doc' = [doc EXCEPT ![u] = d]
             /\ GoTo(u, "batch")
             /\ answer' = [answer EXCEPT ![u] = "running"]
             /\ UNCHANGED <<db, at, queue, missing, locks, own>>
    <3>1. Documents[u] \subseteq Seq(Batch)
      BY DocumentsAssumption
    <3>2. QED
      BY <1>t, <2>2, <3>1 DEF TypeOK, GoTo, Stages, Answers
  <2>3. QED
    BY <1>3, <2>1, <2>2 DEF lock_current_changeset
<1>f. ASSUME NEW u \in Uploads, at[u] \in DOMAIN doc[u], start_lock_future(u) PROVE TypeOK'
  <2>1. FutureMembers(batch(u)) \subseteq Elements
    BY <1>f, <1>t, BatchType
  <2>2. MissingFuture(Seen(u), batch(u)) \subseteq Elements
    BY <2>1 DEF MissingFuture
  <2>3. QED
    BY <1>f, <1>t, <2>1, <2>2, StartLockingType DEF start_lock_future
<1>4. ASSUME NEW u \in Uploads, lock_current(u) PROVE TypeOK'
  <2>1. Ids(batch(u).items) \subseteq Elements
    BY <1>4, <1>t, BatchType DEF lock_current, start_lock_current
  <2>2. MissingCurrent(Seen(u), batch(u)) \subseteq Elements
    BY <2>1 DEF MissingCurrent
  <2>3. QED
    BY <1>4, <1>t, <2>1, <2>2, StartLockingType DEF lock_current, start_lock_current
<1>5. ASSUME NEW u \in Uploads, create(u) PROVE TypeOK'
  BY <1>5, <1>f DEF create
<1>6. ASSUME NEW u \in Uploads, LockRow(u) PROVE TypeOK'
  <2>1. queue[u] \in Seq(Elements) /\ queue[u] # <<>>
    BY <1>6, <1>t DEF LockRow, Waiting, TypeOK
  <2>2. Head(queue[u]) \in Elements /\ Tail(queue[u]) \in Seq(Elements)
    BY <2>1, Dequeued
  <2>3. queue' \in [Uploads -> Seq(Elements)]
    BY <1>6, <1>t, <2>2 DEF LockRow, TypeOK
  <2>4. missing' \in [Uploads -> SUBSET Elements]
    BY <1>6, <1>t, <2>2 DEF LockRow, TypeOK
  <2>5. locks' \subseteq [by: Uploads, row: Elements, mode: Modes]
    BY <1>6, <1>t, <2>2 DEF LockRow, TypeOK, ModeOf, Modes
  <2>6. QED
    BY <1>6, <1>t, <2>3, <2>4, <2>5 DEF LockRow, TypeOK
<1>7. ASSUME NEW u \in Uploads, Locked(u) PROVE TypeOK'
  <2>1. "not_found" \in Answers /\ "precondition_failed" \in Answers
    BY DEF Answers
  <2>2. QED
    BY <1>2, <1>7, <1>t, <2>1 DEF Locked, TypeOK, GoTo, Stages
<1>d. ASSUME NEW u \in Uploads, stage[u] \in InBatch, NEW S, Drop(u, S), NEW st \in Stages, GoTo(u, st),
             UNCHANGED <<db, changeset, at, queue, missing, locks, own, answer>>
      PROVE  TypeOK'
  <2>1. doc[u] \in Seq(Batch) /\ at[u] \in DOMAIN doc[u]
    BY <1>b, <1>d, <1>t DEF TypeOK
  <2>2. [doc[u] EXCEPT ![at[u]].items = @ \ S] \in Seq(Batch)
    BY <2>1, Dropped
  <2>3. doc' \in [Uploads -> Seq(Batch)]
    BY <1>d, <1>t, <2>2 DEF Drop, TypeOK
  <2>4. QED
    BY <1>d, <1>t, <2>3 DEF GoTo, TypeOK
<1>8. ASSUME NEW u \in Uploads, check(u) PROVE TypeOK'
  <2>1. stage[u] \in InBatch /\ at[u] \in DOMAIN doc[u]
    BY <1>8, <1>b DEF check, InBatch
  <2>2. "gone" \in Answers /\ "conflict" \in Answers /\ "referenced" \in Stages
    BY DEF Answers, Stages
  <2>3. QED
    BY <1>2, <1>8, <1>d, <1>f, <2>1, <2>2 DEF check
<1>9. ASSUME NEW u \in Uploads, referenced(u) PROVE TypeOK'
  <2>1. /\ stage[u] \in InBatch /\ "precondition_failed" \in Answers /\ "write" \in Stages
    BY <1>9 DEF referenced, InBatch, Answers, Stages
  <2>2. QED
    BY <1>2, <1>9, <1>d, <2>1 DEF referenced
<1>10. ASSUME NEW u \in Uploads, write(u) PROVE TypeOK'
  <2> DEFINE w == WriteBatch(Seen(u), batch(u))
             n == [e \in DOMAIN own[u] \cup Ids(batch(u).items) |-> w[e]]
  <2>1. at[u] \in DOMAIN doc[u]
    BY <1>10, <1>b DEF write, InBatch
  <2>2. batch(u) \in Batch /\ Ids(batch(u).items) \subseteq Elements
    BY <1>t, <2>1, BatchType
  <2>3. w \in [Elements -> Row]
    BY <1>t, <2>2, SeenType, WriteType
  <2>4. own' = [own EXCEPT ![u] = n]
    BY <1>10 DEF write
  <2> HIDE DEF w
  <2>5. DOMAIN n \in SUBSET Elements /\ n \in [DOMAIN n -> Row]
    BY <1>t, <2>2, <2>3, SeenType
  <2> HIDE DEF n
  <2>6. DOMAIN own' = Uploads /\ \A v \in Uploads :
            DOMAIN own'[v] \in SUBSET Elements /\ own'[v] \in [DOMAIN own'[v] -> Row]
    BY <1>t, <2>4, <2>5 DEF TypeOK
  <2>7. QED
    BY <1>10, <1>t, <2>6 DEF write, TypeOK, GoTo, Stages
<1>11. ASSUME NEW u \in Uploads, commit(u) PROVE TypeOK'
  BY <1>11, <1>t, SeenType, EndType DEF commit, Answers
<1>12. ASSUME NEW u \in Uploads, deadlock_detected(u) \/ connection_lost(u) PROVE TypeOK'
  BY <1>2, <1>12 DEF deadlock_detected, connection_lost, Answers
<1>13. QED
  BY <1>1, <1>3, <1>4, <1>5, <1>6, <1>7, <1>8, <1>9, <1>10, <1>11, <1>12 DEF Next, Step

(***************************************************************************)
(* Steps of one upload, and what they leave of the others                  *)
(***************************************************************************)
LEMMA CreatedEmpty == Created(<<>>) = {}
BY DEF Created

LEMMA MineType == ASSUME TypeOK, NEW u \in Uploads PROVE Mine(u) \subseteq Elements
<1>1. doc[u] \in Seq(Batch)
  BY DEF TypeOK
<1>2. \A k \in DOMAIN doc[u] : doc[u][k] \in Batch
  BY <1>1, LenProperties, ElementOfSeq
<1>3. \A k \in DOMAIN doc[u] : \A i \in doc[u][k].items : i.id \in Elements
  BY <1>2 DEF Batch, Item
<1>4. QED
  BY <1>3 DEF Mine, Created, Ids

\* Nothing of an upload has changed.
Same(v) ==
    /\ doc'[v] = doc[v] /\ at'[v] = at[v] /\ stage'[v] = stage[v]
    /\ queue'[v] = queue[v] /\ missing'[v] = missing[v] /\ own'[v] = own[v]
    /\ \A e, m : Has(v, e, m)' <=> Has(v, e, m)

LEMMA EndSame ==
    ASSUME TypeOK, NEW u \in Uploads, NEW code, End(u, code), NEW v \in Uploads, u # v
    PROVE  Same(v)
<1>1. \A e, m : Has(v, e, m)' <=> Has(v, e, m)
  BY DEF End, Has
<1>2. QED
  BY <1>1 DEF End, GoTo, Same, TypeOK

LEMMA OthersSame ==
    ASSUME TypeOK, NEW u \in Uploads, Step(u) \/ connection_lost(u), NEW v \in Uploads, u # v
    PROVE  Same(v)
<1>1. ASSUME NEW code, Throw(u, code) PROVE Same(v)
  BY <1>1, EndSame DEF Throw
<1>2. ASSUME NEW st, NEW S, NEW T, StartLocking(u, st, S, T) PROVE Same(v)
  BY <1>2 DEF StartLocking, GoTo, Same, TypeOK, Has
<1>3. CASE lock_current_changeset(u)
  <2>1. CASE Throw(u, "conflict")
    BY <1>1, <2>1
  <2>2. CASE /\ \E d \in Documents[u] : doc' = [doc EXCEPT ![u] = d]
             /\ GoTo(u, "batch")
             /\ UNCHANGED <<db, at, queue, missing, locks, own>>
    BY <2>2 DEF GoTo, Same, TypeOK, Has
  <2>3. QED
    BY <1>3, <2>1, <2>2 DEF lock_current_changeset
<1>4. CASE lock_current(u)
  BY <1>2, <1>4 DEF lock_current, start_lock_current
<1>5. CASE create(u)
  BY <1>2, <1>5 DEF create, start_lock_future
<1>6. CASE LockRow(u)
  <2>1. \A e, m : Has(v, e, m)' <=> Has(v, e, m)
    BY <1>6 DEF LockRow, Has
  <2>2. QED
    BY <1>6, <2>1 DEF LockRow, Same, TypeOK
<1>7. CASE Locked(u)
  <2>1. CASE \E code : Throw(u, code)
    BY <1>1, <2>1
  <2>2. CASE /\ \E st : GoTo(u, st)
             /\ UNCHANGED <<db, changeset, doc, at, queue, missing, locks, own, answer>>
    BY <2>2 DEF GoTo, Same, TypeOK, Has
  <2>3. QED
    BY <1>7, <2>1, <2>2 DEF Locked
<1>d. ASSUME NEW S, Drop(u, S), NEW st, GoTo(u, st),
             UNCHANGED <<db, changeset, at, queue, missing, locks, own, answer>>
      PROVE  Same(v)
  BY <1>d DEF Drop, GoTo, Same, TypeOK, Has
<1>8. CASE check(u)
  BY <1>1, <1>2, <1>8, <1>d DEF check, start_lock_future
<1>9. CASE referenced(u)
  BY <1>1, <1>9, <1>d DEF referenced
<1>10. CASE write(u)
  BY <1>10 DEF write, GoTo, Same, TypeOK, Has
<1>11. CASE commit(u)
  BY <1>11, EndSame DEF commit
<1>12. CASE deadlock_detected(u) \/ connection_lost(u)
  BY <1>1, <1>12 DEF deadlock_detected, connection_lost
<1>13. QED
  BY <1>3, <1>4, <1>5, <1>6, <1>7, <1>8, <1>9, <1>10, <1>11, <1>12 DEF Step

LEMMA LocksFrame ==
    ASSUME NEW v \in Uploads, LocksOK(v), Same(v), UNCHANGED db
    PROVE  LocksOK(v)'
<1> USE DEF Same, Running, Mine
<1>1. Quiet(v)' /\ OwnLocked(v)'
  BY DEF LocksOK, Quiet, OwnLocked
<1>2. AtBatch(v)' /\ CurrentLocked(v)'
  BY DEF LocksOK, AtBatch, CurrentLocked, batch, Queued
<1>3. RowsKnown(v)'
  BY DEF LocksOK, RowsKnown, Queued
<1>4. QED
  BY <1>1, <1>2, <1>3 DEF LocksOK

\* What one upload holds, another one has not written.
LEMMA Apart ==
    ASSUME LocksInv, NEW u \in Uploads, NEW v \in Uploads, u # v, Running(u),
           NEW e \in Elements, Holds(u, e)
    PROVE  e \notin DOMAIN own[v]
<1> SUFFICES ASSUME e \in DOMAIN own[v] PROVE FALSE
  OBVIOUS
<1>1. Running(v)
  BY DEF LocksInv, LocksOK, Quiet
<1>2. e \in Mine(v) \/ Has(v, e, "update")
  BY DEF LocksInv, LocksOK, OwnLocked
<1>3. Mine(u) \cap Mine(v) = {}
  BY DEF LocksInv, LocksShared, NewApart
<1>4. CASE e \in Mine(u)
  <2>1. Has(v, e, "update") /\ ~Exists(db, e)
    BY <1>2, <1>3, <1>4 DEF LocksInv, LocksOK, RowsKnown
  <2>2. Exists(db, e) \/ e \in Mine(v)
    BY <2>1 DEF LocksInv, LocksOK, RowsKnown, Modes
  <2>3. QED
    BY <1>3, <1>4, <2>1, <2>2
<1>5. ASSUME NEW m \in Modes, Has(u, e, m) PROVE FALSE
  <2>1. ~Has(v, e, "update")
    BY <1>5 DEF LocksInv, LocksShared, Exclusive
  <2>2. e \in Mine(v) /\ ~Exists(db, e)
    BY <1>1, <1>2, <2>1 DEF LocksInv, LocksOK, RowsKnown
  <2>3. Exists(db, e) \/ e \in Mine(u)
    BY <1>5 DEF LocksInv, LocksOK, RowsKnown
  <2>4. QED
    BY <1>3, <2>2, <2>3
<1>6. QED
  BY <1>4, <1>5 DEF Holds

\* What an upload sees is there already, or its own creation.
LEMMA SeenKnown ==
    ASSUME LocksInv, NEW u \in Uploads, NEW e \in Elements
    PROVE  /\ Exists(Seen(u), e) => Exists(db, e) \/ e \in Mine(u)
           /\ Seen(u)[e].visible => Exists(Seen(u), e)
           /\ Exists(db, e) => Exists(Seen(u), e)
<1>1. Seen(u)[e] = IF e \in DOMAIN own[u] THEN own[u][e] ELSE db[e]
  BY SeenType DEF LocksInv
<1>2. CASE e \in DOMAIN own[u]
  <2>1. own[u][e].version > 0 /\ (e \in Mine(u) \/ Has(u, e, "update"))
    BY <1>2 DEF LocksInv, LocksOK, OwnLocked
  <2>2. Exists(db, e) \/ e \in Mine(u)
    BY <2>1 DEF LocksInv, LocksOK, RowsKnown, Modes
  <2>3. QED
    BY <1>1, <1>2, <2>1, <2>2 DEF Exists
<1>3. CASE e \notin DOMAIN own[u]
  <2>1. db[e].visible => Exists(db, e)
    BY DEF LocksInv, LocksShared, VisibleExist
  <2>2. QED
    BY <1>1, <1>3, <2>1 DEF Exists
<1>4. QED
  BY <1>2, <1>3

\* Nothing is new to what uploads have in common.
LEMMA SharedKeep ==
    ASSUME LocksShared, UNCHANGED db,
           \A v \in Uploads : Mine(v)' = Mine(v),
           \A v \in Uploads, e \in Elements, m \in Modes : Has(v, e, m)' => Has(v, e, m)
    PROVE  LocksShared'
<1>1. Exclusive'
  BY DEF LocksShared, Exclusive, Modes
<1>2. NewApart' /\ VisibleExist'
  BY DEF LocksShared, NewApart, VisibleExist, Exists
<1>3. Origin'
  BY DEF LocksShared, Origin, Exists
<1>4. QED
  BY <1>1, <1>2, <1>3 DEF LocksShared

LEMMA EndLocks ==
    ASSUME TypeOK, NEW u \in Uploads, NEW code, End(u, code)
    PROVE  /\ LocksOK(u)'
           /\ \A v \in Uploads : Mine(v)' = Mine(v)
           /\ \A v \in Uploads, e \in Elements, m \in Modes : Has(v, e, m)' => Has(v, e, m)
<1>1. /\ stage'[u] = "end" /\ queue'[u] = <<>> /\ own'[u] = <<>>
      /\ doc' = doc
  BY DEF End, GoTo, TypeOK
<1>2. \A e \in Elements, m \in Modes : ~Has(u, e, m)'
  BY DEF End, Has
<1>3. \A v \in Uploads, e \in Elements, m \in Modes : Has(v, e, m)' => Has(v, e, m)
  BY DEF End, Has
<1>4. Quiet(u)'
  BY <1>1, <1>2, EmptyOwn DEF Quiet, Running
<1>5. RowsKnown(u)'
  BY <1>1, <1>2 DEF RowsKnown, Running, Queued
<1>6. OwnLocked(u)'
  BY <1>1, EmptyOwn DEF OwnLocked
<1>7. AtBatch(u)' /\ CurrentLocked(u)'
  BY <1>1 DEF AtBatch, CurrentLocked, InBatch
<1>8. QED
  BY <1>1, <1>3, <1>4, <1>5, <1>6, <1>7 DEF LocksOK, Mine

\* lock_current_changeset: nobody has the ids of the new document.
LEMMA StartLocks ==
    ASSUME LocksInv, NEW u \in Uploads, stage[u] = "idle",
           NEW d \in Documents[u], NewIds(u, d), doc' = [doc EXCEPT ![u] = d],
           GoTo(u, "batch"), UNCHANGED <<db, at, queue, missing, locks, own>>
    PROVE  LocksOK(u)' /\ LocksShared'
<1> USE DEF LocksInv
<1>1. stage'[u] = "batch" /\ doc'[u] = d /\ \A v \in Uploads \ {u} : doc'[v] = doc[v]
  BY DEF GoTo, TypeOK
<1>2. Mine(u) = {} /\ Mine(u)' = Created(d) /\ \A v \in Uploads \ {u} : Mine(v)' = Mine(v)
  BY <1>1, CreatedEmpty DEF LocksOK, Quiet, Mine
<1>3. /\ DOMAIN own[u] = {} /\ queue[u] = <<>>
      /\ \A e \in Elements, m \in Modes : ~Has(u, e, m)'
  BY DEF LocksOK, Quiet, Running, Has
<1>4. ASSUME NEW e \in Created(d) PROVE ~Exists(db, e)
  <2>1. PICK k \in DOMAIN d : d[k].op = "create" /\ e \in Ids(d[k].items)
    BY <1>4 DEF Created
  <2>2. PICK i \in d[k].items : i.id = e
    BY <2>1 DEF Ids
  <2>3. ~Exists(InitialRows, e)
    BY <2>1, <2>2, DocumentsAssumption
  <2>4. e \in Elements
    <3>1. d \in Seq(Batch)
      BY DocumentsAssumption
    <3>2. d[k] \in Batch
      BY <3>1, LenProperties, ElementOfSeq
    <3>3. QED
      BY <2>2, <3>2 DEF Batch, Item
  <2>5. \A v \in Uploads : e \notin Mine(v)
    BY <1>2, <1>4 DEF NewIds, Mine
  <2>6. QED
    BY <2>3, <2>4, <2>5 DEF LocksShared, Origin
<1>5. LocksOK(u)'
  <2>1. Quiet(u)' /\ AtBatch(u)' /\ CurrentLocked(u)'
    BY <1>1 DEF Quiet, AtBatch, CurrentLocked, Running, InBatch
  <2>2. OwnLocked(u)'
    BY <1>3 DEF OwnLocked
  <2>3. RowsKnown(u)'
    BY <1>2, <1>3, <1>4 DEF RowsKnown, Queued
  <2>4. QED
    BY <2>1, <2>2, <2>3 DEF LocksOK
<1>6. LocksShared'
  <2>1. Exclusive' /\ VisibleExist'
    BY DEF LocksShared, Exclusive, VisibleExist, Has, Exists
  <2>2. NewApart'
    BY <1>2 DEF LocksShared, NewApart, NewIds, Mine
  <2>3. Origin'
    BY <1>2 DEF LocksShared, Origin, Exists
  <2>4. QED
    BY <2>1, <2>2, <2>3 DEF LocksShared
<1>7. QED
  BY <1>5, <1>6

\* Locks and rows stay as they are when a locking statement starts.
LEMMA LockingLocks ==
    ASSUME LocksInv, NEW u \in Uploads, Running(u), NEW st \in {"lock_current", "lock_future"},
           NEW wanted \in SUBSET Elements, NEW notfound,
           StartLocking(u, st, wanted, notfound),
           \A e \in wanted \ notfound : Exists(db, e) \/ e \in Mine(u),
           at[u] \in DOMAIN doc[u],
           st = "lock_current" => batch(u).op # "create" /\ wanted = Ids(batch(u).items),
           st = "lock_future" =>
               /\ batch(u).op # "delete"
               /\ batch(u).op # "create" => \A e \in Ids(batch(u).items) : Has(u, e, "update")
    PROVE  LocksOK(u)' /\ LocksShared'
<1> USE DEF LocksInv
<1>1. PICK order \in SetToSeqs(wanted \ notfound) : queue' = [queue EXCEPT ![u] = order]
  BY DEF StartLocking
<1>2. /\ stage'[u] = st /\ queue'[u] = order /\ missing'[u] = notfound
      /\ doc' = doc /\ at' = at /\ locks' = locks /\ db' = db /\ own' = own
  BY <1>1 DEF StartLocking, GoTo, TypeOK
<1>3. /\ \A k \in DOMAIN order : order[k] \in wanted \ notfound
      /\ \A e \in wanted \ notfound : \E k \in DOMAIN order : order[k] = e
  BY SeqOfSet
<1>4. /\ \A v \in Uploads : Mine(v)' = Mine(v)
      /\ batch(u)' = batch(u) /\ Running(u)'
      /\ \A v, e, m : Has(v, e, m)' <=> Has(v, e, m)
  BY <1>2 DEF Mine, batch, Running, Has
<1>5. LocksShared'
  BY <1>2, <1>4, SharedKeep
<1>6. Quiet(u)' /\ AtBatch(u)'
  BY <1>2, <1>4 DEF Quiet, AtBatch
<1>7. OwnLocked(u)'
  BY <1>2, <1>4 DEF LocksOK, OwnLocked
<1>8. RowsKnown(u)'
  BY <1>2, <1>3, <1>4 DEF LocksOK, RowsKnown, Queued, Exists
<1>9. CurrentLocked(u)'
  BY <1>2, <1>3, <1>4 DEF CurrentLocked, Queued
<1>10. QED
  BY <1>5, <1>6, <1>7, <1>8, <1>9 DEF LocksOK

LEMMA LockRowLocks ==
    ASSUME LocksInv, NEW u \in Uploads, LockRow(u)
    PROVE  LocksOK(u)' /\ LocksShared'
<1> USE DEF LocksInv
<1> DEFINE e == Head(queue[u])
           mode == ModeOf(stage[u])
<1>1. /\ stage[u] \in {"lock_current", "lock_future"}
      /\ queue[u] \in Seq(Elements) /\ queue[u] # <<>>
  BY DEF LockRow, Waiting, TypeOK
<1>2. /\ e \in Elements /\ Queued(u, e)
      /\ \A k \in DOMAIN Tail(queue[u]) : Queued(u, Tail(queue[u])[k])
      /\ \A f : Queued(u, f) => f = e \/ \E k \in DOMAIN Tail(queue[u]) : Tail(queue[u])[k] = f
  BY <1>1, Dequeued DEF Queued
<1>3. /\ stage' = stage /\ doc' = doc /\ at' = at /\ db' = db /\ own' = own
      /\ queue'[u] = Tail(queue[u]) /\ missing[u] \subseteq missing'[u]
      /\ locks' = locks \cup {[by |-> u, row |-> e, mode |-> mode]}
  BY DEF LockRow, TypeOK
<1>4. /\ \A v \in Uploads : Mine(v)' = Mine(v)
      /\ batch(u)' = batch(u) /\ Running(u)' /\ Running(u)
      /\ \A v, f, m : Has(v, f, m)' <=> Has(v, f, m) \/ (v = u /\ f = e /\ m = mode)
  BY <1>1, <1>3 DEF Mine, batch, Running, Has
<1>5. \A v \in Uploads, m \in Modes : v # u /\ Has(v, e, m) => m # "update" /\ mode # "update"
  BY DEF LockRow, Free, Blocking, Has
<1>6. mode \in Modes /\ (stage[u] = "lock_current" => mode = "update")
  BY DEF ModeOf, Modes
<1> HIDE DEF e, mode
<1>7. Exclusive'
  <2> SUFFICES ASSUME NEW v \in Uploads, NEW w \in Uploads, NEW f \in Elements, NEW m \in Modes,
                      v # w, Has(v, f, "update")', Has(w, f, m)'
               PROVE  FALSE
    BY DEF Exclusive
  <2>1. ~(Has(v, f, "update") /\ Has(w, f, m))
    BY DEF LocksShared, Exclusive
  <2>2. QED
    BY <1>4, <1>5, <2>1 DEF Modes
<1>8. NewApart' /\ Origin' /\ VisibleExist'
  BY <1>3, <1>4 DEF LocksShared, NewApart, Origin, VisibleExist, Exists
<1>9. Quiet(u)' /\ AtBatch(u)'
  BY <1>3, <1>4 DEF LocksOK, Quiet, AtBatch, Running
<1>10. OwnLocked(u)'
  BY <1>3, <1>4 DEF LocksOK, OwnLocked
<1>11. RowsKnown(u)'
  <2>1. \A f \in Elements : Queued(u, f)' => Queued(u, f)
    BY <1>2, <1>3 DEF Queued
  <2>2. QED
    BY <1>2, <1>3, <1>4, <2>1 DEF LocksOK, RowsKnown, Exists
<1>12. CurrentLocked(u)'
  <2> SUFFICES ASSUME stage[u] \in InBatch, batch(u).op # "create", NEW f \in Ids(batch(u).items)
               PROVE  \/ Has(u, f, "update")'
                      \/ stage[u] = "lock_current" /\ (f \in missing'[u] \/ Queued(u, f)')
    BY <1>3, <1>4 DEF CurrentLocked
  <2>1. \/ Has(u, f, "update")
        \/ stage[u] = "lock_current" /\ (f \in missing[u] \/ Queued(u, f))
    BY DEF LocksOK, CurrentLocked
  <2>2. Queued(u, f) => f = e \/ Queued(u, f)'
    BY <1>2, <1>3 DEF Queued
  <2>3. QED
    BY <1>3, <1>4, <1>6, <2>1, <2>2
<1>13. QED
  BY <1>7, <1>8, <1>9, <1>10, <1>11, <1>12 DEF LocksOK, LocksShared

LEMMA LockedLocks ==
    ASSUME LocksInv, NEW u \in Uploads, stage[u] \in {"lock_current", "lock_future"},
           queue[u] = <<>>, missing[u] = {},
           GoTo(u, IF stage[u] = "lock_current" THEN "check" ELSE "write"),
           UNCHANGED <<db, doc, at, queue, missing, locks, own>>
    PROVE  LocksOK(u)' /\ LocksShared'
<1> USE DEF LocksInv
<1>1. stage'[u] = IF stage[u] = "lock_current" THEN "check" ELSE "write"
  BY DEF GoTo, TypeOK
<1>2. /\ \A v \in Uploads : Mine(v)' = Mine(v)
      /\ batch(u)' = batch(u) /\ Running(u)' /\ Running(u)
      /\ \A v, e, m : Has(v, e, m)' <=> Has(v, e, m)
      /\ \A e : ~Queued(u, e)
  BY <1>1 DEF Mine, batch, Running, Has, Queued
<1>3. LocksShared'
  BY <1>2, SharedKeep
<1>4. Quiet(u)' /\ AtBatch(u)'
  BY <1>1, <1>2 DEF LocksOK, Quiet, AtBatch, InBatch
<1>5. OwnLocked(u)'
  BY <1>2 DEF LocksOK, OwnLocked
<1>6. RowsKnown(u)'
  BY <1>2 DEF LocksOK, RowsKnown, Exists, Queued
<1>7. CurrentLocked(u)'
  BY <1>1, <1>2 DEF LocksOK, CurrentLocked, InBatch
<1>8. QED
  BY <1>3, <1>4, <1>5, <1>6, <1>7 DEF LocksOK

\* Items of a delete call are skipped.
LEMMA DropFacts ==
    ASSUME TypeOK, NEW u \in Uploads, at[u] \in DOMAIN doc[u], batch(u).op = "delete",
           NEW S, Drop(u, S), UNCHANGED at
    PROVE  /\ \A v \in Uploads : Mine(v)' = Mine(v)
           /\ DOMAIN doc'[u] = DOMAIN doc[u]
           /\ batch(u)'.op = batch(u).op /\ batch(u)'.items = batch(u).items \ S
           /\ \A k \in DOMAIN doc[u] : k # at[u] => doc'[u][k] = doc[u][k]
           /\ \A v \in Uploads \ {u} : doc'[v] = doc[v]
           /\ Ids(batch(u)'.items) \subseteq Ids(batch(u).items)
<1>1. doc[u] \in Seq(Batch)
  BY DEF TypeOK
<1>2. doc'[u] = [doc[u] EXCEPT ![at[u]].items = @ \ S] /\ \A v \in Uploads \ {u} : doc'[v] = doc[v]
  BY DEF Drop, TypeOK
<1>3. /\ DOMAIN doc'[u] = DOMAIN doc[u]
      /\ doc'[u][at[u]].op = doc[u][at[u]].op
      /\ doc'[u][at[u]].items = doc[u][at[u]].items \ S
      /\ \A k \in DOMAIN doc[u] : k # at[u] => doc'[u][k] = doc[u][k]
  <2> DEFINE d == doc[u]
             n == doc'[u]
             k == at[u]
  <2>1. d \in Seq(Batch) /\ k \in DOMAIN d /\ n = [d EXCEPT ![k].items = @ \ S]
    BY <1>1, <1>2
  <2> HIDE DEF d, n, k
  <2>2. /\ DOMAIN n = DOMAIN d
        /\ n[k].op = d[k].op /\ n[k].items = d[k].items \ S
        /\ \A j \in DOMAIN d : j # k => n[j] = d[j]
    <3>1. d \in [1..Len(d) -> Batch] /\ DOMAIN d = 1..Len(d) /\ d[k] \in Batch
      BY <2>1, LenProperties, ElementOfSeq
    <3>2. QED
      BY <2>1, <3>1 DEF Batch
  <2>3. QED
    BY <2>2 DEF d, n, k
<1>4. {k \in DOMAIN doc'[u] : doc'[u][k].op = "create"} = {k \in DOMAIN doc[u] : doc[u][k].op = "create"}
  BY <1>3
<1>5. \A k \in DOMAIN doc[u] : doc[u][k].op = "create" => doc'[u][k] = doc[u][k]
  BY <1>3 DEF batch
<1>6. Mine(u)' = Mine(u)
  BY <1>4, <1>5 DEF Mine, Created
<1>7. QED
  BY <1>2, <1>3, <1>6 DEF Mine, batch, Ids

LEMMA DropLocks ==
    ASSUME LocksInv, NEW u \in Uploads, stage[u] \in {"check", "referenced"}, batch(u).op = "delete",
           NEW st \in {"referenced", "write"}, GoTo(u, st), NEW S, Drop(u, S),
           UNCHANGED <<db, at, queue, missing, locks, own>>
    PROVE  LocksOK(u)' /\ LocksShared'
<1> USE DEF LocksInv
<1>1. stage'[u] = st /\ Running(u) /\ Running(u)' /\ \A v, e, m : Has(v, e, m)' <=> Has(v, e, m)
  BY DEF GoTo, TypeOK, Running, Has
<1>2. at[u] \in DOMAIN doc[u]
  BY DEF LocksOK, AtBatch, InBatch
<1>3. /\ \A v \in Uploads : Mine(v)' = Mine(v)
      /\ DOMAIN doc'[u] = DOMAIN doc[u]
      /\ batch(u)'.op = "delete" /\ Ids(batch(u)'.items) \subseteq Ids(batch(u).items)
  BY <1>2, DropFacts
<1>4. LocksShared'
  BY <1>1, <1>3, SharedKeep
<1>5. Quiet(u)' /\ AtBatch(u)'
  BY <1>1, <1>2, <1>3 DEF Quiet, AtBatch, InBatch
<1>6. OwnLocked(u)'
  BY <1>1, <1>3 DEF LocksOK, OwnLocked
<1>7. RowsKnown(u)'
  BY <1>1, <1>3 DEF LocksOK, RowsKnown, Exists, Queued
<1>8. CurrentLocked(u)'
  BY <1>1, <1>3 DEF LocksOK, CurrentLocked, InBatch
<1>9. QED
  BY <1>4, <1>5, <1>6, <1>7, <1>8 DEF LocksOK

LEMMA WriteLocks ==
    ASSUME LocksInv, NEW u \in Uploads, write(u)
    PROVE  LocksOK(u)' /\ LocksShared'
<1> USE DEF LocksInv
<1> DEFINE w == WriteBatch(Seen(u), batch(u))
           ids == Ids(batch(u).items)
<1>1. stage[u] = "write" /\ stage'[u] = "batch" /\ UNCHANGED <<db, doc, queue, locks>>
  BY DEF write, GoTo, TypeOK
<1>2. at[u] \in DOMAIN doc[u] /\ Running(u) /\ Running(u)'
  BY <1>1 DEF LocksOK, AtBatch, InBatch, Running
<1>3. batch(u) \in Batch /\ ids \subseteq Elements /\ Seen(u) \in [Elements -> Row]
  BY <1>2, BatchType, SeenType
<1>4. DOMAIN own'[u] = DOMAIN own[u] \cup ids /\ \A e \in DOMAIN own[u] \cup ids : own'[u][e] = w[e]
  BY DEF write, TypeOK
<1>5. /\ \A v \in Uploads : Mine(v)' = Mine(v)
      /\ \A v, e, m : Has(v, e, m)' <=> Has(v, e, m)
  BY <1>1 DEF Mine, Has
<1>6. ASSUME NEW e \in ids PROVE w[e].version > 0 /\ (e \in Mine(u) \/ Has(u, e, "update"))
  <2>1. PICK i \in batch(u).items : w[e] = Written(batch(u).op, i, Seen(u)[e])
    BY <1>3, <1>6, WriteType
  <2>2. Seen(u)[e].version \in Nat /\ batch(u).op \in {"create", "modify", "delete"}
    BY <1>3, <1>6 DEF Row, Batch
  <2>3. w[e].version > 0
    BY <2>1, <2>2 DEF Written
  <2>4. CASE batch(u).op = "create"
    BY <1>2, <1>6, <2>3, <2>4 DEF Mine, Created, batch
  <2>5. CASE batch(u).op # "create"
    BY <1>1, <1>6, <2>3, <2>5 DEF LocksOK, CurrentLocked, InBatch
  <2>6. QED
    BY <2>4, <2>5
<1>7. ASSUME NEW e \in DOMAIN own[u], e \notin ids
      PROVE  w[e].version > 0 /\ (e \in Mine(u) \/ Has(u, e, "update"))
  <2>1. e \in Elements /\ Seen(u)[e] = own[u][e]
    BY <1>7, SeenType
  <2>2. w[e] = own[u][e]
    BY <1>3, <1>7, <2>1, WriteType
  <2>3. QED
    BY <2>2 DEF LocksOK, OwnLocked
<1> HIDE DEF w, ids
<1>8. OwnLocked(u)'
  BY <1>4, <1>5, <1>6, <1>7 DEF OwnLocked
<1>9. LocksShared'
  BY <1>1, <1>5, SharedKeep
<1>10. Quiet(u)' /\ AtBatch(u)' /\ CurrentLocked(u)'
  BY <1>1, <1>2 DEF Quiet, AtBatch, CurrentLocked, InBatch
<1>11. RowsKnown(u)'
  BY <1>1, <1>2, <1>5 DEF LocksOK, RowsKnown, Exists, Queued
<1>12. QED
  BY <1>8, <1>9, <1>10, <1>11 DEF LocksOK

\* Rows that are committed are the upload's own: the others keep theirs.
LEMMA CommitRows ==
    ASSUME LocksInv, NEW u \in Uploads, commit(u)
    PROVE  /\ \A e \in Elements : db'[e] = IF e \in DOMAIN own[u] THEN own[u][e] ELSE db[e]
           /\ Running(u)
           /\ \A e \in Elements : Exists(db, e) => Exists(db', e)
<1>1. db' = Seen(u) /\ Running(u)
  BY DEF commit, Running
<1>2. QED
  BY <1>1, SeenType, SeenKnown DEF LocksInv, Exists

LEMMA CommitLocks ==
    ASSUME LocksInv, NEW u \in Uploads, commit(u)
    PROVE  LocksShared' /\ \A v \in Uploads : LocksOK(v)'
<1>1. /\ LocksOK(u)'
      /\ \A v \in Uploads : Mine(v)' = Mine(v)
      /\ \A v \in Uploads, e \in Elements, m \in Modes : Has(v, e, m)' => Has(v, e, m)
  BY EndLocks DEF commit, LocksInv
<1>2. LocksShared'
  <2>1. Exclusive'
    BY <1>1 DEF LocksInv, LocksShared, Exclusive, Modes
  <2>2. NewApart'
    BY <1>1 DEF LocksInv, LocksShared, NewApart
  <2>3. \A e \in Elements : Exists(db', e) => Exists(db, e) \/ e \in Mine(u)
    BY SeenKnown DEF commit
  <2>4. Origin'
    BY <1>1, <2>3 DEF LocksInv, LocksShared, Origin, Exists
  <2>5. VisibleExist'
    BY SeenKnown DEF VisibleExist, commit, Exists
  <2>6. QED
    BY <2>1, <2>2, <2>4, <2>5 DEF LocksShared
<1>3. ASSUME NEW v \in Uploads, v # u PROVE LocksOK(v)'
  <2>1. Same(v) /\ LocksOK(v)
    BY <1>3, OthersSame DEF Step, LocksInv
  <2>2. Quiet(v)' /\ OwnLocked(v)'
    BY <2>1 DEF Same, LocksOK, Quiet, OwnLocked, Running, Mine
  <2>3. AtBatch(v)' /\ CurrentLocked(v)'
    BY <2>1 DEF Same, LocksOK, AtBatch, CurrentLocked, batch, Queued
  <2>4. ASSUME Running(v), NEW e \in Mine(v) PROVE ~Exists(db', e)
    <3>1. e \in Elements /\ Holds(v, e)
      BY <2>4, MineType DEF LocksInv, Holds
    <3>2. e \notin DOMAIN own[u]
      BY <1>3, <2>4, <3>1, Apart
    <3>3. db'[e] = db[e]
      BY <3>1, <3>2, CommitRows
    <3>4. QED
      BY <2>1, <2>4, <3>3 DEF LocksOK, RowsKnown, Exists
  <2>5. RowsKnown(v)'
    <3>1. Mine(v)' = Mine(v) /\ (Running(v)' <=> Running(v))
          /\ (\A e : Queued(v, e)' <=> Queued(v, e)) /\ \A e, m : Has(v, e, m)' <=> Has(v, e, m)
      BY <2>1 DEF Same, Mine, Running, Queued
    <3>2. \A e \in Elements : Exists(db, e) => Exists(db', e)
      BY CommitRows
    <3>3. QED
      BY <2>1, <2>4, <3>1, <3>2 DEF LocksOK, RowsKnown, Exists
  <2>6. QED
    BY <2>2, <2>3, <2>5 DEF LocksOK
<1>4. QED
  BY <1>1, <1>2, <1>3

LEMMA LocksInit == Init => LocksInv
<1> SUFFICES ASSUME Init PROVE LocksInv
  OBVIOUS
<1>1. TypeOK
  BY TypeInit
<1>2. /\ \A u \in Uploads : Mine(u) = {}
      /\ \A u, e, m : ~Has(u, e, m)
      /\ \A u \in Uploads : \A e : ~Queued(u, e)
      /\ \A u \in Uploads : stage[u] = "idle" /\ doc[u] = <<>> /\ queue[u] = <<>> /\ DOMAIN own[u] = {}
  BY CreatedEmpty, EmptyOwn DEF Init, Mine, Has, Queued
<1>3. LocksShared
  BY <1>2, InitialRowsAssumption
     DEF Init, LocksShared, Exclusive, NewApart, Origin, VisibleExist, Modes
<1>4. \A u \in Uploads : LocksOK(u)
  BY <1>2 DEF LocksOK, Quiet, RowsKnown, OwnLocked, AtBatch, CurrentLocked, Running, InBatch
<1>5. QED
  BY <1>1, <1>3, <1>4 DEF LocksInv

LEMMA LocksStep == ASSUME LocksInv, [Next]_vars PROVE LocksInv'
<1>t. TypeOK /\ TypeOK'
  BY TypeStep DEF LocksInv
<1>1. CASE UNCHANGED vars
  <2>1. \A v \in Uploads : Same(v)
    BY <1>1 DEF vars, progress, Same, Has
  <2>2. \A v \in Uploads : LocksOK(v)'
    BY <1>1, <2>1, LocksFrame DEF vars, LocksInv
  <2>3. (\A v \in Uploads : Mine(v)' = Mine(v))
        /\ \A v \in Uploads, e \in Elements, m \in Modes : Has(v, e, m)' => Has(v, e, m)
    BY <1>1 DEF vars, progress, Mine, Has
  <2>4. LocksShared'
    BY <1>1, <2>3, SharedKeep DEF vars, LocksInv
  <2>5. QED
    BY <1>t, <2>2, <2>4 DEF LocksInv
<1>2. ASSUME NEW u \in Uploads, Step(u) \/ connection_lost(u), UNCHANGED db, LocksOK(u)', LocksShared'
      PROVE  LocksInv'
  <2>1. ASSUME NEW v \in Uploads, v # u PROVE LocksOK(v)'
    BY <1>2, <1>t, <2>1, OthersSame, LocksFrame DEF LocksInv
  <2>2. QED
    BY <1>2, <1>t, <2>1 DEF LocksInv
<1>3. ASSUME NEW u \in Uploads, NEW code, Throw(u, code) PROVE LocksOK(u)' /\ LocksShared' /\ UNCHANGED db
  BY <1>3, <1>t, EndLocks, SharedKeep DEF Throw, LocksInv
<1>4. ASSUME NEW u \in Uploads, lock_current_changeset(u)
      PROVE  LocksOK(u)' /\ LocksShared' /\ UNCHANGED db
  <2>1. CASE Throw(u, "conflict")
    BY <1>3, <2>1
  <2>2. CASE /\ \E d \in Documents[u] : NewIds(u, d) /\ doc' = [doc EXCEPT ![u] = d]
             /\ GoTo(u, "batch")
             /\ UNCHANGED <<db, at, queue, missing, locks, own>>
    BY <1>4, <2>2, StartLocks DEF lock_current_changeset
  <2>3. QED
    BY <1>4, <2>1, <2>2 DEF lock_current_changeset
<1>f. ASSUME NEW u \in Uploads, Running(u), at[u] \in DOMAIN doc[u], batch(u).op # "delete",
             batch(u).op # "create" => \A e \in Ids(batch(u).items) : Has(u, e, "update"),
             start_lock_future(u)
      PROVE  LocksOK(u)' /\ LocksShared' /\ UNCHANGED db
  <2>1. FutureMembers(batch(u)) \subseteq Elements
    BY <1>f, <1>t, BatchType
  <2>2. \A e \in FutureMembers(batch(u)) \ MissingFuture(Seen(u), batch(u)) :
            Exists(db, e) \/ e \in Mine(u)
    BY <2>1, SeenKnown DEF MissingFuture
  <2>3. UNCHANGED db
    BY <1>f DEF start_lock_future, StartLocking
  <2>4. QED
    BY <1>f, <2>1, <2>2, <2>3, LockingLocks DEF start_lock_future
<1>5. ASSUME NEW u \in Uploads, lock_current(u) PROVE LocksOK(u)' /\ LocksShared' /\ UNCHANGED db
  <2>1. Ids(batch(u).items) \subseteq Elements
    BY <1>5, <1>t, BatchType DEF lock_current, start_lock_current
  <2>2. \A e \in Ids(batch(u).items) \ MissingCurrent(Seen(u), batch(u)) :
            Exists(db, e) \/ e \in Mine(u)
    BY <2>1, SeenKnown DEF MissingCurrent
  <2>3. UNCHANGED db
    BY <1>5 DEF lock_current, start_lock_current, StartLocking
  <2>4. QED
    BY <1>5, <2>1, <2>2, <2>3, LockingLocks DEF lock_current, start_lock_current, Running
<1>6. ASSUME NEW u \in Uploads, create(u) PROVE LocksOK(u)' /\ LocksShared' /\ UNCHANGED db
  BY <1>6, <1>f DEF create, Running
<1>7. ASSUME NEW u \in Uploads, LockRow(u) PROVE LocksOK(u)' /\ LocksShared' /\ UNCHANGED db
  BY <1>7, LockRowLocks DEF LockRow
<1>8. ASSUME NEW u \in Uploads, Locked(u) PROVE LocksOK(u)' /\ LocksShared' /\ UNCHANGED db
  BY <1>3, <1>8, LockedLocks DEF Locked
<1>9. ASSUME NEW u \in Uploads, check(u) PROVE LocksOK(u)' /\ LocksShared' /\ UNCHANGED db
  <2>1. CASE \E code : Throw(u, code)
    BY <1>3, <2>1
  <2>2. CASE batch(u).op = "modify" /\ start_lock_future(u)
    <3>1. stage[u] = "check" /\ Running(u) /\ at[u] \in DOMAIN doc[u]
      BY <1>9 DEF check, Running, LocksInv, LocksOK, AtBatch, InBatch
    <3>2. \A e \in Ids(batch(u).items) : Has(u, e, "update")
      BY <2>2, <3>1 DEF LocksInv, LocksOK, CurrentLocked, InBatch
    <3>3. QED
      BY <1>f, <2>2, <3>1, <3>2
  <2>3. CASE /\ batch(u).op = "delete" /\ GoTo(u, "referenced") /\ \E S : Drop(u, S)
             /\ UNCHANGED <<db, changeset, at, queue, missing, locks, own, answer>>
    BY <1>9, <2>3, DropLocks DEF check
  <2>4. QED
    BY <1>9, <2>1, <2>2, <2>3 DEF check
<1>10. ASSUME NEW u \in Uploads, referenced(u) PROVE LocksOK(u)' /\ LocksShared' /\ UNCHANGED db
  <2>1. CASE \E code : Throw(u, code)
    BY <1>3, <2>1
  <2>2. CASE /\ GoTo(u, "write") /\ \E S : Drop(u, S)
             /\ UNCHANGED <<db, changeset, at, queue, missing, locks, own, answer>>
    <3>1. stage[u] = "referenced" /\ batch(u).op = "delete"
      BY <1>10 DEF referenced, LocksInv, LocksOK, AtBatch, InBatch
    <3>2. QED
      BY <2>2, <3>1, DropLocks
  <2>3. QED
    BY <1>10, <2>1, <2>2 DEF referenced
<1>11. ASSUME NEW u \in Uploads, write(u) PROVE LocksOK(u)' /\ LocksShared' /\ UNCHANGED db
  BY <1>11, WriteLocks DEF write
<1>12. ASSUME NEW u \in Uploads, deadlock_detected(u) \/ connection_lost(u)
       PROVE  LocksOK(u)' /\ LocksShared' /\ UNCHANGED db
  BY <1>3, <1>12 DEF deadlock_detected, connection_lost
<1>13. ASSUME NEW u \in Uploads, commit(u) PROVE LocksInv'
  BY <1>13, <1>t, CommitLocks DEF LocksInv
<1>14. ASSUME NEW u \in Uploads, Step(u) \/ connection_lost(u) PROVE LocksInv'
  BY <1>2, <1>4, <1>5, <1>6, <1>7, <1>8, <1>9, <1>10, <1>11, <1>12, <1>13, <1>14 DEF Step
<1>15. QED
  BY <1>1, <1>14 DEF Next

(***************************************************************************)
(* Versions                                                                *)
(***************************************************************************)
\* Counted from the committed rows: the version of what an upload sees, and
\* the versions its earlier calls have named.
Counted(u) ==
    \A e \in Elements \ Mine(u) :
        /\ Seen(u)[e].version = db[e].version + Cardinality(WrittenBefore(u, at[u], e))
        /\ e \notin DOMAIN own[u] => WrittenBefore(u, at[u], e) = {}
        /\ \A k \in DOMAIN doc[u] : k < at[u] =>
              \A i \in doc[u][k].items : i.id = e =>
                  i.version = db[e].version + Cardinality(WrittenBefore(u, k, e))

\* check_current_*_versions has been passed, and that still counts.
Checked(u) ==
    (stage[u] \in {"referenced", "lock_future", "write"} /\ batch(u).op # "create") =>
        ~VersionsDiffer(Seen(u), batch(u).items)

VersionsOK(u) ==
    /\ stage[u] = "idle" => at[u] = 1
    /\ Running(u) => Counted(u)
    /\ Checked(u)

VersionsInv == \A u \in Uploads : VersionsOK(u)

LEMMA WrittenSame ==
    ASSUME NEW u \in Uploads, NEW n,
           DOMAIN doc'[u] = DOMAIN doc[u],
           \A k \in DOMAIN doc[u] : k < n => doc'[u][k] = doc[u][k],
           NEW k \in Nat, n \in Nat, DOMAIN doc[u] \subseteq Nat, k <= n, NEW e
    PROVE  WrittenBefore(u, k, e)' = WrittenBefore(u, k, e)
<1>1. \A j \in DOMAIN doc[u] : j < k => j < n
  OBVIOUS
<1>2. QED
  BY <1>1 DEF WrittenBefore

LEMMA DocDomain ==
    ASSUME TypeOK, NEW u \in Uploads
    PROVE  /\ DOMAIN doc[u] \subseteq Nat /\ IsFiniteSet(DOMAIN doc[u]) /\ at[u] \in Nat \ {0}
           /\ \A k \in DOMAIN doc[u] : \A i \in doc[u][k].items : i.id \in Elements
<1>1. doc[u] \in Seq(Batch) /\ at[u] \in Nat \ {0}
  BY DEF TypeOK
<1>2. DOMAIN doc[u] = 1..Len(doc[u]) /\ Len(doc[u]) \in Nat
  BY <1>1, LenProperties
<1>3. \A k \in DOMAIN doc[u] : doc[u][k] \in Batch
  BY <1>1, <1>2, ElementOfSeq
<1>4. PICK n \in Nat : DOMAIN doc[u] = 1..n
  BY <1>2
<1>5. IsFiniteSet(1..n)
  BY FS_Interval
<1>6. DOMAIN doc[u] \subseteq Nat /\ IsFiniteSet(DOMAIN doc[u])
  BY <1>4, <1>5
<1>7. QED
  BY <1>1, <1>3, <1>6 DEF Batch, Item

\* A statement of the upload that writes nothing.
LEMMA CountedKept ==
    ASSUME NEW u \in Uploads, UNCHANGED db,
           doc'[u] = doc[u], at'[u] = at[u], own'[u] = own[u]
    PROVE  /\ Counted(u) => Counted(u)'
           /\ Seen(u)' = Seen(u) /\ batch(u)' = batch(u)
<1>1. Seen(u)' = Seen(u) /\ batch(u)' = batch(u) /\ Mine(u)' = Mine(u)
  BY DEF Seen, batch, Mine
<1>2. \A k, e : WrittenBefore(u, k, e)' = WrittenBefore(u, k, e)
  BY DEF WrittenBefore
<1>3. QED
  BY <1>1, <1>2 DEF Counted

LEMMA VersionsKept ==
    ASSUME NEW u \in Uploads, VersionsOK(u), Running(u), Running(u)', UNCHANGED db,
           doc'[u] = doc[u], at'[u] = at[u], own'[u] = own[u], Checked(u)'
    PROVE  VersionsOK(u)'
BY CountedKept DEF VersionsOK, Running

LEMMA EndVersions ==
    ASSUME TypeOK, NEW u \in Uploads, NEW code, End(u, code)
    PROVE  VersionsOK(u)'
<1>1. stage'[u] = "end"
  BY DEF End, GoTo, TypeOK
<1>2. QED
  BY <1>1 DEF VersionsOK, Running, Checked

\* Another upload moves: the rows this one has written, or has compared
\* versions with, are locked by it and stay.
LEMMA OthersVersions ==
    ASSUME LocksInv, TypeOK', NEW u \in Uploads, NEW v \in Uploads, u # v, VersionsOK(v), Same(v),
           \/ UNCHANGED db
           \/ \A e \in Elements : e \notin DOMAIN own[u] => db'[e] = db[e]
    PROVE  VersionsOK(v)'
<1> USE DEF LocksInv
<1>1. \A e \in Elements : e \notin DOMAIN own[u] => db'[e] = db[e]
  OBVIOUS
<1>2. /\ doc'[v] = doc[v] /\ at'[v] = at[v] /\ own'[v] = own[v] /\ stage'[v] = stage[v]
      /\ Mine(v)' = Mine(v) /\ batch(v)' = batch(v)
      /\ \A k, e : WrittenBefore(v, k, e)' = WrittenBefore(v, k, e)
  BY DEF Same, Mine, batch, WrittenBefore
<1>3. \A e \in Elements : Seen(v)'[e] = IF e \in DOMAIN own[v] THEN own[v][e] ELSE db'[e]
  BY <1>2 DEF Seen
<1>4. \A e \in Elements : Seen(v)[e] = IF e \in DOMAIN own[v] THEN own[v][e] ELSE db[e]
  BY DEF Seen
<1>5. ASSUME Running(v), NEW e \in Elements, Has(v, e, "update")
      PROVE  db'[e] = db[e] /\ Seen(v)'[e] = Seen(v)[e]
  <2>1. e \notin DOMAIN own[u]
    BY <1>5, Apart DEF Holds, Modes
  <2>2. QED
    BY <1>1, <1>3, <1>4, <2>1
<1>6. ASSUME Running(v), NEW e \in Elements \ Mine(v), e \in DOMAIN own[v] PROVE Has(v, e, "update")
  BY <1>6 DEF LocksOK, OwnLocked
<1>7. ASSUME Running(v) PROVE Counted(v)'
  <2> SUFFICES ASSUME NEW e \in Elements \ Mine(v)
               PROVE  /\ Seen(v)'[e].version = db'[e].version + Cardinality(WrittenBefore(v, at[v], e))
                      /\ e \notin DOMAIN own[v] => WrittenBefore(v, at[v], e) = {}
                      /\ \A k \in DOMAIN doc[v] : k < at[v] =>
                            \A i \in doc[v][k].items : i.id = e =>
                                i.version = db'[e].version + Cardinality(WrittenBefore(v, k, e))
    BY <1>2 DEF Counted
  <2>1. Counted(v)
    BY <1>7 DEF VersionsOK
  <2>2. CASE e \in DOMAIN own[v]
    BY <1>5, <1>6, <1>7, <2>1, <2>2 DEF Counted
  <2>3. CASE e \notin DOMAIN own[v]
    <3>1. WrittenBefore(v, at[v], e) = {}
      BY <2>1, <2>3 DEF Counted
    <3>2. Seen(v)'[e].version = db'[e].version /\ db'[e].version \in Nat
      BY <1>3, <2>3 DEF TypeOK, Row
    <3>3. \A k \in DOMAIN doc[v] : k < at[v] => \A i \in doc[v][k].items : i.id # e
      BY <3>1 DEF WrittenBefore, Ids
    <3>4. Cardinality(WrittenBefore(v, at[v], e)) = 0
      BY <3>1, FS_EmptySet
    <3>5. QED
      BY <2>3, <3>1, <3>2, <3>3, <3>4
  <2>4. QED
    BY <2>2, <2>3
<1>8. Checked(v)'
  <2> SUFFICES ASSUME stage[v] \in {"referenced", "lock_future", "write"}, batch(v).op # "create",
                      NEW i \in batch(v).items
               PROVE  Seen(v)'[i.id].version = i.version
    BY <1>2 DEF Checked, VersionsDiffer
  <2>1. Running(v) /\ stage[v] \in InBatch /\ at[v] \in DOMAIN doc[v]
    BY DEF Running, InBatch, LocksOK, AtBatch
  <2>2. i.id \in Elements /\ i.id \in Ids(batch(v).items)
    BY <2>1, DocDomain DEF batch, Ids
  <2>3. Has(v, i.id, "update")
    BY <2>1, <2>2 DEF LocksOK, CurrentLocked
  <2>4. Seen(v)[i.id].version = i.version
    BY DEF VersionsOK, Checked, VersionsDiffer
  <2>5. QED
    BY <1>5, <2>1, <2>2, <2>3, <2>4
<1>9. QED
  BY <1>2, <1>7, <1>8 DEF VersionsOK, Running

\* Items are skipped: the ones that are left are those that were compared.
LEMMA DropVersions ==
    ASSUME LocksInv, NEW u \in Uploads, VersionsOK(u),
           stage[u] \in {"check", "referenced"}, batch(u).op = "delete",
           NEW st \in {"referenced", "write"}, GoTo(u, st), NEW S, Drop(u, S),
           ~VersionsDiffer(Seen(u), batch(u).items \ S),
           UNCHANGED <<db, at, own>>
    PROVE  VersionsOK(u)'
<1> USE DEF LocksInv
<1>1. stage'[u] = st /\ Running(u) /\ at[u] \in DOMAIN doc[u]
  BY DEF GoTo, TypeOK, Running, LocksOK, AtBatch, InBatch
<1>2. /\ Mine(u)' = Mine(u) /\ DOMAIN doc'[u] = DOMAIN doc[u]
      /\ batch(u)'.items = batch(u).items \ S
      /\ \A k \in DOMAIN doc[u] : k # at[u] => doc'[u][k] = doc[u][k]
  BY <1>1, DropFacts
<1>3. DOMAIN doc[u] \subseteq Nat /\ at[u] \in Nat
  BY DocDomain
<1>4. \A k \in Nat : k <= at[u] => \A e : WrittenBefore(u, k, e)' = WrittenBefore(u, k, e)
  BY <1>2, <1>3, WrittenSame
<1>5. Seen(u)' = Seen(u)
  BY DEF Seen
<1>6. Counted(u)
  BY <1>1 DEF VersionsOK
<1>7. Counted(u)'
  <2> SUFFICES ASSUME NEW e \in Elements \ Mine(u)
               PROVE  /\ Seen(u)[e].version = db[e].version + Cardinality(WrittenBefore(u, at[u], e)')
                      /\ e \notin DOMAIN own[u] => WrittenBefore(u, at[u], e)' = {}
                      /\ \A k \in DOMAIN doc[u] : k < at[u] =>
                            \A i \in doc'[u][k].items : i.id = e =>
                                i.version = db[e].version + Cardinality(WrittenBefore(u, k, e)')
    BY <1>2, <1>5 DEF Counted
  <2>1. WrittenBefore(u, at[u], e)' = WrittenBefore(u, at[u], e)
    BY <1>3, <1>4
  <2>2. \A k \in DOMAIN doc[u] : k < at[u] =>
            doc'[u][k] = doc[u][k] /\ WrittenBefore(u, k, e)' = WrittenBefore(u, k, e)
    BY <1>2, <1>3, <1>4
  <2>3. QED
    BY <1>6, <2>1, <2>2 DEF Counted
<1>8. QED
  BY <1>1, <1>2, <1>5, <1>7 DEF VersionsOK, Checked, Running

\* Rows are written, each one version on.
LEMMA WriteVersions ==
    ASSUME LocksInv, NEW u \in Uploads, VersionsOK(u), write(u)
    PROVE  VersionsOK(u)'
<1> USE DEF LocksInv
<1> DEFINE w == WriteBatch(Seen(u), batch(u))
           ids == Ids(batch(u).items)
<1>1. /\ stage[u] = "write" /\ stage'[u] = "batch" /\ at'[u] = at[u] + 1
      /\ db' = db /\ doc' = doc
  BY DEF write, GoTo, TypeOK
<1>2. at[u] \in DOMAIN doc[u] /\ Running(u) /\ Running(u)'
  BY <1>1 DEF LocksOK, AtBatch, InBatch, Running
<1>3. batch(u) \in Batch /\ ids \subseteq Elements /\ Seen(u) \in [Elements -> Row]
  BY <1>2, BatchType, SeenType
<1>4. DOMAIN own'[u] = DOMAIN own[u] \cup ids /\ \A e \in DOMAIN own[u] \cup ids : own'[u][e] = w[e]
  BY DEF write, TypeOK
<1>5. \A e \in Elements : Seen(u)'[e] = w[e]
  <2> SUFFICES ASSUME NEW e \in Elements PROVE Seen(u)'[e] = w[e]
    OBVIOUS
  <2>1. Seen(u)'[e] = IF e \in DOMAIN own'[u] THEN own'[u][e] ELSE db[e]
    BY <1>1 DEF Seen
  <2>2. CASE e \in DOMAIN own[u] \cup ids
    BY <1>4, <2>1, <2>2
  <2>3. CASE e \notin DOMAIN own[u] \cup ids
    <3>1. w[e] = Seen(u)[e] /\ Seen(u)[e] = db[e]
      BY <1>3, <2>3, WriteType, SeenType
    <3>2. QED
      BY <1>4, <2>1, <2>3, <3>1
  <2>4. QED
    BY <2>2, <2>3
<1>6. DOMAIN doc[u] \subseteq Nat /\ IsFiniteSet(DOMAIN doc[u]) /\ at[u] \in Nat
  BY DocDomain
<1>7. Counted(u) /\ Mine(u)' = Mine(u) /\ \A k, e : WrittenBefore(u, k, e)' = WrittenBefore(u, k, e)
  BY <1>1, <1>2 DEF VersionsOK, Mine, WrittenBefore
<1>8. ASSUME NEW e \in Elements \ Mine(u)
      PROVE  /\ w[e].version = db[e].version + Cardinality(WrittenBefore(u, at[u] + 1, e))
             /\ e \notin DOMAIN own[u] \cup ids => WrittenBefore(u, at[u] + 1, e) = {}
             /\ \A k \in DOMAIN doc[u] : k < at[u] + 1 =>
                   \A i \in doc[u][k].items : i.id = e =>
                       i.version = db[e].version + Cardinality(WrittenBefore(u, k, e))
  <2> DEFINE before == WrittenBefore(u, at[u], e)
  <2>1. /\ Seen(u)[e].version = db[e].version + Cardinality(before)
        /\ e \notin DOMAIN own[u] => before = {}
        /\ \A k \in DOMAIN doc[u] : k < at[u] =>
              \A i \in doc[u][k].items : i.id = e =>
                  i.version = db[e].version + Cardinality(WrittenBefore(u, k, e))
    BY <1>7, <1>8 DEF Counted
  <2>2. IsFiniteSet(before) /\ Cardinality(before) \in Nat /\ at[u] \notin before
    <3>1. before \subseteq DOMAIN doc[u] /\ at[u] \notin before
      BY <1>6 DEF WrittenBefore
    <3>2. QED
      BY <1>6, <3>1, FS_Subset, FS_CardinalityType
  <2>3. db[e].version \in Nat /\ Seen(u)[e].version \in Nat
    BY <1>3, <1>8 DEF TypeOK, Row
  <2>4. CASE e \in ids
    <3>1. batch(u).op # "create"
      BY <1>2, <1>8, <2>4 DEF Mine, Created, batch
    <3>2. w[e].version = Seen(u)[e].version + 1
      <4>1. PICK i \in batch(u).items : w[e] = Written(batch(u).op, i, Seen(u)[e])
        BY <1>3, <2>4, WriteType
      <4>2. batch(u).op \in {"modify", "delete"}
        BY <1>3, <3>1 DEF Batch
      <4>3. QED
        BY <4>1, <4>2 DEF Written
    <3>3. WrittenBefore(u, at[u] + 1, e) = before \cup {at[u]}
      <4>1. \A j \in DOMAIN doc[u] : j < at[u] + 1 <=> j < at[u] \/ j = at[u]
        BY <1>6
      <4>2. e \in Ids(doc[u][at[u]].items)
        BY <2>4 DEF batch
      <4>3. QED
        BY <1>2, <4>1, <4>2 DEF WrittenBefore
    <3>4. Cardinality(before \cup {at[u]}) = Cardinality(before) + 1
      BY <2>2, FS_AddElement
    <3>5. ASSUME NEW k \in DOMAIN doc[u], k < at[u] + 1, NEW i \in doc[u][k].items, i.id = e
          PROVE  i.version = db[e].version + Cardinality(WrittenBefore(u, k, e))
      <4>1. CASE k < at[u]
        BY <2>1, <3>5, <4>1
      <4>2. CASE k = at[u]
        <5>1. ~VersionsDiffer(Seen(u), batch(u).items)
          BY <1>1, <3>1 DEF VersionsOK, Checked
        <5>2. Seen(u)[e].version = i.version
          BY <3>5, <4>2, <5>1 DEF VersionsDiffer, batch
        <5>3. QED
          BY <2>1, <4>2, <5>2
      <4>3. QED
        BY <1>6, <3>5, <4>1, <4>2
    <3>6. w[e].version = db[e].version + Cardinality(WrittenBefore(u, at[u] + 1, e))
      <4>1. Cardinality(WrittenBefore(u, at[u] + 1, e)) = Cardinality(before) + 1
        BY <3>3, <3>4, Zenon
      <4> HIDE DEF before, w
      <4>2. QED
        BY <2>1, <2>2, <2>3, <3>2, <4>1
    <3>7. QED
      BY <2>4, <3>5, <3>6
  <2>5. CASE e \notin ids
    <3>1. w[e] = Seen(u)[e]
      BY <1>3, <1>8, <2>5, WriteType
    <3>2. \A j \in DOMAIN doc[u] : (j < at[u] + 1 /\ e \in Ids(doc[u][j].items)) => j < at[u]
      BY <1>6, <2>5 DEF batch
    <3>3. \A j \in DOMAIN doc[u] : j < at[u] => j < at[u] + 1
      BY <1>6
    <3>4. WrittenBefore(u, at[u] + 1, e) = before
      BY <3>2, <3>3 DEF WrittenBefore
    <3>5. \A k \in DOMAIN doc[u] : k < at[u] + 1 =>
              \A i \in doc[u][k].items : i.id = e => k < at[u]
      BY <3>2 DEF Ids
    <3>6. QED
      BY <2>1, <3>1, <3>4, <3>5
  <2>6. QED
    BY <2>4, <2>5
<1> HIDE DEF w, ids
<1>9. Counted(u)'
  BY <1>1, <1>4, <1>5, <1>7, <1>8 DEF Counted
<1>10. QED
  BY <1>1, <1>2, <1>9 DEF VersionsOK, Checked

LEMMA VersionsInit == Init => VersionsInv
BY DEF Init, VersionsInv, VersionsOK, Running, Checked

LEMMA StartVersions ==
    ASSUME LocksInv, TypeOK', NEW u \in Uploads, VersionsOK(u), stage[u] = "idle",
           GoTo(u, "batch"), UNCHANGED <<db, at, own>>
    PROVE  VersionsOK(u)'
<1> USE DEF LocksInv
<1>1. at[u] = 1 /\ DOMAIN own[u] = {} /\ stage'[u] = "batch"
  BY DEF VersionsOK, LocksOK, Quiet, Running, GoTo, TypeOK
<1>2. \A k \in DOMAIN doc'[u] : ~(k < 1)
  <2>1. doc'[u] \in Seq(Batch)
    BY DEF TypeOK
  <2>2. DOMAIN doc'[u] = 1..Len(doc'[u]) /\ Len(doc'[u]) \in Nat
    BY <2>1, LenProperties
  <2>3. QED
    BY <2>2
<1>3. \A e : WrittenBefore(u, 1, e)' = {}
  BY <1>2 DEF WrittenBefore
<1>4. \A e \in Elements : Seen(u)'[e] = db[e] /\ db[e].version \in Nat
  BY <1>1 DEF Seen, TypeOK, Row
<1>5. Cardinality({}) = 0
  BY FS_EmptySet
<1>6. \A e \in Elements : /\ Seen(u)'[e].version = db[e].version + Cardinality(WrittenBefore(u, 1, e)')
                          /\ WrittenBefore(u, 1, e)' = {}
  <2> SUFFICES ASSUME NEW e \in Elements
               PROVE  Seen(u)'[e].version = db[e].version + Cardinality(WrittenBefore(u, 1, e)')
    BY <1>3
  <2>1. Cardinality(WrittenBefore(u, 1, e)') = 0
    BY <1>3, <1>5, Zenon
  <2>2. QED
    BY <1>4, <2>1
<1>7. Counted(u)'
  BY <1>1, <1>2, <1>6 DEF Counted
<1>8. QED
  BY <1>1, <1>7 DEF VersionsOK, Checked, Running

LEMMA VersionsStep == ASSUME LocksInv, VersionsInv, [Next]_vars PROVE VersionsInv'
<1>t. TypeOK /\ TypeOK'
  BY TypeStep DEF LocksInv
<1>1. CASE UNCHANGED vars
  <2> SUFFICES ASSUME NEW v \in Uploads PROVE VersionsOK(v)'
    BY DEF VersionsInv
  <2>1. /\ UNCHANGED <<db, stage>>
        /\ doc'[v] = doc[v] /\ at'[v] = at[v] /\ own'[v] = own[v]
    BY <1>1 DEF vars, progress
  <2>2. VersionsOK(v) /\ (Counted(v) => Counted(v)') /\ Seen(v)' = Seen(v) /\ batch(v)' = batch(v)
    BY <2>1, CountedKept DEF VersionsInv
  <2>3. QED
    BY <2>1, <2>2 DEF VersionsOK, Running, Checked
<1>2. ASSUME NEW u \in Uploads, Step(u) \/ connection_lost(u), VersionsOK(u)',
             UNCHANGED db \/ commit(u)
      PROVE  VersionsInv'
  <2> SUFFICES ASSUME NEW v \in Uploads, v # u PROVE VersionsOK(v)'
    BY <1>2 DEF VersionsInv
  <2>1. Same(v) /\ VersionsOK(v)
    BY <1>2, <1>t, OthersSame DEF VersionsInv
  <2>2. \A e \in Elements : e \notin DOMAIN own[u] => db'[e] = db[e]
    BY <1>2, CommitRows
  <2>3. QED
    BY <1>t, <2>1, <2>2, OthersVersions
<1>u. \A u \in Uploads : VersionsOK(u)
  BY DEF VersionsInv
<1>3. ASSUME NEW u \in Uploads, NEW code, Throw(u, code) PROVE VersionsOK(u)' /\ UNCHANGED db
  BY <1>3, <1>t, EndVersions DEF Throw
<1>4. ASSUME NEW u \in Uploads, lock_current_changeset(u) PROVE VersionsOK(u)' /\ UNCHANGED db
  <2>1. CASE Throw(u, "conflict")
    BY <1>3, <2>1
  <2>2. CASE GoTo(u, "batch") /\ UNCHANGED <<db, at, queue, missing, locks, own>>
    BY <1>4, <1>t, <1>u, <2>2, StartVersions DEF lock_current_changeset
  <2>3. QED
    BY <1>4, <2>1, <2>2 DEF lock_current_changeset
<1>f. ASSUME NEW u \in Uploads, Running(u), start_lock_future(u),
             batch(u).op # "create" => ~VersionsDiffer(Seen(u), batch(u).items)
      PROVE  VersionsOK(u)' /\ UNCHANGED db
  <2>1. UNCHANGED <<db, doc, at, own>> /\ stage'[u] = "lock_future"
    BY <1>f, <1>t DEF start_lock_future, StartLocking, GoTo, TypeOK
  <2>2. Checked(u)' /\ Running(u)'
    BY <1>f, <2>1, CountedKept DEF Checked, Running
  <2>3. QED
    BY <1>f, <1>u, <2>1, <2>2, VersionsKept
<1>5. ASSUME NEW u \in Uploads, lock_current(u) PROVE VersionsOK(u)' /\ UNCHANGED db
  <2>1. UNCHANGED <<db, doc, at, own>> /\ stage'[u] = "lock_current" /\ stage[u] = "batch"
    BY <1>5, <1>t DEF lock_current, start_lock_current, StartLocking, GoTo, TypeOK
  <2>2. Checked(u)' /\ Running(u) /\ Running(u)'
    BY <2>1 DEF Checked, Running
  <2>3. QED
    BY <1>u, <2>1, <2>2, VersionsKept
<1>6. ASSUME NEW u \in Uploads, create(u) PROVE VersionsOK(u)' /\ UNCHANGED db
  BY <1>6, <1>f DEF create, Running
<1>7. ASSUME NEW u \in Uploads, LockRow(u) PROVE VersionsOK(u)' /\ UNCHANGED db
  <2>1. UNCHANGED <<db, doc, at, own, stage>> /\ Running(u)
    BY <1>7 DEF LockRow, Waiting, Running
  <2>2. Checked(u)' /\ Running(u)'
    BY <1>u, <2>1, CountedKept DEF VersionsOK, Checked, Running
  <2>3. QED
    BY <1>u, <2>1, <2>2, VersionsKept
<1>8. ASSUME NEW u \in Uploads, Locked(u) PROVE VersionsOK(u)' /\ UNCHANGED db
  <2>1. CASE \E code : Throw(u, code)
    BY <1>3, <2>1
  <2>2. CASE /\ GoTo(u, IF stage[u] = "lock_current" THEN "check" ELSE "write")
             /\ UNCHANGED <<db, changeset, doc, at, queue, missing, locks, own, answer>>
    <3>1. /\ stage[u] \in {"lock_current", "lock_future"}
          /\ stage'[u] = IF stage[u] = "lock_current" THEN "check" ELSE "write"
      BY <1>8, <1>t, <2>2 DEF Locked, GoTo, TypeOK
    <3>2. Running(u) /\ Running(u)'
      BY <3>1 DEF Running
    <3>3. Checked(u)'
      BY <1>u, <2>2, <3>1, CountedKept DEF VersionsOK, Checked
    <3>4. QED
      BY <1>u, <2>2, <3>2, <3>3, VersionsKept
  <2>3. QED
    BY <1>8, <2>1, <2>2 DEF Locked
<1>9. ASSUME NEW u \in Uploads, check(u) PROVE VersionsOK(u)' /\ UNCHANGED db
  <2> DEFINE deleted == IF batch(u).op = "delete" THEN AlreadyDeleted(Seen(u), batch(u)) ELSE {}
  <2>1. CASE \E code : Throw(u, code)
    BY <1>3, <2>1
  <2>2. CASE batch(u).op = "modify" /\ start_lock_future(u) /\ ~VersionsDiffer(Seen(u), batch(u).items \ deleted)
    <3>1. Running(u) /\ ~VersionsDiffer(Seen(u), batch(u).items)
      BY <1>9, <2>2 DEF check, Running
    <3>2. QED
      BY <1>f, <2>2, <3>1
  <2>3. CASE /\ batch(u).op = "delete" /\ GoTo(u, "referenced") /\ Drop(u, deleted)
             /\ ~VersionsDiffer(Seen(u), batch(u).items \ deleted)
             /\ UNCHANGED <<db, changeset, at, queue, missing, locks, own, answer>>
    <3> HIDE DEF deleted
    <3>1. stage[u] = "check"
      BY <1>9 DEF check
    <3>2. QED
      BY <1>u, <2>3, <3>1, DropVersions
  <2>4. QED
    BY <1>9, <2>1, <2>2, <2>3 DEF check
<1>10. ASSUME NEW u \in Uploads, referenced(u) PROVE VersionsOK(u)' /\ UNCHANGED db
  <2>1. CASE \E code : Throw(u, code)
    BY <1>3, <2>1
  <2>2. ASSUME GoTo(u, "write"), NEW S, Drop(u, S),
               UNCHANGED <<db, changeset, at, queue, missing, locks, own, answer>>
        PROVE  VersionsOK(u)' /\ UNCHANGED db
    <3>1. stage[u] = "referenced" /\ batch(u).op = "delete"
      BY <1>10 DEF referenced, LocksInv, LocksOK, AtBatch, InBatch
    <3>2. ~VersionsDiffer(Seen(u), batch(u).items \ S)
      BY <1>u, <3>1 DEF VersionsOK, Checked, VersionsDiffer
    <3>3. QED
      BY <1>u, <2>2, <3>1, <3>2, DropVersions
  <2>3. QED
    BY <1>10, <2>1, <2>2 DEF referenced
<1>11. ASSUME NEW u \in Uploads, write(u) PROVE VersionsOK(u)' /\ UNCHANGED db
  BY <1>11, <1>u, WriteVersions DEF write
<1>12. ASSUME NEW u \in Uploads, deadlock_detected(u) \/ connection_lost(u)
       PROVE  VersionsOK(u)' /\ UNCHANGED db
  BY <1>3, <1>12 DEF deadlock_detected, connection_lost
<1>13. ASSUME NEW u \in Uploads, commit(u) PROVE VersionsOK(u)'
  BY <1>13, <1>t, EndVersions DEF commit
<1>14. ASSUME NEW u \in Uploads, Step(u) \/ connection_lost(u) PROVE VersionsInv'
  BY <1>2, <1>4, <1>5, <1>6, <1>7, <1>8, <1>9, <1>10, <1>11, <1>12, <1>13, <1>14 DEF Step
<1>15. QED
  BY <1>1, <1>14 DEF Next

\* No update is lost, for any uploads side by side: the versions an upload
\* has named are at its commit still what check_current_*_versions has
\* compared them with.
THEOREM NoLostUpdateAlways == Spec => []NoLostUpdate
<1>1. Init => LocksInv /\ VersionsInv
  BY LocksInit, VersionsInit
<1>2. LocksInv /\ VersionsInv /\ [Next]_vars => LocksInv' /\ VersionsInv'
  BY LocksStep, VersionsStep
<1>3. ASSUME LocksInv, VersionsInv PROVE NoLostUpdate
  <2> SUFFICES ASSUME NEW u \in Uploads, NEW k \in DOMAIN doc[u], stage[u] # "end", k < at[u],
                      NEW i \in doc[u][k].items, i.id \notin Created(doc[u])
               PROVE  i.version = db[i.id].version + Cardinality(WrittenBefore(u, k, i.id))
    BY DEF NoLostUpdate
  <2>1. Running(u)
    BY <1>3 DEF Running, LocksInv, LocksOK, Quiet
  <2>2. i.id \in Elements \ Mine(u)
    BY <1>3, DocDomain DEF Mine, LocksInv
  <2>3. QED
    BY <1>3, <2>1, <2>2 DEF VersionsInv, VersionsOK, Counted
<1>4. QED
  BY <1>1, <1>2, <1>3, PTL DEF Spec

(***************************************************************************)
(* The second half of the inductive invariant: what rows refer to          *)
(***************************************************************************)
\* What the rows that an upload has written refer to is locked or its own.
OwnRefs(u) ==
    \A e \in DOMAIN own[u] :
        /\ RefsTyped(e, own[u][e].refs)
        /\ own[u][e].visible => \A f \in own[u][e].refs : Holds(u, f)

Consistent(u) == RefsClosed(Seen(u))

DocOK(u) ==
    \A k \in DOMAIN doc[u] :
        /\ OneKind(doc[u][k].items)
        /\ \A i \in doc[u][k].items : RefsTyped(i.id, i.refs)
        /\ Unmixed(doc[u][k])

\* lock_future_* has locked rows that are visible, or is about to.
FutureLocked(u) ==
    (stage[u] \in {"lock_future", "write"} /\ batch(u).op # "delete") =>
        \A e \in FutureMembers(batch(u)) :
            \/ (\E m \in Modes : Has(u, e, m)) /\ Seen(u)[e].visible
            \/ stage[u] = "lock_future" /\ (e \in missing[u] \/ Queued(u, e))

\* Nothing refers to what is about to be deleted, but what goes with it.
NoneReferTo(rows, items) ==
    \A p \in Elements \ Ids(items) : rows[p].visible => rows[p].refs \cap Ids(items) = {}
Unreferenced(u) ==
    (stage[u] = "write" /\ batch(u).op = "delete") => NoneReferTo(Seen(u), batch(u).items)

RefsOK(u) == OwnRefs(u) /\ Consistent(u) /\ DocOK(u) /\ FutureLocked(u) /\ Unreferenced(u)
RefsShared == RefsVisible /\ \A e \in Elements : RefsTyped(e, db[e].refs)

RefsInv == RefsShared /\ \A u \in Uploads : RefsOK(u)

(***************************************************************************)
(* Deleting and writing rows                                               *)
(***************************************************************************)
\* is_*_still_referenced: what is left to delete is referred to by nothing
\* that stays, when all or none of the items has the if-unused flag.
LEMMA NothingLeftBehind ==
    ASSUME NEW rows, \A e \in Elements : RefsTyped(e, rows[e].refs),
           NEW items \in SUBSET Item, OneKind(items),
           \A i, j \in items : i.if_unused = j.if_unused,
           \A i \in StillReferenced(rows, items) : i.if_unused
    PROVE  NoneReferTo(rows, items \ StillReferenced(rows, items))
<1> DEFINE in_use == StillReferenced(rows, items)
           direct == ReferencedOutside(rows, items)
<1>1. direct \subseteq in_use
  BY DEF StillReferenced
<1> SUFFICES ASSUME NEW p \in Elements, p \notin Ids(items \ in_use), rows[p].visible,
                    NEW j \in items \ in_use, j.id \in rows[p].refs
             PROVE  FALSE
  BY DEF NoneReferTo, Ids
<1>2. j.id \in Elements
  BY DEF Item
<1>3. p \in Ids(items)
  BY <1>1 DEF ReferencedOutside
<1>4. PICK i \in items : i.id = p
  BY <1>3 DEF Ids
<1>5. i \in in_use
  BY <1>4 DEF Ids
<1>6. j.if_unused
  BY <1>5
<1>7. j.id \in Relations
  <2>1. RefsTyped(p, rows[p].refs) /\ j.id \in Ids(items)
    BY DEF Ids
  <2>2. QED
    BY <1>3, <2>1, ElementsAssumption DEF OneKind, RefsTyped
<1>8. j.id \in Below(rows, Ids(direct))
  <2> SUFFICES ASSUME NEW S \in SUBSET Elements,
                      UNION {rows[q].refs : q \in Ids(direct)} \subseteq S,
                      \A q \in S : rows[q].refs \subseteq S
               PROVE  j.id \in S
    BY <1>2 DEF Below
  <2>1. CASE i \in direct
    <3>1. p \in Ids(direct)
      BY <1>4, <2>1 DEF Ids
    <3>2. QED
      BY <3>1
  <2>2. CASE i \notin direct
    <3>1. p \in Below(rows, Ids(direct))
      BY <1>4, <1>5, <2>2 DEF StillReferenced
    <3>2. p \in S
      BY <3>1 DEF Below
    <3>3. QED
      BY <3>2
  <2>3. QED
    BY <2>1, <2>2
<1>9. QED
  BY <1>6, <1>7, <1>8 DEF StillReferenced

\* A call leaves its rows consistent when what it makes them refer to is
\* visible and what it deletes is not referred to.
LEMMA WriteClosed ==
    ASSUME NEW rows \in [Elements -> Row], NEW b \in Batch, RefsClosed(rows),
           b.op # "delete" => \A e \in FutureMembers(b) : rows[e].visible,
           b.op = "delete" => NoneReferTo(rows, b.items)
    PROVE  RefsClosed(WriteBatch(rows, b))
<1> DEFINE w == WriteBatch(rows, b)
<1>1. b.op \in {"create", "modify", "delete"} /\ b.items \subseteq Item
  BY DEF Batch
<1>2. /\ \A e \in Elements \ Ids(b.items) : w[e] = rows[e]
      /\ \A e \in Ids(b.items) : \E i \in b.items :
            i.id = e /\ w[e] = Written(b.op, i, rows[e])
  BY WriteType
<1> HIDE DEF w
<1>3. ASSUME NEW p \in Elements, w[p].visible, NEW e \in w[p].refs PROVE w[e].visible
  <2>1. CASE b.op # "delete"
    <3>1. \A f \in Ids(b.items) : \E i \in b.items : w[f].visible = TRUE /\ w[f].refs = i.refs
      <4> SUFFICES ASSUME NEW f \in Ids(b.items)
                   PROVE  \E i \in b.items : w[f].visible = TRUE /\ w[f].refs = i.refs
        OBVIOUS
      <4>1. PICK i \in b.items : w[f] = Written(b.op, i, rows[f])
        BY <1>2
      <4>2. w[f].visible = TRUE /\ w[f].refs = i.refs
        BY <1>1, <2>1, <4>1 DEF Written
      <4>3. QED
        BY <4>2
    <3>2. CASE p \in Ids(b.items)
      <4>1. PICK i \in b.items : w[p].refs = i.refs
        BY <3>1, <3>2
      <4>2. e \in Ids(b.items) \/ (e \in FutureMembers(b) /\ e \in Elements)
        <5>1. i.refs \subseteq Elements
          BY <1>1 DEF Item
        <5>2. QED
          BY <1>3, <4>1, <5>1 DEF FutureMembers
      <4>3. QED
        BY <1>2, <2>1, <3>1, <4>2
    <3>3. CASE p \notin Ids(b.items)
      <4>1. w[p] = rows[p] /\ rows[p].refs \subseteq Elements
        BY <1>2, <3>3 DEF Row
      <4>2. rows[e].visible /\ e \in Elements
        BY <1>3, <4>1 DEF RefsClosed
      <4>3. QED
        BY <1>2, <3>1, <4>2
    <3>4. QED
      BY <3>2, <3>3
  <2>2. CASE b.op = "delete"
    <3>1. ASSUME NEW f \in Ids(b.items) PROVE w[f].visible = FALSE
      <4>1. PICK i \in b.items : w[f] = Written(b.op, i, rows[f])
        BY <1>2
      <4>2. QED
        BY <2>2, <4>1 DEF Written
    <3>2. p \notin Ids(b.items)
      BY <1>3, <3>1
    <3>3. w[p] = rows[p] /\ rows[p].refs \subseteq Elements
      BY <1>2, <3>2 DEF Row
    <3>4. e \in Elements \ Ids(b.items) /\ rows[e].visible
      BY <1>3, <2>2, <3>2, <3>3 DEF RefsClosed, NoneReferTo
    <3>5. QED
      BY <1>2, <3>4
  <2>3. QED
    BY <2>1, <2>2
<1>4. QED
  BY <1>3 DEF RefsClosed, w

(***************************************************************************)
(* Steps                                                                   *)
(***************************************************************************)
LEMMA SeenFrame ==
    ASSUME NEW v \in Uploads, Same(v), UNCHANGED db
    PROVE  Seen(v)' = Seen(v)
BY DEF Same, Seen

LEMMA RefsFrame ==
    ASSUME NEW v \in Uploads, RefsOK(v), Same(v), UNCHANGED db
    PROVE  RefsOK(v)'
<1>1. /\ Seen(v)' = Seen(v) /\ batch(v)' = batch(v)
      /\ \A e : (Holds(v, e)' <=> Holds(v, e)) /\ (Queued(v, e)' <=> Queued(v, e))
      /\ \A e, m : Has(v, e, m)' <=> Has(v, e, m)
      /\ stage'[v] = stage[v] /\ missing'[v] = missing[v] /\ doc'[v] = doc[v] /\ own'[v] = own[v]
  BY SeenFrame DEF Same, batch, Holds, Queued, Mine
<1>2. OwnRefs(v)' /\ Consistent(v)' /\ DocOK(v)'
  BY <1>1 DEF RefsOK, OwnRefs, Consistent, DocOK
<1>3. FutureLocked(v)' /\ Unreferenced(v)'
  BY <1>1 DEF RefsOK, FutureLocked, Unreferenced
<1>4. QED
  BY <1>2, <1>3 DEF RefsOK

\* Once an upload has ended it sees what is committed.
LEMMA EndRefs ==
    ASSUME TypeOK, NEW u \in Uploads, NEW code, End(u, code), DocOK(u),
           db' \in [Elements -> Row], RefsClosed(db')
    PROVE  RefsOK(u)'
<1>1. stage'[u] = "end" /\ own'[u] = <<>> /\ doc'[u] = doc[u]
  BY DEF End, GoTo, TypeOK
<1>2. Seen(u)' = db'
  BY <1>1, EmptyOwn DEF Seen
<1>3. Consistent(u)'
  BY <1>2 DEF Consistent, RefsClosed
<1>4. OwnRefs(u)'
  BY <1>1, EmptyOwn DEF OwnRefs
<1>5. QED
  BY <1>1, <1>3, <1>4 DEF RefsOK, DocOK, FutureLocked, Unreferenced

\* The others keep what they hold, and their views stay consistent, when an
\* upload commits.
LEMMA CommitRefs ==
    ASSUME LocksInv, RefsInv, NEW u \in Uploads, commit(u), NEW v \in Uploads, u # v
    PROVE  RefsOK(v)'
<1>1. /\ Same(v) /\ LocksOK(v) /\ RefsOK(v) /\ RefsOK(u) /\ TypeOK
  BY OthersSame DEF Step, LocksInv, RefsInv
<1>2. /\ batch(v)' = batch(v) /\ stage'[v] = stage[v] /\ own'[v] = own[v] /\ doc'[v] = doc[v]
      /\ missing'[v] = missing[v]
      /\ \A e : (Holds(v, e)' <=> Holds(v, e)) /\ (Queued(v, e)' <=> Queued(v, e))
      /\ \A e, m : Has(v, e, m)' <=> Has(v, e, m)
  BY <1>1 DEF Same, batch, Holds, Queued, Mine
<1>3. \A e \in Elements : db'[e] = IF e \in DOMAIN own[u] THEN own[u][e] ELSE db[e]
  BY CommitRows
<1>4. \A e \in Elements :
          /\ Seen(u)[e] = db'[e]
          /\ Seen(v)[e] = IF e \in DOMAIN own[v] THEN own[v][e] ELSE db[e]
          /\ Seen(v)'[e] = IF e \in DOMAIN own[v] THEN own[v][e] ELSE db'[e]
  BY <1>1, <1>2, <1>3, SeenType DEF Seen
<1>5. Running(u)
  BY CommitRows
<1>6. ASSUME Running(v), NEW e \in Elements, Holds(v, e) PROVE Seen(v)'[e] = Seen(v)[e]
  BY <1>3, <1>4, <1>6, Apart
<1>7. \A p \in Elements :
          /\ p \in DOMAIN own[v] => own[v][p].refs \subseteq Elements
          /\ Seen(u)[p].refs \subseteq Elements /\ Seen(v)[p].refs \subseteq Elements
  BY <1>1, SeenType DEF TypeOK, Row
<1>8. Consistent(v)'
  <2> SUFFICES ASSUME NEW p \in Elements, Seen(v)'[p].visible, NEW e \in Seen(v)'[p].refs
               PROVE  Seen(v)'[e].visible
    BY DEF Consistent, RefsClosed
  <2>1. CASE p \in DOMAIN own[v]
    <3>1. Seen(v)'[p] = own[v][p] /\ Seen(v)[p] = own[v][p] /\ e \in Elements
      BY <1>4, <1>7, <2>1
    <3>2. Running(v) /\ Holds(v, e)
      BY <1>1, <2>1, <3>1 DEF LocksOK, Quiet, RefsOK, OwnRefs
    <3>3. Seen(v)[e].visible
      BY <1>1, <3>1 DEF RefsOK, Consistent, RefsClosed
    <3>4. QED
      BY <1>6, <3>1, <3>2, <3>3
  <2>2. CASE p \notin DOMAIN own[v] /\ p \in DOMAIN own[u]
    <3>1. Seen(v)'[p] = own[u][p] /\ Seen(u)[p] = own[u][p] /\ e \in Elements
      BY <1>3, <1>4, <1>7, <2>2
    <3>2. Holds(u, e)
      BY <1>1, <2>2, <3>1 DEF RefsOK, OwnRefs
    <3>3. e \notin DOMAIN own[v]
      BY <1>5, <3>1, <3>2, Apart
    <3>4. Seen(u)[e].visible
      BY <1>1, <3>1 DEF RefsOK, Consistent, RefsClosed
    <3>5. QED
      BY <1>4, <3>1, <3>3, <3>4
  <2>3. CASE p \notin DOMAIN own[v] /\ p \notin DOMAIN own[u]
    <3>1. Seen(v)'[p] = Seen(v)[p] /\ Seen(v)'[p] = Seen(u)[p] /\ e \in Elements
      BY <1>3, <1>4, <1>7, <2>3
    <3>2. Seen(v)[e].visible /\ Seen(u)[e].visible
      BY <1>1, <3>1 DEF RefsOK, Consistent, RefsClosed
    <3>3. Seen(v)'[e] \in {Seen(v)[e], Seen(u)[e]}
      BY <1>4, <3>1
    <3>4. QED
      BY <3>2, <3>3
  <2>4. QED
    BY <2>1, <2>2, <2>3
<1>9. OwnRefs(v)' /\ DocOK(v)'
  BY <1>1, <1>2 DEF RefsOK, OwnRefs, DocOK
<1>10. FutureLocked(v)'
  <2> SUFFICES ASSUME stage[v] \in {"lock_future", "write"}, batch(v).op # "delete",
                      NEW e \in FutureMembers(batch(v))
               PROVE  \/ (\E m \in Modes : Has(v, e, m)) /\ Seen(v)'[e].visible
                      \/ stage[v] = "lock_future" /\ (e \in missing[v] \/ Queued(v, e))
    BY <1>2 DEF FutureLocked
  <2>1. e \in Elements /\ Running(v)
    BY <1>1, BatchType DEF LocksOK, AtBatch, InBatch, Running
  <2>2. CASE (\E m \in Modes : Has(v, e, m)) /\ Seen(v)[e].visible
    BY <1>6, <2>1, <2>2 DEF Holds
  <2>3. QED
    BY <1>1, <2>2 DEF RefsOK, FutureLocked
<1>11. Unreferenced(v)'
  <2> SUFFICES ASSUME stage[v] = "write", batch(v).op = "delete",
                      NEW p \in Elements \ Ids(batch(v).items), Seen(v)'[p].visible,
                      NEW f \in Seen(v)'[p].refs, f \in Ids(batch(v).items)
               PROVE  FALSE
    BY <1>2 DEF Unreferenced, NoneReferTo
  <2>1. Running(v) /\ Has(v, f, "update") /\ f \in Elements
    BY <1>1, BatchType DEF LocksOK, AtBatch, CurrentLocked, InBatch, Running
  <2>2. Seen(v)'[p] # Seen(v)[p]
    BY <1>1 DEF RefsOK, Unreferenced, NoneReferTo
  <2>3. p \in DOMAIN own[u] /\ Seen(v)'[p] = own[u][p]
    BY <1>3, <1>4, <2>2
  <2>4. Holds(u, f)
    BY <1>1, <2>3 DEF RefsOK, OwnRefs
  <2>5. CASE f \in Mine(u)
    <3>1. ~Exists(db, f)
      BY <1>5, <2>5 DEF LocksInv, LocksOK, RowsKnown
    <3>2. Exists(db, f) \/ f \in Mine(v)
      BY <1>1, <2>1 DEF LocksOK, RowsKnown, Modes
    <3>3. QED
      BY <2>5, <3>1, <3>2 DEF LocksInv, LocksShared, NewApart
  <2>6. CASE \E m \in Modes : Has(u, f, m)
    BY <2>1, <2>6 DEF LocksInv, LocksShared, Exclusive
  <2>7. QED
    BY <2>4, <2>5, <2>6 DEF Holds
<1>12. QED
  BY <1>8, <1>9, <1>10, <1>11 DEF RefsOK

\* Where an upload writes nothing, its view and its locks stay.
LEMMA OwnStays ==
    ASSUME TypeOK, NEW u \in Uploads, RefsOK(u), UNCHANGED <<db, own>>,
           \A e : Holds(u, e) => Holds(u, e)'
    PROVE  Seen(u)' = Seen(u) /\ OwnRefs(u)' /\ Consistent(u)'
<1>1. Seen(u)' = Seen(u)
  BY DEF Seen
<1>2. OwnRefs(u)'
  BY DEF RefsOK, OwnRefs
<1>3. QED
  BY <1>1, <1>2 DEF RefsOK, Consistent, RefsClosed

LEMMA LockingRefs ==
    ASSUME LocksInv, RefsInv, NEW u \in Uploads, Running(u),
           NEW st \in {"lock_current", "lock_future"},
           NEW wanted \in SUBSET Elements, NEW notfound, StartLocking(u, st, wanted, notfound),
           st = "lock_future" => wanted = FutureMembers(batch(u))
    PROVE  RefsOK(u)'
<1>1. PICK order \in SetToSeqs(wanted \ notfound) : queue' = [queue EXCEPT ![u] = order]
  BY DEF StartLocking
<1>2. /\ stage'[u] = st /\ queue'[u] = order /\ missing'[u] = notfound
      /\ doc' = doc /\ at' = at /\ locks' = locks /\ db' = db /\ own' = own
  BY <1>1 DEF StartLocking, GoTo, LocksInv, TypeOK
<1>3. \A e \in wanted \ notfound : \E k \in DOMAIN order : order[k] = e
  BY SeqOfSet
<1>4. batch(u)' = batch(u) /\ \A e : Holds(u, e) => Holds(u, e)'
  BY <1>2 DEF batch, Holds, Mine, Has
<1>5. OwnRefs(u)' /\ Consistent(u)'
  BY <1>2, <1>4, OwnStays DEF LocksInv, RefsInv
<1>6. DocOK(u)' /\ Unreferenced(u)'
  BY <1>2 DEF RefsInv, RefsOK, DocOK, Unreferenced
<1>7. FutureLocked(u)'
  BY <1>2, <1>3, <1>4 DEF FutureLocked, Queued
<1>8. QED
  BY <1>5, <1>6, <1>7 DEF RefsOK

LEMMA LockRowRefs ==
    ASSUME LocksInv, RefsInv, NEW u \in Uploads, LockRow(u)
    PROVE  RefsOK(u)'
<1> DEFINE e == Head(queue[u])
           mode == ModeOf(stage[u])
<1>1. /\ stage[u] \in {"lock_current", "lock_future"}
      /\ queue[u] \in Seq(Elements) /\ queue[u] # <<>>
  BY DEF LockRow, Waiting, LocksInv, TypeOK
<1>2. \A f : Queued(u, f) => f = e \/ \E k \in DOMAIN Tail(queue[u]) : Tail(queue[u])[k] = f
  BY <1>1, Dequeued DEF Queued
<1>3. /\ stage' = stage /\ doc' = doc /\ at' = at /\ db' = db /\ own' = own
      /\ queue'[u] = Tail(queue[u])
      /\ missing'[u] = (IF StillThere(u, e) THEN missing[u] ELSE missing[u] \cup {e})
      /\ locks' = locks \cup {[by |-> u, row |-> e, mode |-> mode]}
  BY DEF LockRow, LocksInv, TypeOK
<1>4. /\ batch(u)' = batch(u) /\ Mine(u)' = Mine(u)
      /\ \A f, m : Has(u, f, m)' <=> Has(u, f, m) \/ (f = e /\ m = mode)
  BY <1>3 DEF batch, Mine, Has
<1>m. mode \in Modes
  BY DEF ModeOf, Modes
<1>5. Seen(u)' = Seen(u) /\ OwnRefs(u)' /\ Consistent(u)'
  <2>1. \A f : Holds(u, f) => Holds(u, f)'
    BY <1>4 DEF Holds
  <2>2. QED
    BY <1>3, <2>1, OwnStays DEF LocksInv, RefsInv
<1>6. DocOK(u)' /\ Unreferenced(u)'
  BY <1>1, <1>3 DEF RefsInv, RefsOK, DocOK, Unreferenced
<1>7. FutureLocked(u)'
  <2> SUFFICES ASSUME stage[u] = "lock_future", batch(u).op # "delete",
                      NEW f \in FutureMembers(batch(u))
               PROVE  \/ (\E m \in Modes : Has(u, f, m)') /\ Seen(u)[f].visible
                      \/ f \in missing'[u] \/ Queued(u, f)'
    BY <1>1, <1>3, <1>4, <1>5 DEF FutureLocked
  <2>1. \/ (\E m \in Modes : Has(u, f, m)) /\ Seen(u)[f].visible
        \/ f \in missing[u] \/ Queued(u, f)
    BY DEF RefsInv, RefsOK, FutureLocked
  <2>2. Queued(u, f) => f = e \/ Queued(u, f)'
    BY <1>2, <1>3 DEF Queued
  <2>3. StillThere(u, e) => Seen(u)[e].visible
    BY DEF StillThere
  <2> HIDE DEF e, mode
  <2>4. CASE f = e
    <3>1. \E m \in Modes : Has(u, f, m)'
      BY <1>4, <1>m, <2>4
    <3>2. CASE StillThere(u, e)
      BY <2>3, <2>4, <3>1, <3>2
    <3>3. CASE ~StillThere(u, e)
      BY <1>3, <2>4, <3>3
    <3>4. QED
      BY <3>2, <3>3
  <2>5. CASE f # e
    <3>1. missing[u] \subseteq missing'[u]
      BY <1>3
    <3>2. (\E m \in Modes : Has(u, f, m)) => \E m \in Modes : Has(u, f, m)'
      BY <1>4
    <3>3. QED
      BY <2>1, <2>2, <2>5, <3>1, <3>2
  <2>6. QED
    BY <2>4, <2>5
<1>8. QED
  BY <1>5, <1>6, <1>7 DEF RefsOK

LEMMA LockedRefs ==
    ASSUME LocksInv, RefsInv, NEW u \in Uploads, stage[u] \in {"lock_current", "lock_future"},
           queue[u] = <<>>, missing[u] = {},
           GoTo(u, IF stage[u] = "lock_current" THEN "check" ELSE "write"),
           UNCHANGED <<db, doc, at, queue, missing, locks, own>>
    PROVE  RefsOK(u)'
<1>1. stage'[u] = IF stage[u] = "lock_current" THEN "check" ELSE "write"
  BY DEF GoTo, LocksInv, TypeOK
<1>q. \A e : ~Queued(u, e)
  BY DEF Queued
<1>2. /\ batch(u)' = batch(u) /\ (\A e : Holds(u, e) => Holds(u, e)') /\ \A e : ~Queued(u, e)
      /\ \A e, m : Has(u, e, m) => Has(u, e, m)'
  <2>1. batch(u)' = batch(u) /\ Mine(u)' = Mine(u) /\ \A e, m : Has(u, e, m)' <=> Has(u, e, m)
    BY DEF batch, Mine, Has
  <2>2. QED
    BY <1>q, <2>1 DEF Holds
<1>3. Seen(u)' = Seen(u) /\ OwnRefs(u)' /\ Consistent(u)'
  BY <1>2, OwnStays DEF LocksInv, RefsInv
<1>4. stage[u] = "lock_future" => batch(u).op # "delete"
  BY DEF LocksInv, LocksOK, AtBatch, InBatch
<1>5. DocOK(u)' /\ Unreferenced(u)'
  BY <1>1, <1>2, <1>4 DEF RefsInv, RefsOK, DocOK, Unreferenced
<1>6. FutureLocked(u)'
  BY <1>1, <1>2, <1>3 DEF RefsInv, RefsOK, FutureLocked
<1>7. QED
  BY <1>3, <1>5, <1>6 DEF RefsOK

\* What is skipped leaves the rest of the call in order.
LEMMA DropRefs ==
    ASSUME LocksInv, RefsInv, NEW u \in Uploads, stage[u] \in {"check", "referenced"},
           batch(u).op = "delete",
           NEW st \in {"referenced", "write"}, GoTo(u, st), NEW S, Drop(u, S),
           UNCHANGED <<db, at, queue, missing, locks, own>>,
           st = "write" => NoneReferTo(Seen(u), batch(u).items \ S)
    PROVE  RefsOK(u)'
<1>1. stage'[u] = st
  BY DEF GoTo, LocksInv, TypeOK
<1>2. at[u] \in DOMAIN doc[u]
  BY DEF LocksInv, LocksOK, AtBatch, InBatch
<1>3. /\ Mine(u)' = Mine(u)
      /\ DOMAIN doc'[u] = DOMAIN doc[u]
      /\ batch(u)'.op = "delete" /\ batch(u)'.items = batch(u).items \ S
      /\ \A k \in DOMAIN doc[u] : k # at[u] => doc'[u][k] = doc[u][k]
      /\ Ids(batch(u)'.items) \subseteq Ids(batch(u).items)
  BY <1>2, DropFacts DEF LocksInv
<1>4. \A e : Holds(u, e) => Holds(u, e)'
  BY <1>3 DEF Holds, Has
<1>5. Seen(u)' = Seen(u) /\ OwnRefs(u)' /\ Consistent(u)'
  BY <1>4, OwnStays DEF LocksInv, RefsInv
<1>6. DocOK(u)'
  <2>1. ASSUME NEW k \in DOMAIN doc[u]
        PROVE  /\ OneKind(doc'[u][k].items)
               /\ \A i \in doc'[u][k].items : RefsTyped(i.id, i.refs)
               /\ Unmixed(doc'[u][k])
    <3>1. /\ OneKind(doc[u][k].items)
          /\ \A i \in doc[u][k].items : RefsTyped(i.id, i.refs)
          /\ Unmixed(doc[u][k])
      BY DEF RefsInv, RefsOK, DocOK
    <3>2. CASE k = at[u]
      <4>1. doc[u][k] = batch(u) /\ doc'[u][k] = batch(u)'
        BY <3>2 DEF batch
      <4>2. QED
        BY <1>3, <3>1, <4>1 DEF OneKind, Unmixed
    <3>3. CASE k # at[u]
      BY <1>3, <3>1, <3>3
    <3>4. QED
      BY <3>2, <3>3
  <2>2. QED
    BY <1>3, <2>1 DEF DocOK
<1>7. FutureLocked(u)'
  BY <1>3 DEF FutureLocked
<1>8. Unreferenced(u)'
  BY <1>1, <1>3, <1>5 DEF Unreferenced
<1>9. QED
  BY <1>5, <1>6, <1>7, <1>8 DEF RefsOK

LEMMA WriteRefs ==
    ASSUME LocksInv, RefsInv, NEW u \in Uploads, write(u)
    PROVE  RefsOK(u)'
<1> DEFINE w == WriteBatch(Seen(u), batch(u))
           ids == Ids(batch(u).items)
<1>1. stage[u] = "write" /\ stage'[u] = "batch" /\ UNCHANGED <<db, doc, queue, locks>>
  BY DEF write, GoTo, LocksInv, TypeOK
<1>2. at[u] \in DOMAIN doc[u] /\ TypeOK
  BY <1>1 DEF LocksInv, LocksOK, AtBatch, InBatch
<1>3. /\ batch(u) \in Batch /\ ids \subseteq Elements /\ Seen(u) \in [Elements -> Row]
      /\ batch(u).op \in {"create", "modify", "delete"}
  BY <1>2, BatchType, SeenType
<1>4. DOMAIN own'[u] = DOMAIN own[u] \cup ids /\ \A e \in DOMAIN own[u] \cup ids : own'[u][e] = w[e]
  BY <1>2 DEF write, TypeOK
<1>5. /\ \A e \in Elements \ ids : w[e] = Seen(u)[e]
      /\ \A e \in ids : \E i \in batch(u).items :
            i.id = e /\ w[e] = Written(batch(u).op, i, Seen(u)[e])
      /\ w \in [Elements -> Row]
  BY <1>3, WriteType
<1>6. \A e : Holds(u, e)' <=> Holds(u, e)
  BY <1>1 DEF Holds, Mine, Has
<1>7. RefsClosed(w)
  <2>1. batch(u).op # "delete" => \A e \in FutureMembers(batch(u)) : Seen(u)[e].visible
    BY <1>1 DEF RefsInv, RefsOK, FutureLocked
  <2>2. batch(u).op = "delete" => NoneReferTo(Seen(u), batch(u).items)
    BY <1>1 DEF RefsInv, RefsOK, Unreferenced
  <2>3. RefsClosed(Seen(u))
    BY DEF RefsInv, RefsOK, Consistent
  <2>4. QED
    BY <1>3, <2>1, <2>2, <2>3, WriteClosed
<1> HIDE DEF w
<1>8. Seen(u)' = w
  <2>1. \A e \in Elements : Seen(u)'[e] = IF e \in DOMAIN own'[u] THEN own'[u][e] ELSE db[e]
    BY <1>1 DEF Seen
  <2>2. \A e \in Elements : Seen(u)[e] = IF e \in DOMAIN own[u] THEN own[u][e] ELSE db[e]
    BY <1>2, SeenType
  <2>3. \A e \in Elements : Seen(u)'[e] = w[e]
    BY <1>4, <1>5, <2>1, <2>2
  <2>4. Seen(u)' = [e \in Elements |-> Seen(u)'[e]]
    BY DEF Seen
  <2>5. QED
    BY <1>5, <2>3, <2>4
<1>9. Consistent(u)'
  BY <1>7, <1>8 DEF Consistent, RefsClosed
<1>10. ASSUME NEW e \in ids
       PROVE  RefsTyped(e, w[e].refs) /\ (w[e].visible => \A f \in w[e].refs : Holds(u, f))
  <2>1. PICK i \in batch(u).items : i.id = e /\ w[e] = Written(batch(u).op, i, Seen(u)[e])
    BY <1>5, <1>10
  <2>2. RefsTyped(e, i.refs)
    BY <1>2, <2>1 DEF RefsInv, RefsOK, DocOK, batch
  <2>3. CASE batch(u).op = "delete"
    <3>1. w[e].visible = FALSE /\ w[e].refs = {}
      BY <2>1, <2>3 DEF Written
    <3>2. QED
      BY <3>1 DEF RefsTyped
  <2>4. CASE batch(u).op # "delete"
    <3>1. w[e].refs = i.refs
      BY <1>3, <2>1, <2>4 DEF Written
    <3>2. ASSUME NEW f \in i.refs PROVE Holds(u, f)
      <4>1. CASE f \in ids
        <5>1. CASE batch(u).op = "create"
          BY <1>2, <4>1, <5>1 DEF Holds, Mine, Created, batch
        <5>2. CASE batch(u).op # "create"
          BY <1>1, <4>1, <5>2 DEF LocksInv, LocksOK, CurrentLocked, InBatch, Holds, Modes
        <5>3. QED
          BY <5>1, <5>2
      <4>2. CASE f \notin ids
        <5>1. f \in FutureMembers(batch(u))
          BY <3>2, <4>2 DEF FutureMembers
        <5>2. QED
          BY <1>1, <2>4, <5>1 DEF RefsInv, RefsOK, FutureLocked, Holds
      <4>3. QED
        BY <4>1, <4>2
    <3>3. QED
      BY <2>2, <3>1, <3>2
  <2>5. QED
    BY <2>3, <2>4
<1>11. ASSUME NEW e \in DOMAIN own[u], e \notin ids
       PROVE  RefsTyped(e, w[e].refs) /\ (w[e].visible => \A f \in w[e].refs : Holds(u, f))
  <2>1. e \in Elements /\ Seen(u)[e] = own[u][e]
    BY <1>2, <1>11, SeenType
  <2>2. w[e] = own[u][e]
    BY <1>5, <1>11, <2>1
  <2>3. QED
    BY <2>2 DEF RefsInv, RefsOK, OwnRefs
<1> HIDE DEF ids
<1>12. OwnRefs(u)'
  BY <1>4, <1>6, <1>10, <1>11 DEF OwnRefs
<1>13. DocOK(u)' /\ FutureLocked(u)' /\ Unreferenced(u)'
  BY <1>1 DEF RefsInv, RefsOK, DocOK, FutureLocked, Unreferenced
<1>14. QED
  BY <1>9, <1>12, <1>13 DEF RefsOK

LEMMA StartRefs ==
    ASSUME NoMixedDeletes, LocksInv, RefsInv, NEW u \in Uploads, stage[u] = "idle",
           NEW d \in Documents[u], doc' = [doc EXCEPT ![u] = d],
           GoTo(u, "batch"), UNCHANGED <<db, own>>
    PROVE  RefsOK(u)'
<1>1. stage'[u] = "batch" /\ doc'[u] = d /\ own'[u] = own[u] /\ DOMAIN own[u] = {}
  BY DEF GoTo, LocksInv, TypeOK, LocksOK, Quiet, Running
<1>2. Seen(u)' = Seen(u)
  BY DEF Seen
<1>3. OwnRefs(u)' /\ Consistent(u)'
  BY <1>1, <1>2 DEF OwnRefs, Consistent, RefsClosed, RefsInv, RefsOK
<1>4. DocOK(u)'
  BY <1>1, DocumentsAssumption DEF DocOK, NoMixedDeletes
<1>5. QED
  BY <1>1, <1>3, <1>4 DEF RefsOK, FutureLocked, Unreferenced

LEMMA RefsInit == Init => RefsInv
<1> SUFFICES ASSUME Init PROVE RefsInv
  OBVIOUS
<1>1. RefsShared
  BY InitialRowsAssumption DEF Init, RefsShared, RefsVisible
<1>2. ASSUME NEW u \in Uploads PROVE RefsOK(u)
  <2>1. stage[u] = "idle" /\ own[u] = <<>> /\ doc[u] = <<>> /\ db = InitialRows
    BY DEF Init
  <2>2. Seen(u) = db
    BY <2>1, EmptyOwn, InitialRowsAssumption DEF Seen
  <2>3. Consistent(u)
    BY <2>1, <2>2, InitialRowsAssumption DEF Consistent
  <2>4. OwnRefs(u) /\ DocOK(u)
    BY <2>1, EmptyOwn DEF OwnRefs, DocOK
  <2>5. QED
    BY <2>1, <2>3, <2>4 DEF RefsOK, FutureLocked, Unreferenced
<1>3. QED
  BY <1>1, <1>2 DEF RefsInv

LEMMA RefsStep ==
    ASSUME NoMixedDeletes, LocksInv, RefsInv, [Next]_vars
    PROVE  RefsInv'
<1>t. TypeOK
  BY DEF LocksInv
<1>k. ASSUME UNCHANGED db PROVE RefsShared'
  BY <1>k DEF RefsInv, RefsShared, RefsVisible, RefsClosed
<1>1. CASE UNCHANGED vars
  <2>1. \A v \in Uploads : Same(v)
    BY <1>1 DEF vars, progress, Same, Has
  <2>2. UNCHANGED db
    BY <1>1 DEF vars
  <2>3. \A v \in Uploads : RefsOK(v)'
    BY <2>1, <2>2, RefsFrame DEF RefsInv
  <2>4. QED
    BY <1>k, <2>2, <2>3 DEF RefsInv
<1>2. ASSUME NEW u \in Uploads, Step(u) \/ connection_lost(u), UNCHANGED db, RefsOK(u)'
      PROVE  RefsInv'
  <2>1. ASSUME NEW v \in Uploads, v # u PROVE RefsOK(v)'
    BY <1>2, <1>t, <2>1, OthersSame, RefsFrame DEF RefsInv
  <2>2. QED
    BY <1>2, <1>k, <2>1 DEF RefsInv
<1>3. ASSUME NEW u \in Uploads, NEW code, Throw(u, code) PROVE RefsOK(u)' /\ UNCHANGED db
  BY <1>3, <1>t, EndRefs DEF Throw, RefsInv, RefsShared, RefsVisible, RefsOK, TypeOK
<1>4. ASSUME NEW u \in Uploads, lock_current_changeset(u) PROVE RefsOK(u)' /\ UNCHANGED db
  <2>1. CASE Throw(u, "conflict")
    BY <1>3, <2>1
  <2>2. CASE /\ \E d \in Documents[u] : NewIds(u, d) /\ doc' = [doc EXCEPT ![u] = d]
             /\ GoTo(u, "batch")
             /\ UNCHANGED <<db, at, queue, missing, locks, own>>
    BY <1>4, <2>2, StartRefs DEF lock_current_changeset
  <2>3. QED
    BY <1>4, <2>1, <2>2 DEF lock_current_changeset
<1>f. ASSUME NEW u \in Uploads, Running(u), at[u] \in DOMAIN doc[u], start_lock_future(u)
      PROVE  RefsOK(u)' /\ UNCHANGED db
  <2>1. FutureMembers(batch(u)) \subseteq Elements
    BY <1>f, <1>t, BatchType
  <2>2. UNCHANGED db
    BY <1>f DEF start_lock_future, StartLocking
  <2>3. QED
    BY <1>f, <2>1, <2>2, LockingRefs DEF start_lock_future
<1>5. ASSUME NEW u \in Uploads, lock_current(u) PROVE RefsOK(u)' /\ UNCHANGED db
  <2>1. Ids(batch(u).items) \subseteq Elements
    BY <1>5, <1>t, BatchType DEF lock_current, start_lock_current
  <2>2. UNCHANGED db
    BY <1>5 DEF lock_current, start_lock_current, StartLocking
  <2>3. QED
    BY <1>5, <2>1, <2>2, LockingRefs DEF lock_current, start_lock_current, Running
<1>6. ASSUME NEW u \in Uploads, create(u) PROVE RefsOK(u)' /\ UNCHANGED db
  BY <1>6, <1>f DEF create, Running
<1>7. ASSUME NEW u \in Uploads, LockRow(u) PROVE RefsOK(u)' /\ UNCHANGED db
  BY <1>7, LockRowRefs DEF LockRow
<1>8. ASSUME NEW u \in Uploads, Locked(u) PROVE RefsOK(u)' /\ UNCHANGED db
  BY <1>3, <1>8, LockedRefs DEF Locked
<1>9. ASSUME NEW u \in Uploads, check(u) PROVE RefsOK(u)' /\ UNCHANGED db
  <2>1. CASE \E code : Throw(u, code)
    BY <1>3, <2>1
  <2>2. CASE start_lock_future(u)
    BY <1>9, <1>f, <2>2 DEF check, Running, LocksInv, LocksOK, AtBatch, InBatch
  <2>3. CASE /\ batch(u).op = "delete" /\ GoTo(u, "referenced") /\ \E S : Drop(u, S)
             /\ UNCHANGED <<db, changeset, at, queue, missing, locks, own, answer>>
    BY <1>9, <2>3, DropRefs DEF check
  <2>4. QED
    BY <1>9, <2>1, <2>2, <2>3 DEF check
<1>10. ASSUME NEW u \in Uploads, referenced(u) PROVE RefsOK(u)' /\ UNCHANGED db
  <2> DEFINE in_use == StillReferenced(Seen(u), batch(u).items)
  <2>1. CASE \E code : Throw(u, code)
    BY <1>3, <2>1
  <2>2. CASE /\ \A i \in in_use : i.if_unused
             /\ GoTo(u, "write") /\ Drop(u, in_use)
             /\ UNCHANGED <<db, changeset, at, queue, missing, locks, own, answer>>
    <3>1. stage[u] = "referenced" /\ batch(u).op = "delete" /\ at[u] \in DOMAIN doc[u]
      BY <1>10 DEF referenced, LocksInv, LocksOK, AtBatch, InBatch
    <3>2. batch(u).items \in SUBSET Item
      BY <1>t, <3>1, BatchType DEF Batch
    <3>3. OneKind(batch(u).items) /\ Unmixed(batch(u))
      BY <3>1 DEF batch, RefsInv, RefsOK, DocOK
    <3>4. \A i, j \in batch(u).items : i.if_unused = j.if_unused
      BY <3>1, <3>3 DEF Unmixed
    <3>5. \A e \in Elements : RefsTyped(e, Seen(u)[e].refs)
      BY <1>t, SeenType DEF RefsInv, RefsShared, RefsOK, OwnRefs
    <3>6. NoneReferTo(Seen(u), batch(u).items \ in_use)
      BY <2>2, <3>2, <3>3, <3>4, <3>5, NothingLeftBehind
    <3>7. QED
      BY <2>2, <3>1, <3>6, DropRefs
  <2>3. QED
    BY <1>10, <2>1, <2>2 DEF referenced
<1>11. ASSUME NEW u \in Uploads, write(u) PROVE RefsOK(u)' /\ UNCHANGED db
  BY <1>11, WriteRefs DEF write
<1>12. ASSUME NEW u \in Uploads, deadlock_detected(u) \/ connection_lost(u)
       PROVE  RefsOK(u)' /\ UNCHANGED db
  BY <1>3, <1>12 DEF deadlock_detected, connection_lost
<1>13. ASSUME NEW u \in Uploads, commit(u) PROVE RefsInv'
  <2>1. db' = Seen(u) /\ Seen(u) \in [Elements -> Row] /\ End(u, "ok")
    BY <1>13, <1>t, SeenType DEF commit
  <2>2. RefsClosed(db')
    BY <2>1 DEF RefsInv, RefsOK, Consistent
  <2>3. RefsShared'
    <3>1. \A e \in Elements : RefsTyped(e, Seen(u)[e].refs)
      BY <1>t, SeenType DEF RefsInv, RefsShared, RefsOK, OwnRefs
    <3>2. QED
      BY <2>1, <2>2, <3>1 DEF RefsShared, RefsVisible, RefsClosed
  <2>4. RefsOK(u)'
    BY <1>t, <2>1, <2>2, EndRefs DEF RefsInv, RefsOK
  <2>5. \A v \in Uploads : v # u => RefsOK(v)'
    BY <1>13, CommitRefs
  <2>6. QED
    BY <2>3, <2>4, <2>5 DEF RefsInv
<1>14. ASSUME NEW u \in Uploads, Step(u) \/ connection_lost(u) PROVE RefsInv'
  BY <1>2, <1>4, <1>5, <1>6, <1>7, <1>8, <1>9, <1>10, <1>11, <1>12, <1>13, <1>14 DEF Step
<1>15. QED
  BY <1>1, <1>14 DEF Next

(***************************************************************************)
(* What is committed                                                       *)
(***************************************************************************)
\* However many uploads run side by side, with whatever documents, nothing
\* visible is left referring to a deleted or unknown element: the FOR SHARE
\* locks of lock_future_* and the FOR UPDATE locks that is_*_still_referenced
\* relies on exclude each other.  NoMixedDeletes is needed: a call in which
\* only some deletes have if-unused can break it even alone, as the run
\* mixed_deletes shows.
THEOREM RefsAlwaysVisible == ASSUME NoMixedDeletes PROVE Spec => []RefsVisible
<1>1. Init => LocksInv /\ RefsInv
  BY LocksInit, RefsInit
<1>2. LocksInv /\ RefsInv /\ [Next]_vars => LocksInv' /\ RefsInv'
  BY LocksStep, RefsStep
<1>3. RefsInv => RefsVisible
  BY DEF RefsInv, RefsShared
<1>4. QED
  BY <1>1, <1>2, <1>3, PTL DEF Spec
=============================================================================
