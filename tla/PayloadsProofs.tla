--------------------------- MODULE PayloadsProofs ---------------------------
(***************************************************************************)
(* Payloads: that the osmChange parser tells its handler what the document *)
(* says, that both parsers accept only complete documents, and that the    *)
(* first error is the one reported, for documents of any length and any    *)
(* names and attributes.                                                   *)
(***************************************************************************)
EXTENDS Payloads, SequenceTheorems, FiniteSetTheorems, TLAPS

-----------------------------------------------------------------------------
(* Sequences, of whatever they are.                                        *)

IsSeq(s) == Len(s) \in Nat /\ s = [i \in 1..Len(s) |-> s[i]]

Longer(s, n, x) ==
    /\ IsSeq(n) /\ Len(n) = Len(s) + 1 /\ DOMAIN n = 1..Len(s) + 1
    /\ n[Len(s) + 1] = x
    /\ \A i \in 1..Len(s) : n[i] = s[i]

LEMMA SeqOfItsElements ==
    ASSUME NEW s, IsSeq(s), NEW x
    PROVE  s \in Seq({s[i] : i \in 1..Len(s)} \cup {x})
<1> DEFINE S == {s[i] : i \in 1..Len(s)} \cup {x}
<1>1. s = [i \in 1..Len(s) |-> s[i]] /\ Len(s) \in Nat
  BY DEF IsSeq
<1>2. \A i \in 1..Len(s) : s[i] \in S
  OBVIOUS
<1>3. s \in [1..Len(s) -> S]
  BY <1>1, <1>2
<1> HIDE DEF S
<1>4. QED
  BY <1>1, <1>3 DEF S

LEMMA SeqIsSeq == ASSUME NEW S, NEW s \in Seq(S) PROVE IsSeq(s)
  BY DEF IsSeq

LEMMA AppendSeq ==
    ASSUME NEW s, IsSeq(s), NEW x
    PROVE  Longer(s, Append(s, x), x)
<1> DEFINE S == {s[i] : i \in 1..Len(s)} \cup {x}
<1>1. s \in Seq(S)
  BY SeqOfItsElements
<1>2. x \in S
  OBVIOUS
<1> HIDE DEF S
<1>3. Append(s, x) \in Seq(S)
  BY <1>1, <1>2
<1>4. IsSeq(Append(s, x))
  BY <1>3, SeqIsSeq
<1>5. /\ Len(Append(s, x)) = Len(s) + 1 /\ DOMAIN Append(s, x) = 1..Len(s) + 1
      /\ Append(s, x)[Len(s) + 1] = x
  BY <1>1, <1>2, <1>3
<1>6. \A i \in 1..Len(s) : Append(s, x)[i] = s[i]
  BY <1>1, <1>2, <1>3
<1>7. QED
  BY <1>4, <1>5, <1>6 DEF Longer

LEMMA FrontSeq ==
    ASSUME NEW s, IsSeq(s), Len(s) > 0
    PROVE  /\ IsSeq(Front(s)) /\ Len(Front(s)) = Len(s) - 1
           /\ \A i \in 1..Len(s) - 1 : Front(s)[i] = s[i]
<1> DEFINE S == {s[i] : i \in 1..Len(s)}
           n == Len(s) - 1
<1>1. n \in Nat /\ 1 \in Int /\ n \in Int
  BY DEF IsSeq
<1>2. \A i \in 1..n : s[i] \in S
  BY <1>1
<1> HIDE DEF S, n
<1>3. /\ SubSeq(s, 1, n) \in Seq(S)
      /\ Len(SubSeq(s, 1, n)) = IF 1 <= n THEN n - 1 + 1 ELSE 0
      /\ \A i \in 1..n - 1 + 1 : SubSeq(s, 1, n)[i] = s[1 + i - 1]
  BY <1>1, <1>2, SubSeqProperties
<1>4. Front(s) = SubSeq(s, 1, n)
  BY DEF Front, n
<1>5. Len(Front(s)) = n /\ \A i \in 1..n : Front(s)[i] = s[i]
  BY <1>1, <1>3, <1>4
<1>6. IsSeq(Front(s))
  BY <1>3, <1>4, SeqIsSeq
<1>7. QED
  BY <1>5, <1>6 DEF n

LEMMA FcnIsSeq ==
    ASSUME NEW n \in Nat, NEW f, f = [i \in 1..n |-> f[i]]
    PROVE  IsSeq(f) /\ Len(f) = n
<1> DEFINE S == {f[i] : i \in 1..n}
<1>1. f \in [1..n -> S]
  OBVIOUS
<1> HIDE DEF S
<1>2. f \in Seq(S) /\ Len(f) = n
  BY <1>1
<1>3. QED
  BY <1>2, SeqIsSeq

LastReplaced(s, n, x) ==
    /\ IsSeq(n) /\ Len(n) = Len(s) /\ n[Len(s)] = x
    /\ \A i \in 1..Len(s) - 1 : n[i] = s[i]

LEMMA ReplacedSeq ==
    ASSUME NEW s, IsSeq(s), Len(s) > 0, NEW x
    PROVE  LastReplaced(s, [s EXCEPT ![Len(s)] = x], x)
<1> DEFINE m == Len(s)
           n == [s EXCEPT ![Len(s)] = x]
<1>1. m \in Nat /\ s = [i \in 1..m |-> s[i]] /\ m > 0
  BY DEF IsSeq
<1>2. n = [s EXCEPT ![m] = x]
  OBVIOUS
<1> HIDE DEF m, n
<1>3. n = [i \in 1..m |-> IF i = m THEN x ELSE s[i]]
  BY <1>1, <1>2
<1>4. n = [i \in 1..m |-> n[i]] /\ n[m] = x /\ \A i \in 1..m - 1 : n[i] = s[i]
  BY <1>1, <1>3
<1>5. IsSeq(n) /\ Len(n) = m
  BY <1>1, <1>4, FcnIsSeq
<1>6. QED
  BY <1>4, <1>5 DEF m, n, LastReplaced

LEMMA EmptyIsSeq == IsSeq(<<>>) /\ Len(<<>>) = 0
<1>1. <<>> \in Seq({})
  OBVIOUS
<1>2. QED
  BY <1>1, SeqIsSeq

LEMMA ZeroIsEmpty == ASSUME NEW s, IsSeq(s) PROVE Len(s) = 0 <=> s = <<>>
  BY SeqOfItsElements, EmptyIsSeq

LEMMA LastOfSeq == ASSUME NEW s, IsSeq(s) PROVE Last(s) = s[Len(s)]
  BY DEF Last

-----------------------------------------------------------------------------
(* libxml2 and its wrapper.                                                *)

\* libxml2 is stopped because of an exception, which is the first problem there
\* was, and a document that is not well-formed has no other.
KeptInv ==
    /\ stopped \in BOOLEAN /\ xml_error \in BOOLEAN
    /\ exception = "none" <=> stopped = FALSE
    /\ stopped = TRUE => first = exception /\ xml_error = FALSE
    /\ stopped = FALSE => first = IF xml_error THEN bad_request ELSE "none"

SaxInv ==
    /\ kind \in {"upload", "changeset"}
    /\ IsSeq(open)
    /\ elements \in Nat
    /\ open # <<>> => elements > 0
    /\ exception # "ok"
    /\ outcome = "ok" => exception = "none" /\ open = <<>> /\ elements > 0
    /\ KeptInv

(* The osmChange parser, as long as nothing was thrown.                    *)

UnusedOnly(b) == b.name = "delete" /\ b.attrs.if_unused # missing

\* The stack of contexts is that of the open elements; the operation and
\* if-unused are those of the open block, or reset.
ContextInv ==
    /\ IsSeq(m_context) /\ Len(m_context) = Len(open) + 1 /\ Len(open) <= 4
    /\ m_context[1] = "root"
    /\ Len(open) >= 1 => m_context[2] = "top"
    /\ Len(open) >= 2 => /\ m_context[3] = m_operation /\ m_operation \in Blocks
                         /\ m_operation = open[2].name
    /\ Len(open) >= 3 => m_context[4] = m_object.type /\ m_object.type \in Objects
    /\ Len(open) >= 4 => m_context[5] = "in_object"
    /\ Len(open) < 2 => m_if_unused = FALSE
    /\ Len(open) >= 2 => m_if_unused = UnusedOnly(open[2])

\* How many elements the handler has been told of.
Told == IF Len(open) >= 3 THEN Len(doc) - 1 ELSE Len(doc)

ElementShape(d) ==
    /\ d = [name |-> d.name, attrs |-> d.attrs, block |-> d.block,
            tags |-> d.tags, refs |-> d.refs, complete |-> d.complete]
    /\ IsSeq(d.tags) /\ IsSeq(d.refs)

\* The calls are a start_document, one for each element that is complete, and
\* an end_document when the root was closed; the object is the element that
\* is open.
DocumentInv ==
    /\ IsSeq(doc) /\ IsSeq(calls)
    /\ elements = 0 => open = <<>> /\ doc = <<>> /\ calls = <<>>
    /\ elements > 0 => /\ Len(calls) = (IF open = <<>> THEN Told + 2 ELSE Told + 1)
                       /\ calls[1] = [call |-> "start_document"]
                       /\ open = <<>> => calls[Len(calls)] = [call |-> "end_document"]
    /\ \A i \in 1..Told : doc[i].complete /\ calls[i + 1] = Meant(doc[i])
    /\ Len(open) >= 3 => /\ Len(doc) > 0
                         /\ ElementShape(doc[Len(doc)])
                         /\ doc[Len(doc)].complete = FALSE
                         /\ doc[Len(doc)].block = open[2]
                         /\ m_object = Described(doc[Len(doc)])

UploadInv == kind = "upload" /\ exception = "none" => ContextInv /\ DocumentInv

(* The changeset parser, as long as nothing was thrown or nested.          *)

Contexts == <<"root", "top", "in_changeset", "in_tag">>

TagsInv ==
    /\ IsSeq(cs_doc) /\ IsSeq(m_tags)
    /\ \A i \in DOMAIN m_tags : m_tags[i] = [k |-> m_tags[i].k, v |-> m_tags[i].v]
    /\ \A i, j \in DOMAIN m_tags : m_tags[i].k = m_tags[j].k => i = j
    /\ {m_tags[i] : i \in DOMAIN m_tags} = TagsInDocument

ChangesetInv ==
    kind = "changeset" /\ exception = "none" /\ nested = FALSE =>
        /\ Len(open) <= 3
        /\ cs_context = Contexts[Len(open) + 1]
        /\ TagsInv

PayloadsInv == SaxInv /\ UploadInv /\ ChangesetInv /\ nested \in BOOLEAN

-----------------------------------------------------------------------------
(* Elements begin.                                                         *)

\* The depth of the document tells the context of the parser.
LEMMA ContextOfDepth ==
    ASSUME ContextInv, IsSeq(open)
    PROVE  /\ Len(open) \in 0..4
           /\ context = "root" <=> Len(open) = 0
           /\ context = "top" <=> Len(open) = 1
           /\ context \in Blocks <=> Len(open) = 2
           /\ context \in Objects <=> Len(open) = 3
           /\ context = "in_object" <=> Len(open) = 4
           /\ Len(open) = 2 => context = m_operation
<1>1. context = m_context[Len(open) + 1]
  BY LastOfSeq DEF ContextInv, context
<1>2. Len(open) \in 0..4
  BY DEF ContextInv, IsSeq
<1>3. /\ Len(open) = 0 => context = "root"
      /\ Len(open) = 1 => context = "top"
      /\ Len(open) = 2 => context \in Blocks /\ context = m_operation
      /\ Len(open) = 3 => context \in Objects
      /\ Len(open) = 4 => context = "in_object"
  <2>1. Len(open) = 2 => context \in Blocks /\ context = m_operation
    BY <1>1, <1>2 DEF ContextInv
  <2>2. Len(open) = 3 => context \in Objects
    BY <1>1, <1>2 DEF ContextInv
  <2>3. Len(open) = 4 => context = "in_object"
    BY <1>1, <1>2 DEF ContextInv
  <2>4. Len(open) = 0 => context = "root"
    BY <1>1, <1>2 DEF ContextInv
  <2>5. Len(open) = 1 => context = "top"
    BY <1>1, <1>2 DEF ContextInv
  <2>6. QED
    BY <2>1, <2>2, <2>3, <2>4, <2>5
<1>4. QED
  BY <1>2, <1>3 DEF Blocks, Objects

\* What an element that begins does to the stack of open elements.
Deeper(e, a) ==
    /\ Longer(open, open', Opened(e, a))
    /\ elements' = elements + 1
    /\ elements = 0 \/ open # <<>>

LEMMA StartsDeeper ==
    ASSUME SaxInv, NEW e, NEW a, start_tag(e, a)
    PROVE  Deeper(e, a)
  BY AppendSeq DEF SaxInv, start_tag, Deeper

LEMMA RootBegins ==
    ASSUME SaxInv, ContextInv, DocumentInv, NEW e, NEW a, Deeper(e, a),
           start_in_root(e), exception' = "none", doc' = doc
    PROVE  ContextInv' /\ DocumentInv'
<1>1. /\ Push("top") /\ calls' = Append(calls, [call |-> "start_document"])
      /\ m_operation' = m_operation /\ m_if_unused' = m_if_unused /\ m_object' = m_object
  BY DEF start_in_root, Throw, handle_exception, bad_request
<1>2. Len(open) = 0 /\ open = <<>> /\ elements = 0
  BY ContextOfDepth, ZeroIsEmpty DEF SaxInv, start_in_root, Deeper
<1>3. doc = <<>> /\ calls = <<>>
  BY <1>2 DEF DocumentInv
<1>4. Longer(m_context, m_context', "top")
  BY <1>1, AppendSeq DEF ContextInv, Push
<1>5. Len(open') = 1 /\ elements' = 1 /\ IsSeq(open')
  BY <1>2 DEF Deeper, Longer
<1>6. Longer(calls, calls', [call |-> "start_document"])
  BY <1>1, <1>3, EmptyIsSeq, AppendSeq
<1>7. ContextInv'
  BY <1>1, <1>2, <1>4, <1>5 DEF ContextInv, Longer
<1>8. DocumentInv'
  <2>1. IsSeq(calls') /\ Len(calls') = 1 /\ calls'[1] = [call |-> "start_document"]
    BY <1>3, <1>6, EmptyIsSeq DEF Longer
  <2>2. IsSeq(doc') /\ Len(doc') = 0 /\ Told' = 0
    BY <1>3, <1>5, EmptyIsSeq DEF Told
  <2>3. open' # <<>>
    BY <1>5, EmptyIsSeq
  <2>4. QED
    BY <1>5, <2>1, <2>2, <2>3 DEF DocumentInv
<1>9. QED
  BY <1>7, <1>8

LEMMA BlockBegins ==
    ASSUME SaxInv, ContextInv, DocumentInv, NEW e, NEW a, Deeper(e, a),
           start_in_top(e, a), exception' = "none", doc' = doc
    PROVE  ContextInv' /\ DocumentInv'
<1>1. /\ e \in Blocks /\ Push(e) /\ m_operation' = e
      /\ m_if_unused' = (IF e = "delete" THEN a.if_unused # missing ELSE m_if_unused)
      /\ m_object' = m_object /\ calls' = calls
  BY DEF start_in_top, Throw, handle_exception, bad_request
<1>2. Len(open) = 1
  BY ContextOfDepth DEF SaxInv, start_in_top
<1>3. Longer(m_context, m_context', e)
  BY <1>1, AppendSeq DEF ContextInv, Push
<1>4. /\ Len(open') = 2 /\ elements' = elements + 1 /\ IsSeq(open')
      /\ open'[2] = [name |-> e, attrs |-> a]
  BY <1>2 DEF Deeper, Longer, Opened
<1>5. open # <<>> /\ open' # <<>> /\ elements > 0 /\ elements' > 0
  BY <1>2, <1>4, EmptyIsSeq DEF SaxInv
<1>6. m_if_unused = FALSE
  BY <1>2 DEF ContextInv
<1>7. m_if_unused' = UnusedOnly(open'[2])
  <2>1. open'[2].attrs.if_unused = a.if_unused /\ open'[2].name = e
    BY <1>4
  <2>2. QED
    <3>1. CASE e = "delete"
      <4>1. m_if_unused' = (a.if_unused # missing)
        BY <1>1, <3>1
      <4>2. UnusedOnly(open'[2]) = (a.if_unused # missing)
        BY <2>1, <3>1 DEF UnusedOnly
      <4>3. QED
        BY <4>1, <4>2
    <3>2. CASE e # "delete"
      <4>1. m_if_unused' = FALSE
        BY <1>1, <1>6, <3>2
      <4>2. UnusedOnly(open'[2]) = FALSE
        BY <2>1, <3>2 DEF UnusedOnly
      <4>3. QED
        BY <4>1, <4>2
    <3>3. QED
      BY <3>1, <3>2
<1>8. ContextInv'
  <2>1. /\ IsSeq(m_context') /\ Len(m_context') = 3
        /\ m_context'[1] = "root" /\ m_context'[2] = "top" /\ m_context'[3] = e
    <3>1. Len(m_context) = 2 /\ m_context[1] = "root" /\ m_context[2] = "top"
      BY <1>2 DEF ContextInv
    <3>2. QED
      BY <1>3, <3>1 DEF Longer
  <2>2. m_operation' = open'[2].name
    BY <1>1, <1>4
  <2>3. m_operation' \in Blocks /\ m_context'[3] = m_operation'
    BY <1>1, <2>1
  <2>4. /\ Len(m_context') = Len(open') + 1 /\ Len(open') <= 4
        /\ ~(Len(open') >= 3) /\ ~(Len(open') >= 4) /\ ~(Len(open') < 2)
    BY <1>4, <2>1
  <2>5. QED
    BY <1>7, <2>1, <2>2, <2>3, <2>4 DEF ContextInv
<1>9. DocumentInv'
  <2>1. Told' = Told
    BY <1>2, <1>4 DEF Told
  <2>2. QED
    BY <1>1, <1>2, <1>4, <1>5, <2>1 DEF DocumentInv
<1>10. QED
  BY <1>8, <1>9

LEMMA ElementBegins ==
    ASSUME SaxInv, ContextInv, DocumentInv, NEW e, NEW a, Deeper(e, a),
           start_in_block(e, a), exception' = "none", ReadStart(e, a)
    PROVE  ContextInv' /\ DocumentInv'
<1> DEFINE d == [name |-> e, attrs |-> a, block |-> open[2],
                 tags |-> <<>>, refs |-> <<>>, complete |-> FALSE]
           n == Len(doc)
<1>1. /\ e \in Objects /\ Push(e) /\ m_object' = new_object(e, a)
      /\ m_operation' = m_operation /\ m_if_unused' = m_if_unused /\ calls' = calls
  BY DEF start_in_block, Throw, handle_exception, bad_request
<1>2. Len(open) = 2
  BY ContextOfDepth DEF SaxInv, start_in_block
<1>3. doc' = Append(doc, d)
  BY <1>2 DEF ReadStart
<1>4. /\ Len(open') = 3 /\ elements' = elements + 1 /\ IsSeq(open') /\ open'[2] = open[2]
  BY <1>2 DEF Deeper, Longer
<1>5. open # <<>> /\ open' # <<>> /\ elements > 0 /\ elements' > 0
  BY <1>2, <1>4, EmptyIsSeq DEF SaxInv
<1>6. /\ m_context[3] = m_operation /\ m_operation \in Blocks /\ m_operation = open[2].name
      /\ m_context[1] = "root" /\ m_context[2] = "top" /\ m_if_unused = UnusedOnly(open[2])
      /\ Len(m_context) = 3 /\ IsSeq(m_context)
  BY <1>2 DEF ContextInv
<1>7. Longer(m_context, m_context', e)
  BY <1>1, <1>6, AppendSeq DEF Push
<1>8. m_object' = Described(d) /\ m_object'.type = e
  <2>1. TagsOf(<<>>) = <<>>
    BY DEF TagsOf
  <2>2. RefsOf(e, <<>>) = <<>>
    BY DEF RefsOf
  <2>3. (IF m_operation = "create" THEN 0 ELSE narrowed(a.version))
           = (IF open[2].name = "create" THEN 0 ELSE a.version % Word)
    BY <1>6 DEF narrowed
  <2>4. /\ d.name = e /\ d.attrs = a /\ d.block = open[2] /\ d.tags = <<>> /\ d.refs = <<>>
    OBVIOUS
  <2>5. Described(d) = [type |-> e, id |-> a.id, changeset |-> a.changeset,
                        version |-> IF open[2].name = "create" THEN 0 ELSE a.version % Word,
                        located |-> e = "node" /\ a.position = "valid",
                        tags |-> <<>>, refs |-> <<>>]
    BY <2>1, <2>2, <2>4, Zenon DEF Described
  <2>6. new_object(e, a) = Described(d)
    BY <2>3, <2>5 DEF new_object
  <2>7. QED
    BY <1>1, <2>6 DEF new_object
<1>9. ContextInv'
  <2>1. /\ IsSeq(m_context') /\ Len(m_context') = 4
        /\ m_context'[1] = "root" /\ m_context'[2] = "top" /\ m_context'[3] = m_operation
        /\ m_context'[4] = e
    BY <1>6, <1>7 DEF Longer
  <2>2. /\ Len(m_context') = Len(open') + 1 /\ Len(open') <= 4
        /\ ~(Len(open') >= 4) /\ ~(Len(open') < 2)
    BY <1>4, <2>1
  <2>3. QED
    BY <1>1, <1>4, <1>6, <1>8, <2>1, <2>2 DEF ContextInv
<1>10. DocumentInv'
  <2>1. Longer(doc, doc', d)
    BY <1>3, AppendSeq DEF DocumentInv
  <2>2. /\ IsSeq(doc') /\ Len(doc') = n + 1 /\ doc'[n + 1] = d /\ n \in Nat
        /\ \A i \in 1..n : doc'[i] = doc[i]
    BY <2>1 DEF Longer, DocumentInv, IsSeq
  <2>3. Told' = n /\ Told = n
    BY <1>2, <1>4, <2>2 DEF Told
  <2>4. ElementShape(d) /\ d.complete = FALSE /\ d.block = open[2]
    BY EmptyIsSeq DEF ElementShape
  <2> HIDE DEF d, n
  <2>5. Len(doc') > 0 /\ doc'[Len(doc')] = d
    BY <2>2
  <2>6. \A i \in 1..n : doc'[i].complete /\ calls'[i + 1] = Meant(doc'[i])
    BY <1>1, <2>2, <2>3 DEF DocumentInv
  <2>7. Len(calls') = n + 1 /\ calls'[1] = [call |-> "start_document"] /\ IsSeq(calls')
    BY <1>1, <1>5, <2>3 DEF DocumentInv
  <2>8. QED
    BY <1>4, <1>5, <1>8, <2>2, <2>3, <2>4, <2>5, <2>6, <2>7 DEF DocumentInv
<1>11. QED
  BY <1>9, <1>10

\* A tag or a reference is added to an element as to the object.
FcnPlusOne(s, l, f, g, y) ==
    /\ f = [i \in DOMAIN s |-> f[i]]
    /\ g = [i \in DOMAIN l |-> g[i]]
    /\ \A i \in DOMAIN s : g[i] = f[i]
    /\ g[Len(s) + 1] = y

LEMMA MapAppend ==
    ASSUME NEW s, IsSeq(s), NEW a, NEW y, NEW f, NEW g, FcnPlusOne(s, Append(s, a), f, g, y)
    PROVE  g = Append(f, y)
<1> DEFINE n == Len(s)
<1>1. n \in Nat /\ DOMAIN s = 1..n /\ DOMAIN Append(s, a) = 1..n + 1
  BY AppendSeq DEF IsSeq, Longer
<1> HIDE DEF n
<1>2. IsSeq(f) /\ Len(f) = n
  BY <1>1, FcnIsSeq DEF FcnPlusOne
<1>3. Longer(f, Append(f, y), y)
  BY <1>2, AppendSeq
<1>4. /\ \A i \in 1..n : Append(f, y)[i] = f[i]
      /\ Append(f, y)[n + 1] = y
      /\ Append(f, y) = [i \in 1..n + 1 |-> Append(f, y)[i]]
  BY <1>2, <1>3 DEF Longer, IsSeq
<1>5. g[n + 1] = y /\ g = [i \in 1..n + 1 |-> g[i]] /\ \A i \in 1..n : g[i] = f[i]
  BY <1>1 DEF n, FcnPlusOne
<1> DEFINE h == Append(f, y)
<1> HIDE DEF h
<1>6. \A i \in 1..n + 1 : g[i] = h[i]
  BY <1>1, <1>4, <1>5 DEF h
<1>7. g = h
  BY <1>4, <1>5, <1>6 DEF h
<1>8. QED
  BY <1>7 DEF h

LEMMA TagAppended ==
    ASSUME NEW s, IsSeq(s), NEW a
    PROVE  TagsOf(Append(s, a)) = Append(TagsOf(s), [k |-> a.k, v |-> a.v])
<1> DEFINE l == Append(s, a)
           f == TagsOf(s)
           g == TagsOf(l)
           y == [k |-> a.k, v |-> a.v]
<1>1. Longer(s, l, a) /\ DOMAIN s = 1..Len(s) /\ Len(s) \in Nat
  BY AppendSeq DEF IsSeq
<1> HIDE DEF l
<1>2. f = [i \in DOMAIN s |-> f[i]] /\ g = [i \in DOMAIN l |-> g[i]]
  BY DEF TagsOf
<1>3. \A i \in DOMAIN s : g[i] = f[i]
  BY <1>1 DEF TagsOf, Longer
<1>4. g[Len(s) + 1] = y
  BY <1>1 DEF TagsOf, Longer
<1> HIDE DEF f, g, y
<1>5. FcnPlusOne(s, Append(s, a), f, g, y)
  BY <1>2, <1>3, <1>4 DEF FcnPlusOne, l
<1>6. g = Append(f, y)
  BY <1>5, MapAppend
<1>7. QED
  BY <1>6 DEF f, g, y, l

LEMMA RefAppended ==
    ASSUME NEW s, IsSeq(s), NEW a, NEW name
    PROVE  RefsOf(name, Append(s, a)) =
             Append(RefsOf(name, s), [type |-> IF name = "way" THEN "node" ELSE a.type, ref |-> a.ref])
<1> DEFINE l == Append(s, a)
           f == RefsOf(name, s)
           g == RefsOf(name, l)
           y == [type |-> IF name = "way" THEN "node" ELSE a.type, ref |-> a.ref]
<1>1. Longer(s, l, a) /\ DOMAIN s = 1..Len(s) /\ Len(s) \in Nat
  BY AppendSeq DEF IsSeq
<1> HIDE DEF l
<1>2. f = [i \in DOMAIN s |-> f[i]] /\ g = [i \in DOMAIN l |-> g[i]]
  BY DEF RefsOf
<1>3. \A i \in DOMAIN s : g[i] = f[i]
  BY <1>1 DEF RefsOf, Longer
<1>4. g[Len(s) + 1] = y
  BY <1>1 DEF RefsOf, Longer
<1> HIDE DEF f, g, y
<1>5. FcnPlusOne(s, Append(s, a), f, g, y)
  BY <1>2, <1>3, <1>4 DEF FcnPlusOne, l
<1>6. g = Append(f, y)
  BY <1>5, MapAppend
<1>7. QED
  BY <1>6 DEF f, g, y, l

Extends(d, n, tags, refs) ==
    n = [name |-> d.name, attrs |-> d.attrs, block |-> d.block,
         tags |-> tags, refs |-> refs, complete |-> d.complete]

\* An object with other tags and references.
Changed(o, tags, refs) ==
    [type |-> o.type, id |-> o.id, changeset |-> o.changeset, version |-> o.version,
     located |-> o.located, tags |-> tags, refs |-> refs]

LEMMA DescribedAnew ==
    ASSUME NEW d, ElementShape(d), NEW n, NEW tags, NEW refs, Extends(d, n, tags, refs),
           IsSeq(tags), IsSeq(refs)
    PROVE  /\ ElementShape(n) /\ n.complete = d.complete /\ n.block = d.block
           /\ Described(n) = Changed(Described(d), TagsOf(tags), RefsOf(d.name, refs))
<1>1. /\ n.name = d.name /\ n.attrs = d.attrs /\ n.block = d.block
      /\ n.tags = tags /\ n.refs = refs /\ n.complete = d.complete
  BY DEF Extends
<1>2. Described(n) = Changed(Described(d), TagsOf(tags), RefsOf(d.name, refs))
  <2>1. /\ Described(n).type = Described(d).type
        /\ Described(n).id = Described(d).id
        /\ Described(n).changeset = Described(d).changeset
        /\ Described(n).version = Described(d).version
    BY <1>1 DEF Described
  <2>2. Described(n).located = Described(d).located
    <3> DEFINE loc == d.name = "node" /\ d.attrs.position = "valid"
               nloc == n.name = "node" /\ n.attrs.position = "valid"
    <3>1. loc = nloc
      BY <1>1
    <3>2. Described(n).located = nloc /\ Described(d).located = loc
      BY DEF Described
    <3> HIDE DEF loc, nloc
    <3>3. QED
      BY <3>1, <3>2
  <2>3. Described(n).tags = TagsOf(tags) /\ Described(n).refs = RefsOf(d.name, refs)
    BY <1>1 DEF Described
  <2>4. Described(n) = Changed(Described(n), Described(n).tags, Described(n).refs)
    BY DEF Described, Changed
  <2>5. QED
    BY <2>1, <2>2, <2>3, <2>4 DEF Changed
<1>3. ElementShape(n)
  BY <1>1 DEF ElementShape, Extends
<1>4. QED
  BY <1>1, <1>2, <1>3

LEMMA DescribedShape ==
    ASSUME NEW d
    PROVE  LET o == Described(d)
           IN  /\ o.type = d.name /\ o.tags = TagsOf(d.tags) /\ o.refs = RefsOf(d.name, d.refs)
               /\ o = Changed(o, o.tags, o.refs)
               /\ \A t : [o EXCEPT !.tags = t] = Changed(o, t, o.refs)
               /\ \A r : [o EXCEPT !.refs = r] = Changed(o, o.tags, r)
<1> DEFINE o == Described(d)
<1>1. o = Changed(o, o.tags, o.refs)
  BY DEF Described, Changed
<1>2. o.type = d.name /\ o.tags = TagsOf(d.tags) /\ o.refs = RefsOf(d.name, d.refs)
  BY DEF Described
<1> HIDE DEF o
<1>3. ASSUME NEW t PROVE [o EXCEPT !.tags = t] = Changed(o, t, o.refs)
  BY <1>1 DEF Changed
<1>4. ASSUME NEW r PROVE [o EXCEPT !.refs = r] = Changed(o, o.tags, r)
  BY <1>1 DEF Changed
<1>5. QED
  BY <1>1, <1>2, <1>3, <1>4 DEF o

LEMMA ChildDescribed ==
    ASSUME IsSeq(doc), Len(doc) > 0, ElementShape(doc[Len(doc)]), m_object = Described(doc[Len(doc)]),
           Len(open) = 3, NEW e, NEW a, exception' = "none", ReadStart(e, a), m_object' = Extended(e, a)
    PROVE  \E n : /\ doc' = [doc EXCEPT ![Len(doc)] = n]
                  /\ ElementShape(n) /\ n.complete = doc[Len(doc)].complete
                  /\ n.block = doc[Len(doc)].block
                  /\ m_object' = Described(n) /\ m_object'.type = m_object.type
<1> DEFINE d == doc[Len(doc)]
<1>1. Last(doc).name = d.name
  BY LastOfSeq
<1>2. /\ m_object.type = d.name /\ m_object.tags = TagsOf(d.tags)
      /\ m_object.refs = RefsOf(d.name, d.refs)
      /\ m_object = Changed(m_object, m_object.tags, m_object.refs)
      /\ \A t : [m_object EXCEPT !.tags = t] = Changed(m_object, t, m_object.refs)
      /\ \A r : [m_object EXCEPT !.refs = r] = Changed(m_object, m_object.tags, r)
  BY DescribedShape
<1>3. /\ d = [name |-> d.name, attrs |-> d.attrs, block |-> d.block,
              tags |-> d.tags, refs |-> d.refs, complete |-> d.complete]
      /\ IsSeq(d.tags) /\ IsSeq(d.refs)
  BY DEF ElementShape
<1>4. CASE e = "tag"
  <2> DEFINE n == [name |-> d.name, attrs |-> d.attrs, block |-> d.block,
                   tags |-> Append(d.tags, a), refs |-> d.refs, complete |-> d.complete]
  <2>1. doc' = [doc EXCEPT ![Len(doc)].tags = Append(@, a)]
    BY <1>4 DEF ReadStart, References
  <2>2. [d EXCEPT !.tags = Append(@, a)] = n
    <3> HIDE DEF d
    <3>1. ASSUME NEW t
          PROVE  [d EXCEPT !.tags = t] = [name |-> d.name, attrs |-> d.attrs, block |-> d.block,
                                          tags |-> t, refs |-> d.refs, complete |-> d.complete]
      BY <1>3
    <3>2. QED
      BY <3>1
  <2>3. doc' = [doc EXCEPT ![Len(doc)] = n]
    <3> HIDE DEF n
    <3>1. QED
      BY <2>1, <2>2
  <2>4. Extends(d, n, Append(d.tags, a), d.refs) /\ IsSeq(Append(d.tags, a))
    BY <1>3, AppendSeq DEF Extends, Longer
  <2> HIDE DEF n
  <2>5. /\ ElementShape(n) /\ n.complete = d.complete /\ n.block = d.block
        /\ Described(n) = Changed(m_object, TagsOf(Append(d.tags, a)), m_object.refs)
    BY <1>2, <1>3, <2>4, DescribedAnew
  <2>6. m_object' = Changed(m_object, Append(m_object.tags, [k |-> a.k, v |-> a.v]), m_object.refs)
    BY <1>2, <1>4 DEF Extended
  <2>7. m_object' = Described(n)
    <3> HIDE DEF d
    <3>1. TagsOf(Append(d.tags, a)) = Append(m_object.tags, [k |-> a.k, v |-> a.v])
      BY <1>2, <1>3, TagAppended
    <3>2. QED
      BY <2>5, <2>6, <3>1
  <2>8. m_object'.type = m_object.type
    BY <2>6 DEF Changed
  <2>9. QED
    BY <2>3, <2>5, <2>7, <2>8
<1>5. CASE e # "tag" /\ e \in References(d.name)
  <2> DEFINE n == [name |-> d.name, attrs |-> d.attrs, block |-> d.block,
                   tags |-> d.tags, refs |-> Append(d.refs, a), complete |-> d.complete]
             y == [type |-> IF d.name = "way" THEN "node" ELSE a.type, ref |-> a.ref]
  <2>1. doc' = [doc EXCEPT ![Len(doc)].refs = Append(@, a)]
    BY <1>1, <1>5 DEF ReadStart
  <2>2. [d EXCEPT !.refs = Append(@, a)] = n
    BY <1>3
  <2>3. doc' = [doc EXCEPT ![Len(doc)] = n]
    <3> HIDE DEF n
    <3>1. QED
      BY <2>1, <2>2
  <2>4. Extends(d, n, d.tags, Append(d.refs, a)) /\ IsSeq(Append(d.refs, a))
    BY <1>3, AppendSeq DEF Extends, Longer
  <2> HIDE DEF n
  <2>5. /\ ElementShape(n) /\ n.complete = d.complete /\ n.block = d.block
        /\ Described(n) = Changed(m_object, m_object.tags, RefsOf(d.name, Append(d.refs, a)))
    BY <1>2, <1>3, <2>4, DescribedAnew
  <2>6. m_object' = [m_object EXCEPT !.refs = Append(@, y)]
    <3>1. \/ e = "nd" /\ d.name = "way"
          \/ e = "member" /\ d.name = "relation"
      BY <1>5 DEF References
    <3>2. CASE e = "nd" /\ d.name = "way"
      BY <1>2, <3>2 DEF Extended
    <3>3. CASE e = "member" /\ d.name = "relation"
      BY <1>2, <3>3 DEF Extended
    <3>4. QED
      BY <3>1, <3>2, <3>3
  <2>7. m_object' = Changed(m_object, m_object.tags, Append(m_object.refs, y))
    BY <1>2, <2>6
  <2>8. m_object' = Described(n)
    <3> HIDE DEF d
    <3>1. RefsOf(d.name, Append(d.refs, a)) = Append(m_object.refs, y)
      BY <1>2, <1>3, RefAppended
    <3> HIDE DEF y
    <3>2. QED
      BY <2>5, <2>7, <3>1
  <2>9. m_object'.type = m_object.type
    BY <2>7 DEF Changed
  <2>10. QED
    BY <2>3, <2>5, <2>8, <2>9
<1>6. CASE e # "tag" /\ e \notin References(d.name)
  <2>1. doc' = doc
    BY <1>1, <1>6 DEF ReadStart
  <2>2. m_object' = m_object
    BY <1>2, <1>6 DEF Extended, References
  <2>3. doc = [doc EXCEPT ![Len(doc)] = d]
    BY DEF IsSeq
  <2>4. QED
    BY <2>1, <2>2, <2>3
<1>7. QED
  BY <1>4, <1>5, <1>6

LEMMA ChildBegins ==
    ASSUME SaxInv, ContextInv, DocumentInv, NEW e, NEW a, Deeper(e, a),
           start_in_object(e, a), exception' = "none", ReadStart(e, a)
    PROVE  ContextInv' /\ DocumentInv'
<1>1. /\ Push("in_object") /\ m_object' = Extended(e, a)
      /\ m_operation' = m_operation /\ m_if_unused' = m_if_unused /\ calls' = calls
  BY DEF start_in_object, handle_exception, bad_request
<1>2. Len(open) = 3
  BY ContextOfDepth DEF SaxInv, start_in_object
<1>3. /\ Len(open') = 4 /\ elements' = elements + 1 /\ IsSeq(open') /\ open'[2] = open[2]
  BY <1>2 DEF Deeper, Longer
<1>4. open # <<>> /\ open' # <<>> /\ elements > 0 /\ elements' > 0
  BY <1>2, <1>3, EmptyIsSeq DEF SaxInv
<1>5. /\ m_context[3] = m_operation /\ m_operation \in Blocks /\ m_operation = open[2].name
      /\ m_context[1] = "root" /\ m_context[2] = "top" /\ m_if_unused = UnusedOnly(open[2])
      /\ m_context[4] = m_object.type /\ m_object.type \in Objects
      /\ Len(m_context) = 4 /\ IsSeq(m_context)
  BY <1>2 DEF ContextInv
<1>6. /\ Len(doc) > 0 /\ IsSeq(doc) /\ ElementShape(doc[Len(doc)]) /\ doc[Len(doc)].block = open[2]
      /\ m_object = Described(doc[Len(doc)]) /\ doc[Len(doc)].complete = FALSE
  BY <1>2 DEF DocumentInv
<1>7. PICK n : /\ doc' = [doc EXCEPT ![Len(doc)] = n]
               /\ ElementShape(n) /\ n.complete = FALSE /\ n.block = open[2]
               /\ m_object' = Described(n) /\ m_object'.type = m_object.type
  BY <1>1, <1>2, <1>6, ChildDescribed
<1>8. Longer(m_context, m_context', "in_object")
  BY <1>1, <1>5, AppendSeq DEF Push
<1>9. ContextInv'
  <2>1. /\ IsSeq(m_context') /\ Len(m_context') = 5
        /\ m_context'[1] = "root" /\ m_context'[2] = "top" /\ m_context'[3] = m_operation
        /\ m_context'[4] = m_object.type /\ m_context'[5] = "in_object"
    BY <1>5, <1>8 DEF Longer
  <2>2. /\ Len(m_context') = Len(open') + 1 /\ Len(open') <= 4 /\ ~(Len(open') < 2)
    BY <1>3, <2>1
  <2>3. QED
    BY <1>1, <1>3, <1>5, <1>7, <2>1, <2>2 DEF ContextInv
<1>10. DocumentInv'
  <2>1. /\ IsSeq(doc') /\ Len(doc') = Len(doc) /\ doc'[Len(doc)] = n
        /\ \A i \in 1..Len(doc) - 1 : doc'[i] = doc[i]
    <3>1. LastReplaced(doc, doc', n)
      BY <1>6, <1>7, ReplacedSeq
    <3>2. QED
      BY <3>1 DEF LastReplaced
  <2>2. Told = Len(doc) - 1 /\ Told' = Told
    BY <1>2, <1>3, <2>1 DEF Told
  <2>3. \A i \in 1..Told' : doc'[i].complete /\ calls'[i + 1] = Meant(doc'[i])
    <3>1. \A i \in 1..Told : doc[i].complete /\ calls[i + 1] = Meant(doc[i])
      BY DEF DocumentInv
    <3>2. QED
      BY <1>1, <2>1, <2>2, <3>1
  <2>4. Len(calls') = Told' + 1 /\ calls'[1] = [call |-> "start_document"] /\ IsSeq(calls')
    BY <1>1, <1>4, <2>2 DEF DocumentInv
  <2>5. QED
    BY <1>3, <1>4, <1>6, <1>7, <2>1, <2>3, <2>4 DEF DocumentInv
<1>11. QED
  BY <1>9, <1>10

-----------------------------------------------------------------------------
(* Elements end.                                                           *)

Shallower ==
    /\ IsSeq(open') /\ Len(open') = Len(open) - 1 /\ Len(open) > 0
    /\ \A i \in 1..Len(open) - 1 : open'[i] = open[i]
    /\ elements' = elements /\ elements > 0

LEMMA EndsShallower == ASSUME SaxInv, end_tag PROVE Shallower
<1>1. IsSeq(open) /\ open # <<>> /\ elements > 0 /\ Len(open) > 0
  BY ZeroIsEmpty DEF SaxInv, end_tag, IsSeq
<1>2. QED
  BY <1>1, FrontSeq DEF end_tag, Shallower

PoppedTo(n) ==
    /\ IsSeq(m_context') /\ Len(m_context') = n
    /\ \A i \in 1..n : m_context'[i] = m_context[i]

LEMMA Popped == ASSUME ContextInv, IsSeq(open), Len(open) > 0, Pop PROVE PoppedTo(Len(open))
<1>1. IsSeq(m_context) /\ Len(m_context) = Len(open) + 1 /\ Len(open) \in Nat
  BY DEF ContextInv, IsSeq
<1>2. QED
  BY <1>1, FrontSeq DEF Pop, PoppedTo

LEMMA RootEnds ==
    ASSUME SaxInv, ContextInv, DocumentInv, Shallower, end_osmChange, exception' = "none", ReadEnd
    PROVE  ContextInv' /\ DocumentInv'
<1>1. /\ Pop /\ calls' = Append(calls, [call |-> "end_document"])
      /\ m_if_unused' = m_if_unused /\ m_object' = m_object
  BY DEF end_osmChange
<1>2. Len(open) = 1
  BY ContextOfDepth DEF SaxInv, end_osmChange
<1>3. Len(open') = 0 /\ IsSeq(open') /\ elements' > 0 /\ elements > 0 /\ open' = <<>> /\ open # <<>>
  BY <1>2, ZeroIsEmpty, EmptyIsSeq DEF Shallower
<1>4. PoppedTo(1)
  BY <1>1, <1>2, Popped DEF SaxInv
<1>5. doc' = doc
  BY <1>2 DEF ReadEnd
<1>6. ContextInv'
  <2>1. m_context[1] = "root" /\ m_if_unused = FALSE
    BY <1>2 DEF ContextInv
  <2>2. IsSeq(m_context') /\ Len(m_context') = 1 /\ m_context'[1] = "root"
    BY <1>4, <2>1 DEF PoppedTo
  <2>3. /\ Len(m_context') = Len(open') + 1 /\ Len(open') <= 4
        /\ ~(Len(open') >= 1) /\ ~(Len(open') >= 2) /\ ~(Len(open') >= 3) /\ ~(Len(open') >= 4)
    BY <1>3, <2>2
  <2>4. QED
    BY <1>1, <2>1, <2>2, <2>3 DEF ContextInv
<1>7. DocumentInv'
  <2>1. Told = Len(doc) /\ Told' = Len(doc) /\ Len(doc) \in Nat /\ IsSeq(doc)
    BY <1>2, <1>3, <1>5 DEF Told, DocumentInv, IsSeq
  <2>2. /\ Len(calls) = Len(doc) + 1 /\ IsSeq(calls) /\ calls[1] = [call |-> "start_document"]
        /\ \A i \in 1..Len(doc) : doc[i].complete /\ calls[i + 1] = Meant(doc[i])
    BY <1>3, <2>1 DEF DocumentInv
  <2>3. Longer(calls, calls', [call |-> "end_document"])
    BY <1>1, <2>2, AppendSeq
  <2>4. /\ Len(calls') = Len(doc) + 2 /\ IsSeq(calls') /\ calls'[1] = [call |-> "start_document"]
        /\ calls'[Len(calls')] = [call |-> "end_document"]
    BY <2>1, <2>2, <2>3 DEF Longer
  <2>5. \A i \in 1..Len(doc) : calls'[i + 1] = calls[i + 1]
    BY <2>1, <2>2, <2>3 DEF Longer
  <2>6. \A i \in 1..Len(doc) : doc'[i].complete /\ calls'[i + 1] = Meant(doc'[i])
    BY <1>5, <2>2, <2>5
  <2>7. QED
    BY <1>3, <1>5, <2>1, <2>4, <2>6 DEF DocumentInv
<1>8. QED
  BY <1>6, <1>7

LEMMA BlockEnds ==
    ASSUME SaxInv, ContextInv, DocumentInv, Shallower, end_block, exception' = "none", ReadEnd
    PROVE  ContextInv' /\ DocumentInv'
<1>1. /\ Pop /\ calls' = calls /\ m_object' = m_object
      /\ m_if_unused' = IF context = "delete" THEN FALSE ELSE m_if_unused
  BY DEF end_block
<1>2. Len(open) = 2 /\ context = m_operation
  BY ContextOfDepth DEF SaxInv, end_block
<1>3. Len(open') = 1 /\ IsSeq(open') /\ elements' > 0 /\ elements > 0 /\ open' # <<>> /\ open # <<>>
  BY <1>2, EmptyIsSeq DEF Shallower
<1>4. PoppedTo(2)
  BY <1>1, <1>2, Popped DEF SaxInv
<1>5. doc' = doc
  BY <1>2 DEF ReadEnd
<1>6. m_if_unused' = FALSE
  <2>1. m_if_unused = UnusedOnly(open[2]) /\ m_operation = open[2].name
    BY <1>2 DEF ContextInv
  <2>2. CASE context = "delete"
    BY <1>1, <2>2
  <2>3. CASE context # "delete"
    <3>1. UnusedOnly(open[2]) = FALSE
      BY <1>2, <2>1, <2>3 DEF UnusedOnly
    <3>2. QED
      BY <1>1, <2>1, <2>3, <3>1
  <2>4. QED
    BY <2>2, <2>3
<1>7. ContextInv'
  <2>1. m_context[1] = "root" /\ m_context[2] = "top"
    BY <1>2 DEF ContextInv
  <2>2. IsSeq(m_context') /\ Len(m_context') = 2 /\ m_context'[1] = "root" /\ m_context'[2] = "top"
    BY <1>4, <2>1 DEF PoppedTo
  <2>3. /\ Len(m_context') = Len(open') + 1 /\ Len(open') <= 4
        /\ ~(Len(open') >= 2) /\ ~(Len(open') >= 3) /\ ~(Len(open') >= 4)
    BY <1>3, <2>2
  <2>4. QED
    BY <1>6, <2>2, <2>3 DEF ContextInv
<1>8. DocumentInv'
  <2>1. Told' = Told
    BY <1>2, <1>3, <1>5 DEF Told
  <2>2. QED
    BY <1>1, <1>2, <1>3, <1>5, <2>1 DEF DocumentInv
<1>9. QED
  BY <1>7, <1>8

LEMMA ChildEnds ==
    ASSUME SaxInv, ContextInv, DocumentInv, Shallower, end_child, exception' = "none", ReadEnd
    PROVE  ContextInv' /\ DocumentInv'
<1>1. /\ Pop /\ calls' = calls /\ m_object' = m_object
      /\ m_operation' = m_operation /\ m_if_unused' = m_if_unused
  BY DEF end_child
<1>2. Len(open) = 4
  BY ContextOfDepth DEF SaxInv, end_child
<1>3. /\ Len(open') = 3 /\ IsSeq(open') /\ elements' > 0 /\ elements > 0 /\ open' # <<>> /\ open # <<>>
      /\ open'[2] = open[2]
  BY <1>2, EmptyIsSeq DEF Shallower
<1>4. PoppedTo(4)
  BY <1>1, <1>2, Popped DEF SaxInv
<1>5. doc' = doc
  BY <1>2 DEF ReadEnd
<1>6. ContextInv'
  <2>1. /\ m_context[1] = "root" /\ m_context[2] = "top" /\ m_context[3] = m_operation
        /\ m_context[4] = m_object.type
    BY <1>2 DEF ContextInv
  <2>2. /\ IsSeq(m_context') /\ Len(m_context') = 4
        /\ m_context'[1] = "root" /\ m_context'[2] = "top" /\ m_context'[3] = m_operation
        /\ m_context'[4] = m_object.type
    BY <1>4, <2>1 DEF PoppedTo
  <2>3. /\ Len(m_context') = Len(open') + 1 /\ Len(open') <= 4 /\ ~(Len(open') >= 4) /\ ~(Len(open') < 2)
    BY <1>3, <2>2
  <2>4. /\ m_operation \in Blocks /\ m_operation = open[2].name /\ m_object.type \in Objects
        /\ m_if_unused = UnusedOnly(open[2])
    BY <1>2 DEF ContextInv
  <2>5. QED
    BY <1>1, <1>3, <2>2, <2>3, <2>4 DEF ContextInv
<1>7. DocumentInv'
  <2>1. Told' = Told
    BY <1>2, <1>3, <1>5 DEF Told
  <2>2. QED
    BY <1>1, <1>2, <1>3, <1>5, <2>1 DEF DocumentInv
<1>8. QED
  BY <1>6, <1>7

LEMMA CompletedMeans ==
    ASSUME NEW d, ElementShape(d), NEW o, o = Described(d),
           NEW op, op = d.block.name, NEW unused, unused = UnusedOnly(d.block)
    PROVE  LET n == [d EXCEPT !.complete = TRUE]
           IN  /\ n.complete = TRUE
               /\ Meant(n) = [call |-> "process", object |-> o, op |-> op, if_unused |-> unused]
<1> DEFINE n == [d EXCEPT !.complete = TRUE]
<1>1. /\ d = [name |-> d.name, attrs |-> d.attrs, block |-> d.block,
              tags |-> d.tags, refs |-> d.refs, complete |-> d.complete]
  BY DEF ElementShape
<1>2. ASSUME NEW c
      PROVE  LET m == [d EXCEPT !.complete = c]
             IN  /\ m.name = d.name /\ m.attrs = d.attrs /\ m.block = d.block
                 /\ m.tags = d.tags /\ m.refs = d.refs /\ m.complete = c
  BY <1>1
<1>3. /\ n.name = d.name /\ n.attrs = d.attrs /\ n.block = d.block
      /\ n.tags = d.tags /\ n.refs = d.refs /\ n.complete = TRUE
  BY <1>2
<1> HIDE DEF n
<1>4. Described(n) = o
  <2>1. /\ Described(n).type = o.type /\ Described(n).id = o.id
        /\ Described(n).changeset = o.changeset /\ Described(n).version = o.version
        /\ Described(n).tags = o.tags /\ Described(n).refs = o.refs
    BY <1>3 DEF Described
  <2>2. Described(n).located = o.located
    <3> DEFINE loc == d.name = "node" /\ d.attrs.position = "valid"
               nloc == n.name = "node" /\ n.attrs.position = "valid"
    <3>1. loc = nloc
      BY <1>3
    <3>2. Described(n).located = nloc /\ o.located = loc
      BY DEF Described
    <3> HIDE DEF loc, nloc
    <3>3. QED
      BY <3>1, <3>2
  <2>3. /\ Described(n) = Changed(Described(n), Described(n).tags, Described(n).refs)
        /\ o = Changed(o, o.tags, o.refs)
    BY DescribedShape
  <2>4. QED
    BY <2>1, <2>2, <2>3 DEF Changed
<1>5. Meant(n) = [call |-> "process", object |-> Described(n), op |-> n.block.name,
                  if_unused |-> UnusedOnly(n.block)]
  BY DEF Meant, UnusedOnly
<1>6. Meant(n) = [call |-> "process", object |-> o, op |-> op, if_unused |-> unused]
  <2>1. n.block = d.block /\ n.block.name = op
    BY <1>3
  <2>2. UnusedOnly(n.block) = unused
    BY <2>1
  <2>3. QED
    BY <1>4, <1>5, <2>1, <2>2
<1>7. QED
  BY <1>3, <1>6 DEF n

LEMMA ElementEnds ==
    ASSUME SaxInv, ContextInv, DocumentInv, Shallower, end_object, exception' = "none", ReadEnd
    PROVE  ContextInv' /\ DocumentInv'
<1>1. /\ Pop /\ calls' = Append(calls, Call)
      /\ m_operation' = m_operation /\ m_if_unused' = m_if_unused
  BY DEF end_object, Throw, handle_exception
<1>2. Len(open) = 3
  BY ContextOfDepth DEF SaxInv, end_object
<1>3. /\ Len(open') = 2 /\ IsSeq(open') /\ elements' > 0 /\ elements > 0 /\ open' # <<>> /\ open # <<>>
      /\ open'[2] = open[2]
  BY <1>2, EmptyIsSeq DEF Shallower
<1>4. PoppedTo(3)
  BY <1>1, <1>2, Popped DEF SaxInv
<1>5. /\ m_context[1] = "root" /\ m_context[2] = "top" /\ m_context[3] = m_operation
      /\ m_operation \in Blocks /\ m_operation = open[2].name /\ m_if_unused = UnusedOnly(open[2])
  BY <1>2 DEF ContextInv
<1>6. ContextInv'
  <2>1. /\ IsSeq(m_context') /\ Len(m_context') = 3
        /\ m_context'[1] = "root" /\ m_context'[2] = "top" /\ m_context'[3] = m_operation
    BY <1>4, <1>5 DEF PoppedTo
  <2>2. /\ Len(m_context') = Len(open') + 1 /\ Len(open') <= 4
        /\ ~(Len(open') >= 4) /\ ~(Len(open') >= 3) /\ ~(Len(open') < 2)
    BY <1>3, <2>1
  <2>3. QED
    BY <1>1, <1>3, <1>5, <2>1, <2>2 DEF ContextInv
<1>7. DocumentInv'
  <2> DEFINE k == Len(doc)
             d == doc[k]
             n == [d EXCEPT !.complete = TRUE]
  <2>1. /\ k > 0 /\ k \in Nat /\ IsSeq(doc) /\ ElementShape(d) /\ d.block = open[2]
        /\ m_object = Described(d)
    BY <1>2 DEF DocumentInv, IsSeq
  <2>2. doc' = [doc EXCEPT ![k] = n]
    BY <1>2 DEF ReadEnd
  <2>3. n.complete = TRUE /\ Meant(n) = Call
    <3> HIDE DEF d
    <3>1. d.block.name = m_operation /\ m_if_unused = UnusedOnly(d.block)
      BY <1>5, <2>1
    <3>2. /\ n.complete = TRUE
          /\ Meant(n) = [call |-> "process", object |-> m_object, op |-> m_operation, if_unused |-> m_if_unused]
      BY <2>1, <3>1, CompletedMeans
    <3>3. QED
      BY <3>2 DEF Call
  <2> HIDE DEF n
  <2>4. /\ IsSeq(doc') /\ Len(doc') = k /\ doc'[k] = n
        /\ \A i \in 1..k - 1 : doc'[i] = doc[i]
    <3>1. LastReplaced(doc, doc', n)
      BY <2>1, <2>2, ReplacedSeq
    <3>2. QED
      BY <3>1 DEF LastReplaced
  <2>5. Told = k - 1 /\ Told' = k
    BY <1>2, <1>3, <2>4 DEF Told
  <2>6. /\ Len(calls) = k /\ IsSeq(calls) /\ calls[1] = [call |-> "start_document"]
        /\ \A i \in 1..k - 1 : doc[i].complete /\ calls[i + 1] = Meant(doc[i])
    BY <1>3, <2>1, <2>5 DEF DocumentInv
  <2> HIDE DEF k, d
  <2>7. Longer(calls, calls', Call)
    BY <1>1, <2>6, AppendSeq
  <2>8. /\ Len(calls') = k + 1 /\ IsSeq(calls') /\ calls'[1] = [call |-> "start_document"]
        /\ calls'[k + 1] = Call /\ \A i \in 1..k - 1 : calls'[i + 1] = calls[i + 1]
    BY <2>1, <2>6, <2>7 DEF Longer
  <2>9. ASSUME NEW i \in 1..k PROVE doc'[i].complete /\ calls'[i + 1] = Meant(doc'[i])
    <3>1. CASE i = k
      BY <2>3, <2>4, <2>8, <3>1
    <3>2. CASE i \in 1..k - 1
      BY <2>4, <2>6, <2>8, <3>2
    <3>3. QED
      BY <2>1, <3>1, <3>2
  <2>10. ~(Len(open') >= 3)
    BY <1>3
  <2>11. QED
    BY <1>3, <2>4, <2>5, <2>8, <2>9, <2>10 DEF DocumentInv
<1>8. QED
  BY <1>6, <1>7

-----------------------------------------------------------------------------
(* The tags of a changeset.                                                *)

LEMMA LastTagCounts ==
    ASSUME IsSeq(cs_doc), NEW t, Longer(cs_doc, cs_doc', t)
    PROVE  TagsInDocument' = {x \in TagsInDocument : x.k # t.k} \cup {t}
<1> DEFINE n == Len(cs_doc)
<1>1. n \in Nat /\ DOMAIN cs_doc = 1..n
  BY DEF IsSeq
<1>2. /\ DOMAIN cs_doc' = 1..n + 1 /\ cs_doc'[n + 1] = t
      /\ \A i \in 1..n : cs_doc'[i] = cs_doc[i]
  BY DEF Longer
<1> HIDE DEF n
<1>3. ASSUME NEW x \in TagsInDocument' PROVE x = t \/ (x \in TagsInDocument /\ x.k # t.k)
  <2>1. PICK j \in DOMAIN cs_doc' :
           x = cs_doc'[j] /\ \A k \in DOMAIN cs_doc' : k > j => cs_doc'[k].k # cs_doc'[j].k
    BY DEF TagsInDocument
  <2>2. CASE j = n + 1
    BY <1>2, <2>1, <2>2
  <2>3. CASE j \in 1..n
    <3>1. x = cs_doc[j] /\ x.k # t.k
      BY <1>1, <1>2, <2>1, <2>3
    <3>2. \A k \in DOMAIN cs_doc : k > j => cs_doc[k].k # cs_doc[j].k
      BY <1>1, <1>2, <2>1, <2>3
    <3>3. x \in TagsInDocument
      BY <1>1, <2>3, <3>1, <3>2 DEF TagsInDocument
    <3>4. QED
      BY <3>1, <3>3
  <2>4. QED
    BY <1>1, <1>2, <2>1, <2>2, <2>3
<1>4. t \in TagsInDocument'
  <2>1. \A k \in DOMAIN cs_doc' : k > n + 1 => cs_doc'[k].k # cs_doc'[n + 1].k
    BY <1>1, <1>2
  <2>2. n + 1 \in DOMAIN cs_doc'
    BY <1>1, <1>2
  <2>3. QED
    BY <1>2, <2>1, <2>2 DEF TagsInDocument
<1>5. ASSUME NEW x \in TagsInDocument, x.k # t.k PROVE x \in TagsInDocument'
  <2>1. PICK j \in DOMAIN cs_doc :
           x = cs_doc[j] /\ \A k \in DOMAIN cs_doc : k > j => cs_doc[k].k # cs_doc[j].k
    BY DEF TagsInDocument
  <2>2. j \in DOMAIN cs_doc' /\ x = cs_doc'[j]
    BY <1>1, <1>2, <2>1
  <2>3. ASSUME NEW k \in DOMAIN cs_doc', k > j PROVE cs_doc'[k].k # cs_doc'[j].k
    <3>1. CASE k = n + 1
      BY <1>2, <1>5, <2>2, <3>1
    <3>2. CASE k \in 1..n
      BY <1>1, <1>2, <2>1, <2>3, <3>2
    <3>3. QED
      BY <1>1, <1>2, <3>1, <3>2
  <2>4. QED
    BY <2>2, <2>3 DEF TagsInDocument
<1>6. QED
  BY <1>3, <1>4, <1>5

LEMMA TagAdded ==
    ASSUME TagsInv, NEW a, cs_add_tag(a), cs_doc' = Append(cs_doc, [k |-> a.k, v |-> a.v])
    PROVE  TagsInv'
<1> DEFINE t == [k |-> a.k, v |-> a.v]
           n == Len(m_tags)
<1>1. t.k = a.k /\ t.v = a.v
  OBVIOUS
<1>2. /\ IsSeq(cs_doc) /\ IsSeq(m_tags) /\ n \in Nat /\ DOMAIN m_tags = 1..n
      /\ m_tags = [i \in 1..n |-> m_tags[i]]
      /\ \A i \in 1..n : m_tags[i] = [k |-> m_tags[i].k, v |-> m_tags[i].v]
      /\ \A i, j \in 1..n : m_tags[i].k = m_tags[j].k => i = j
      /\ {m_tags[i] : i \in 1..n} = TagsInDocument
  BY DEF TagsInv, IsSeq
<1>3. Longer(cs_doc, cs_doc', t)
  BY <1>2, AppendSeq
<1>4. IsSeq(cs_doc') /\ TagsInDocument' = {x \in TagsInDocument : x.k # t.k} \cup {t}
  BY <1>2, <1>3, LastTagCounts DEF Longer
<1> HIDE DEF t, n
<1>5. CASE \E i \in DOMAIN m_tags : m_tags[i].k = a.k
  <2>1. m_tags' = [i \in 1..n |-> IF m_tags[i].k = a.k THEN [m_tags[i] EXCEPT !.v = a.v] ELSE m_tags[i]]
    BY <1>2, <1>5 DEF cs_add_tag
  <2>2. ASSUME NEW i \in 1..n, m_tags[i].k = a.k PROVE [m_tags[i] EXCEPT !.v = a.v] = t
    <3> DEFINE m == m_tags[i]
    <3>1. m = [k |-> m.k, v |-> m.v] /\ m.k = a.k
      BY <1>2, <2>2
    <3> HIDE DEF m
    <3>2. [m EXCEPT !.v = a.v] = [k |-> a.k, v |-> a.v]
      BY <3>1
    <3>3. QED
      BY <3>2 DEF m, t
  <2>3. m_tags' = [i \in 1..n |-> IF m_tags[i].k = t.k THEN t ELSE m_tags[i]]
    BY <1>1, <2>1, <2>2
  <2>4. DOMAIN m_tags' = 1..n /\ m_tags' = [i \in 1..n |-> m_tags'[i]]
    BY <2>3
  <2>5. \A i \in 1..n : m_tags'[i] = (IF m_tags[i].k = t.k THEN t ELSE m_tags[i]) /\ m_tags'[i].k = m_tags[i].k
    BY <2>3
  <2>6. IsSeq(m_tags')
    BY <1>2, <2>4, FcnIsSeq
  <2>7. \A i \in 1..n : m_tags'[i] = [k |-> m_tags'[i].k, v |-> m_tags'[i].v]
    BY <1>2, <2>5 DEF t
  <2>8. {m_tags'[i] : i \in 1..n} = {x \in TagsInDocument : x.k # t.k} \cup {t}
    <3>1. PICK j \in 1..n : m_tags[j].k = t.k
      BY <1>1, <1>2, <1>5
    <3>2. m_tags'[j] = t
      BY <2>5, <3>1
    <3>3. QED
      BY <1>2, <2>5, <3>2
  <2>9. QED
    BY <1>2, <1>4, <2>4, <2>5, <2>6, <2>7, <2>8 DEF TagsInv
<1>6. CASE ~(\E i \in DOMAIN m_tags : m_tags[i].k = a.k)
  <2>1. m_tags' = Append(m_tags, t)
    BY <1>6 DEF cs_add_tag, t
  <2>2. Longer(m_tags, m_tags', t)
    BY <1>2, <2>1, AppendSeq
  <2>3. /\ IsSeq(m_tags') /\ DOMAIN m_tags' = 1..n + 1 /\ m_tags'[n + 1] = t
        /\ \A i \in 1..n : m_tags'[i] = m_tags[i]
    BY <2>2 DEF Longer, n
  <2>4. \A i \in 1..n : m_tags[i].k # t.k
    BY <1>1, <1>2, <1>6
  <2>5. \A i \in 1..n + 1 : m_tags'[i] = [k |-> m_tags'[i].k, v |-> m_tags'[i].v]
    BY <1>2, <2>3 DEF t
  <2>6. \A i, j \in 1..n + 1 : m_tags'[i].k = m_tags'[j].k => i = j
    BY <1>2, <2>3, <2>4
  <2>7. {m_tags'[i] : i \in 1..n + 1} = {x \in TagsInDocument : x.k # t.k} \cup {t}
    BY <1>2, <2>3, <2>4
  <2>8. QED
    BY <1>4, <2>3, <2>5, <2>6, <2>7 DEF TagsInv
<1>7. QED
  BY <1>5, <1>6

ChangesetState == Len(open) <= 3 /\ cs_context = Contexts[Len(open) + 1] /\ TagsInv

LEMMA SameTags == ASSUME TagsInv, m_tags' = m_tags, cs_doc' = cs_doc PROVE TagsInv'
  BY DEF TagsInv, TagsInDocument

LEMMA ChangesetElementBegins ==
    ASSUME SaxInv, ChangesetState, Len(open) # 3, NEW e, NEW a, Deeper(e, a),
           cs_on_start_element(e, a), cs_read_start(e, a), exception' = "none"
    PROVE  ChangesetState'
<1>1. Len(open) \in {0, 1, 2} /\ Len(open') = Len(open) + 1
  BY DEF SaxInv, IsSeq, ChangesetState, Deeper, Longer
<1>2. CASE Len(open) = 0
  <2>1. cs_context = "root" /\ cs_doc' = cs_doc /\ TagsInv
    BY <1>2 DEF ChangesetState, Contexts, cs_read_start
  <2>2. cs_context' = "top" /\ m_tags' = m_tags
    BY <2>1 DEF cs_on_start_element, cs_throw, handle_exception, bad_request
  <2>3. TagsInv'
    BY <2>1, <2>2, SameTags
  <2>4. QED
    BY <1>1, <1>2, <2>2, <2>3 DEF ChangesetState, Contexts
<1>3. CASE Len(open) = 1
  <2>1. cs_context = "top" /\ cs_doc' = cs_doc /\ TagsInv
    BY <1>3 DEF ChangesetState, Contexts, cs_read_start
  <2>2. cs_context' = "in_changeset" /\ m_tags' = m_tags
    BY <2>1 DEF cs_on_start_element, cs_throw, handle_exception, bad_request
  <2>3. TagsInv'
    BY <2>1, <2>2, SameTags
  <2>4. QED
    BY <1>1, <1>3, <2>2, <2>3 DEF ChangesetState, Contexts
<1>4. CASE Len(open) = 2
  <2>1. cs_context = "in_changeset" /\ TagsInv
    BY <1>4 DEF ChangesetState, Contexts
  <2>2. cs_context' = "in_tag" /\ e = "tag" /\ cs_add_tag(a)
    BY <2>1 DEF cs_on_start_element, cs_throw, handle_exception, bad_request
  <2>3. cs_doc' = Append(cs_doc, [k |-> a.k, v |-> a.v])
    BY <1>4, <2>2 DEF cs_read_start
  <2>4. TagsInv'
    BY <2>1, <2>2, <2>3, TagAdded
  <2>5. QED
    BY <1>1, <1>4, <2>2, <2>4 DEF ChangesetState, Contexts
<1>5. QED
  BY <1>1, <1>2, <1>3, <1>4

LEMMA ChangesetElementEnds ==
    ASSUME SaxInv, ChangesetState, Shallower, cs_on_end_element, cs_doc' = cs_doc
    PROVE  ChangesetState'
<1>1. Len(open) \in {1, 2, 3} /\ Len(open') = Len(open) - 1
  BY DEF SaxInv, IsSeq, ChangesetState, Shallower
<1>2. m_tags' = m_tags /\ cs_context' = Around[cs_context]
  BY DEF cs_on_end_element
<1>3. TagsInv'
  BY <1>2, SameTags DEF ChangesetState
<1>4. cs_context' = Contexts[Len(open') + 1]
  <2>1. CASE Len(open) = 1
    BY <1>1, <1>2, <2>1 DEF ChangesetState, Contexts, Around
  <2>2. CASE Len(open) = 2
    BY <1>1, <1>2, <2>2 DEF ChangesetState, Contexts, Around
  <2>3. CASE Len(open) = 3
    BY <1>1, <1>2, <2>3 DEF ChangesetState, Contexts, Around
  <2>4. QED
    BY <1>1, <2>1, <2>2, <2>3
<1>5. QED
  BY <1>1, <1>3, <1>4 DEF ChangesetState

-----------------------------------------------------------------------------
(* The invariant.                                                          *)

\* What is thrown is never taken for success.
Thrown == {bad_request, precondition_failed, "409 conflict"}

LEMMA RejectionsAreErrors ==
    ASSUME ContextInv, IsSeq(open), context \in Objects, Rejection(m_object) # "none"
    PROVE  Rejection(m_object) \in Thrown
<1>1. m_object.type \in Objects
  <2>1. Len(open) = 3
    BY ContextOfDepth
  <2>2. QED
    BY <2>1 DEF ContextInv
<1>2. object_rejection(m_object) \in Thrown \cup {"none"}
  BY DEF object_rejection, Thrown
<1>3. {node_rejection(m_object), relation_rejection(m_object)} \subseteq Thrown \cup {"none"}
  BY <1>2 DEF node_rejection, relation_rejection, Thrown
<1>4. way_rejection(m_object) \in Thrown \cup {"none"}
  BY <1>2 DEF way_rejection, Thrown
<1>5. QED
  BY <1>1, <1>3, <1>4 DEF Rejection, Objects

\* What a callback does to the wrapper: nothing, or it throws.
CallbackReturns == no_exception \/ \E e \in Thrown : handle_exception(e)

LEMMA StartsReturn ==
    ASSUME NEW e, NEW a, on_start_element(e, a) \/ cs_on_start_element(e, a)
    PROVE  CallbackReturns
<1>0. bad_request \in Thrown
  BY DEF Thrown
<1>1. CASE on_start_element(e, a)
  <2>1. no_exception \/ handle_exception(bad_request)
    BY <1>1 DEF on_start_element, start_in_root, start_in_top, start_in_block, start_in_object,
                start_too_deep, Throw
  <2>2. QED
    BY <2>1, <1>0 DEF CallbackReturns
<1>2. CASE cs_on_start_element(e, a)
  <2>1. no_exception \/ handle_exception(bad_request)
    BY <1>2 DEF cs_on_start_element, cs_throw
  <2>2. QED
    BY <2>1, <1>0 DEF CallbackReturns
<1>3. QED
  BY <1>1, <1>2

LEMMA EndsReturn ==
    ASSUME (on_end_element /\ ContextInv /\ IsSeq(open)) \/ cs_on_end_element
    PROVE  CallbackReturns
<1>0. bad_request \in Thrown /\ "409 conflict" \in Thrown
  BY DEF Thrown
<1>1. CASE on_end_element /\ ContextInv /\ IsSeq(open)
  <2>1. CASE end_object
    <3>1. CASE Rejection(m_object) # "none"
      <4>1. handle_exception(Rejection(m_object)) /\ context \in Objects
        BY <2>1, <3>1 DEF end_object, Throw
      <4>2. QED
        BY <1>1, <3>1, <4>1, RejectionsAreErrors DEF CallbackReturns
    <3>2. CASE Rejection(m_object) = "none"
      <4>1. no_exception \/ handle_exception("409 conflict")
        BY <2>1, <3>2 DEF end_object
      <4>2. QED
        BY <4>1, <1>0 DEF CallbackReturns
    <3>3. QED
      BY <3>1, <3>2
  <2>2. CASE end_osmChange \/ end_block \/ end_child
    <3>1. no_exception \/ handle_exception("409 conflict")
      BY <2>2 DEF end_osmChange, end_block, end_child
    <3>2. QED
      BY <3>1, <1>0 DEF CallbackReturns
  <2>3. QED
    BY <1>1, <2>1, <2>2 DEF on_end_element
<1>2. CASE cs_on_end_element
  <2>1. no_exception \/ handle_exception(bad_request)
    BY <1>2 DEF cs_on_end_element
  <2>2. QED
    BY <2>1, <1>0 DEF CallbackReturns
<1>3. QED
  BY <1>1, <1>2

\* An exception of a callback is the first problem, as libxml2 calls back only
\* while there was none.
LEMMA CallbackKeeps ==
    ASSUME KeptInv, Parsing, CallbackReturns, UNCHANGED xml_error
    PROVE  exception = "none" /\ exception' # "ok" /\ KeptInv'
<1>1. stopped = FALSE /\ xml_error = FALSE /\ exception = "none" /\ first = "none"
  BY DEF KeptInv, Parsing
<1>2. CASE no_exception
  BY <1>1, <1>2 DEF no_exception, KeptInv
<1>3. ASSUME NEW e \in Thrown, handle_exception(e)
      PROVE  exception' # "ok" /\ KeptInv'
  <2>1. exception' = e /\ stopped' = TRUE /\ first' = e /\ xml_error' = FALSE
    BY <1>1, <1>3 DEF handle_exception, Seen
  <2>2. e # "ok" /\ e # "none"
    BY <1>3 DEF Thrown, bad_request, precondition_failed
  <2>3. QED
    BY <2>1, <2>2 DEF KeptInv
<1>4. QED
  BY <1>1, <1>2, <1>3 DEF CallbackReturns

LEMMA InitPayloads == ASSUME Init PROVE PayloadsInv
<1>1. /\ open = <<>> /\ elements = 0 /\ exception = "none" /\ outcome = "parsing"
      /\ stopped = FALSE /\ xml_error = FALSE /\ first = "none"
      /\ m_context = <<"root">> /\ m_if_unused = FALSE /\ calls = <<>> /\ doc = <<>>
      /\ cs_context = "root" /\ m_tags = <<>> /\ cs_doc = <<>>
      /\ kind \in {"upload", "changeset"} /\ nested = FALSE
  BY DEF Init, SaxInit, OSMChangeInit, ChangesetInit
<1>2. Len(open) = 0 /\ IsSeq(open) /\ IsSeq(calls) /\ IsSeq(doc) /\ Len(doc) = 0 /\ Told = 0
  BY <1>1, EmptyIsSeq DEF Told
<1>3. SaxInv
  BY <1>1, <1>2 DEF SaxInv, KeptInv
<1>4. ContextInv
  <2>1. m_context \in Seq({"root"}) /\ Len(m_context) = 1 /\ m_context[1] = "root"
    BY <1>1
  <2>2. IsSeq(m_context)
    BY <2>1, SeqIsSeq
  <2>3. QED
    BY <1>1, <1>2, <2>1, <2>2 DEF ContextInv
<1>5. DocumentInv
  BY <1>1, <1>2 DEF DocumentInv
<1>6. TagsInv
  <2>1. DOMAIN m_tags = {} /\ DOMAIN cs_doc = {} /\ IsSeq(m_tags) /\ IsSeq(cs_doc)
    BY <1>1, EmptyIsSeq
  <2>2. TagsInDocument = {}
    BY <2>1 DEF TagsInDocument
  <2>3. QED
    BY <2>1, <2>2 DEF TagsInv
<1>7. cs_context = Contexts[Len(open) + 1] /\ Len(open) <= 3
  BY <1>1, <1>2 DEF Contexts
<1>8. QED
  BY <1>1, <1>3, <1>4, <1>5, <1>6, <1>7 DEF PayloadsInv, UploadInv, ChangesetInv

\* What the parsers work on does not change.
LEMMA NothingRead ==
    ASSUME UploadInv, ChangesetInv, nested \in BOOLEAN, exception' = exception,
           UNCHANGED <<open, elements, osmChangeVars, changesetVars, kind, nested>>
    PROVE  UploadInv' /\ ChangesetInv' /\ nested' \in BOOLEAN
<1>1. /\ open' = open /\ elements' = elements /\ m_context' = m_context /\ m_operation' = m_operation
      /\ m_if_unused' = m_if_unused /\ m_object' = m_object /\ calls' = calls /\ doc' = doc
      /\ cs_context' = cs_context /\ m_tags' = m_tags /\ cs_doc' = cs_doc
      /\ kind' = kind /\ nested' = nested
  BY DEF osmChangeVars, changesetVars
<1>2. ContextInv => ContextInv'
  BY <1>1 DEF ContextInv
<1>3. DocumentInv => DocumentInv'
  BY <1>1 DEF DocumentInv, Told
<1>4. TagsInv => TagsInv'
  BY <1>1, SameTags
<1>5. QED
  BY <1>1, <1>2, <1>3, <1>4 DEF UploadInv, ChangesetInv

LEMMA StartKeeps ==
    ASSUME PayloadsInv, NEW e, NEW a, start_element(e, a)
    PROVE  PayloadsInv'
<1>0. exception = "none" /\ exception' # "ok" /\ KeptInv'
  <2>1. CallbackReturns
    BY StartsReturn DEF start_element
  <2>2. KeptInv /\ Parsing /\ UNCHANGED xml_error
    BY DEF PayloadsInv, SaxInv, start_element, start_tag
  <2>3. QED
    BY <2>1, <2>2, CallbackKeeps
<1>1. start_tag(e, a) /\ kind' = kind /\ Deeper(e, a) /\ exception = "none" /\ outcome = "parsing"
  BY <1>0, StartsDeeper DEF start_element, PayloadsInv, start_tag, Parsing
<1>2. SaxInv'
  <2>1. IsSeq(open') /\ elements' \in Nat /\ elements' > 0 /\ outcome' = "parsing"
    BY <1>1 DEF Deeper, Longer, PayloadsInv, SaxInv, start_tag
  <2>2. QED
    BY <1>0, <1>1, <2>1 DEF PayloadsInv, SaxInv
<1>3. CASE kind = "upload"
  <2>1. on_start_element(e, a) /\ ReadStart(e, a) /\ nested' = nested
    BY <1>3 DEF start_element
  <2>2. SaxInv /\ ContextInv /\ DocumentInv
    BY <1>1, <1>3 DEF PayloadsInv, UploadInv
  <2>3. ASSUME exception' = "none" PROVE ContextInv' /\ DocumentInv'
    <3>1. Len(open) # 2 /\ Len(open) # 3 => doc' = doc
      BY <2>1, <2>3 DEF ReadStart
    <3>2. CASE start_in_root(e)
      <4>1. doc' = doc
        <5>1. context = "root" /\ IsSeq(open)
          BY <2>2, <3>2 DEF SaxInv, start_in_root
        <5>2. Len(open) = 0
          BY <5>1, <2>2, ContextOfDepth
        <5>3. QED
          BY <5>2, <3>1
      <4>2. QED
        BY <1>1, <2>2, <2>3, <3>2, <4>1, RootBegins
    <3>3. CASE start_in_top(e, a)
      <4>1. doc' = doc
        <5>1. context = "top" /\ IsSeq(open)
          BY <2>2, <3>3 DEF SaxInv, start_in_top
        <5>2. Len(open) = 1
          BY <5>1, <2>2, ContextOfDepth
        <5>3. QED
          BY <5>2, <3>1
      <4>2. QED
        BY <1>1, <2>2, <2>3, <3>3, <4>1, BlockBegins
    <3>4. CASE start_in_block(e, a)
      BY <1>1, <2>1, <2>2, <2>3, <3>4, ElementBegins
    <3>5. CASE start_in_object(e, a)
      BY <1>1, <2>1, <2>2, <2>3, <3>5, ChildBegins
    <3>6. CASE start_too_deep
      BY <2>3, <3>6 DEF start_too_deep, Throw, handle_exception, bad_request
    <3>7. QED
      BY <2>1, <3>2, <3>3, <3>4, <3>5, <3>6 DEF on_start_element
  <2>4. UploadInv'
    BY <2>3 DEF UploadInv
  <2>5. ChangesetInv' /\ nested' \in BOOLEAN
    BY <1>1, <1>3, <2>1 DEF ChangesetInv, PayloadsInv
  <2>6. QED
    BY <1>2, <2>4, <2>5 DEF PayloadsInv
<1>4. CASE kind = "changeset"
  <2>1. /\ cs_on_start_element(e, a) /\ cs_read_start(e, a)
        /\ nested' = (nested \/ Len(open) = 3)
    BY <1>4 DEF start_element
  <2>2. nested' \in BOOLEAN /\ (nested' = FALSE => nested = FALSE /\ Len(open) # 3)
    BY <2>1 DEF PayloadsInv
  <2>3. ASSUME exception' = "none", nested' = FALSE PROVE ChangesetState'
    <3>1. ChangesetState /\ SaxInv /\ Len(open) # 3
      BY <1>1, <1>4, <2>2, <2>3 DEF PayloadsInv, ChangesetInv, ChangesetState
    <3>2. QED
      BY <1>1, <2>1, <2>3, <3>1, ChangesetElementBegins
  <2>4. ChangesetInv'
    BY <2>3 DEF ChangesetInv, ChangesetState
  <2>5. UploadInv'
    BY <1>1, <1>4 DEF UploadInv
  <2>6. QED
    BY <1>2, <2>2, <2>4, <2>5 DEF PayloadsInv
<1>5. QED
  BY <1>3, <1>4 DEF PayloadsInv, SaxInv

LEMMA EndKeeps ==
    ASSUME PayloadsInv, end_element
    PROVE  PayloadsInv'
<1>0. exception = "none" /\ exception' # "ok" /\ KeptInv'
  <2>1. KeptInv /\ Parsing /\ UNCHANGED xml_error /\ IsSeq(open)
    BY DEF PayloadsInv, SaxInv, end_element, end_tag
  <2>2. exception = "none"
    BY <2>1 DEF KeptInv, Parsing
  <2>3. (on_end_element /\ ContextInv) \/ cs_on_end_element
    BY <2>2 DEF end_element, PayloadsInv, UploadInv
  <2>4. QED
    BY <2>1, <2>3, EndsReturn, CallbackKeeps
<1>1. /\ end_tag /\ kind' = kind /\ nested' = nested /\ Shallower /\ exception = "none"
      /\ outcome = "parsing"
  BY <1>0, EndsShallower DEF end_element, PayloadsInv, end_tag, Parsing
<1>2. SaxInv'
  <2>1. IsSeq(open') /\ elements' \in Nat /\ elements' > 0 /\ outcome' = "parsing"
    BY <1>1 DEF Shallower, PayloadsInv, SaxInv, end_tag
  <2>2. QED
    BY <1>0, <1>1, <2>1 DEF PayloadsInv, SaxInv
<1>3. CASE kind = "upload"
  <2>1. on_end_element /\ ReadEnd
    BY <1>3 DEF end_element
  <2>2. SaxInv /\ ContextInv /\ DocumentInv
    BY <1>1, <1>3 DEF PayloadsInv, UploadInv
  <2>3. ASSUME exception' = "none" PROVE ContextInv' /\ DocumentInv'
    <3>1. CASE end_osmChange
      BY <1>1, <2>1, <2>2, <2>3, <3>1, RootEnds
    <3>2. CASE end_block
      BY <1>1, <2>1, <2>2, <2>3, <3>2, BlockEnds
    <3>3. CASE end_object
      BY <1>1, <2>1, <2>2, <2>3, <3>3, ElementEnds
    <3>4. CASE end_child
      BY <1>1, <2>1, <2>2, <2>3, <3>4, ChildEnds
    <3>5. QED
      BY <2>1, <3>1, <3>2, <3>3, <3>4 DEF on_end_element
  <2>4. UploadInv'
    BY <2>3 DEF UploadInv
  <2>5. ChangesetInv' /\ nested' \in BOOLEAN
    BY <1>1, <1>3 DEF ChangesetInv, PayloadsInv
  <2>6. QED
    BY <1>2, <2>4, <2>5 DEF PayloadsInv
<1>4. CASE kind = "changeset"
  <2>1. cs_on_end_element /\ cs_doc' = cs_doc
    BY <1>4 DEF end_element
  <2>2. ASSUME nested' = FALSE PROVE ChangesetState'
    <3>1. ChangesetState /\ SaxInv
      BY <1>1, <1>4, <2>2 DEF PayloadsInv, ChangesetInv, ChangesetState
    <3>2. QED
      BY <1>1, <2>1, <3>1, ChangesetElementEnds
  <2>3. ChangesetInv'
    BY <2>2 DEF ChangesetInv, ChangesetState
  <2>4. UploadInv'
    BY <1>1, <1>4 DEF UploadInv
  <2>5. QED
    BY <1>1, <1>2, <2>3, <2>4 DEF PayloadsInv
<1>5. QED
  BY <1>3, <1>4 DEF PayloadsInv, SaxInv

LEMMA StepKeepsPayloads ==
    ASSUME PayloadsInv, [Next]_vars
    PROVE  PayloadsInv'
<1>1. ASSUME NEW e \in Names, NEW a \in Attributes(e), start_element(e, a) PROVE PayloadsInv'
  BY <1>1, StartKeeps
<1>2. CASE end_element
  BY <1>2, EndKeeps
<1>3. ASSUME /\ UNCHANGED <<open, elements, osmChangeVars, changesetVars, kind, nested, exception>>
             /\ outcome' = "ok" => exception = "none" /\ open = <<>> /\ elements > 0
             /\ KeptInv'
      PROVE  PayloadsInv'
  <2>1. UploadInv' /\ ChangesetInv' /\ nested' \in BOOLEAN
    BY <1>3, NothingRead DEF PayloadsInv
  <2>2. SaxInv'
    BY <1>3 DEF PayloadsInv, SaxInv
  <2>3. QED
    BY <2>1, <2>2 DEF PayloadsInv
<1>4. CASE document_breaks
  <2>1. outcome = "parsing" /\ outcome' = outcome
    BY <1>4 DEF document_breaks, not_well_formed, Parsing
  <2>2. KeptInv'
    BY <1>4 DEF document_breaks, not_well_formed, Parsing, Seen, PayloadsInv, SaxInv, KeptInv
  <2>3. QED
    BY <1>3, <1>4, <2>1, <2>2 DEF document_breaks, not_well_formed, others
<1>5. CASE process_message_ends
  <2>1. outcome' = "ok" => exception = "none" /\ open = <<>> /\ elements > 0
    BY <1>5 DEF process_message_ends, parse_ends, Raised, bad_request, PayloadsInv, SaxInv, KeptInv
  <2>2. KeptInv'
    BY <1>5 DEF process_message_ends, parse_ends, PayloadsInv, SaxInv, KeptInv
  <2>3. QED
    BY <1>3, <1>5, <2>1, <2>2 DEF process_message_ends, parse_ends, others
<1>6. CASE UNCHANGED vars
  BY <1>3, <1>6 DEF vars, saxVars, PayloadsInv, SaxInv, KeptInv
<1>7. QED
  BY <1>1, <1>2, <1>4, <1>5, <1>6 DEF Next

LEMMA PayloadsInvariant == Spec => []PayloadsInv
<1>1. Init => PayloadsInv
  BY InitPayloads
<1>2. PayloadsInv /\ [Next]_vars => PayloadsInv'
  BY StepKeepsPayloads
<1>3. QED
  BY <1>1, <1>2, PTL DEF Spec

-----------------------------------------------------------------------------
(* Theorems.                                                               *)

\* What DocumentInv says of the calls, one by one.
LEMMA CallsInOrder ==
    ASSUME SaxInv, DocumentInv
    PROVE  /\ \A i \in DOMAIN doc : doc[i].complete => i \in 1..Told
           /\ \A i \in 1..Told : /\ i \in DOMAIN doc /\ doc[i].complete
                                 /\ i + 1 \in DOMAIN calls /\ calls[i + 1] = Meant(doc[i])
                                 /\ calls[i + 1].call = "process"
           /\ \A i \in DOMAIN calls : \/ i = 1 /\ calls[i].call = "start_document"
                                      \/ i - 1 \in 1..Told
                                      \/ /\ i = Len(calls) /\ calls[i].call = "end_document"
                                         /\ open = <<>> /\ elements > 0
           /\ elements > 0 => Len(calls) = (IF open = <<>> THEN Told + 2 ELSE Told + 1)
<1>1. /\ Len(doc) \in Nat /\ Len(calls) \in Nat /\ Len(open) \in Nat /\ elements \in Nat
      /\ DOMAIN doc = 1..Len(doc) /\ DOMAIN calls = 1..Len(calls)
  BY DEF DocumentInv, SaxInv, IsSeq
<1>2. Told \in Nat /\ Told <= Len(doc) /\ (Told = Len(doc) \/ Told = Len(doc) - 1)
  <2>1. Len(open) >= 3 => Len(doc) > 0
    BY DEF DocumentInv
  <2>2. QED
    BY <1>1, <2>1 DEF Told
<1>3. Told # Len(doc) => doc[Len(doc)].complete = FALSE
  <2>1. Told # Len(doc) => Len(open) >= 3
    BY DEF Told
  <2>2. QED
    BY <2>1 DEF DocumentInv
<1>4. elements = 0 => Len(doc) = 0 /\ Len(calls) = 0
  BY EmptyIsSeq DEF DocumentInv
<1>5. elements > 0 => /\ Len(calls) = (IF open = <<>> THEN Told + 2 ELSE Told + 1)
                      /\ calls[1].call = "start_document"
                      /\ open = <<>> => calls[Len(calls)].call = "end_document"
  BY DEF DocumentInv
<1>6. \A i \in DOMAIN doc : doc[i].complete => i \in 1..Told
  <2> SUFFICES ASSUME NEW i \in DOMAIN doc, doc[i].complete PROVE i \in 1..Told
    OBVIOUS
  <2>1. CASE Told = Len(doc)
    BY <1>1, <2>1
  <2>2. CASE Told # Len(doc)
    <3>1. i # Len(doc)
      BY <1>3, <2>2, Zenon
    <3>2. PICK n \in Nat, t \in Nat : n = Len(doc) /\ t = Told /\ t = n - 1
      BY <1>1, <1>2, <2>2
    <3>3. i \in 1..n /\ i # n
      BY <1>1, <3>1, <3>2
    <3>4. i \in 1..t
      BY <3>2, <3>3
    <3>5. QED
      BY <3>2, <3>4
  <2>3. QED
    BY <1>2, <2>1, <2>2
<1>7. ASSUME NEW i \in 1..Told
      PROVE  /\ i \in DOMAIN doc /\ doc[i].complete
             /\ i + 1 \in DOMAIN calls /\ calls[i + 1] = Meant(doc[i])
             /\ calls[i + 1].call = "process"
  <2>1. i \in 1..Len(doc) /\ elements > 0
    <3>1. PICK n \in Nat, t \in Nat : n = Len(doc) /\ t = Told /\ t <= n
      BY <1>1, <1>2
    <3>2. i \in 1..t
      BY <3>1
    <3>3. i \in 1..n /\ n # 0
      BY <3>1, <3>2
    <3>4. QED
      BY <1>1, <1>4, <3>1, <3>3
  <2>2. i + 1 \in 1..Len(calls)
    BY <1>2, <1>5, <2>1
  <2>3. doc[i].complete /\ calls[i + 1] = Meant(doc[i])
    BY DEF DocumentInv
  <2>4. calls[i + 1].call = "process"
    BY <2>3 DEF Meant
  <2>5. QED
    BY <1>1, <2>1, <2>2, <2>3, <2>4
<1>8. ASSUME NEW i \in DOMAIN calls
      PROVE  \/ i = 1 /\ calls[i].call = "start_document"
             \/ i - 1 \in 1..Told
             \/ /\ i = Len(calls) /\ calls[i].call = "end_document"
                /\ open = <<>> /\ elements > 0
  <2>1. elements > 0 /\ i \in Nat /\ i >= 1 /\ i <= Len(calls)
    BY <1>1, <1>4
  <2>2. CASE open = <<>>
    <3>1. i = 1 \/ i - 1 \in 1..Told \/ i = Len(calls)
      BY <1>2, <1>5, <2>1, <2>2
    <3>2. QED
      BY <1>5, <2>1, <2>2, <3>1
  <2>3. CASE open # <<>>
    <3>1. i = 1 \/ i - 1 \in 1..Told
      BY <1>2, <1>5, <2>1, <2>3
    <3>2. QED
      BY <1>5, <2>1, <3>1
  <2>4. QED
    BY <2>2, <2>3
<1>9. QED
  BY <1>5, <1>6, <1>7, <1>8

\* CallsAsInDocument, for documents of any length: the handler of an upload
\* is told of exactly the elements that are complete, in their order, with
\* the operation and if-unused of their block and with their own tags and
\* members (on_start_element and on_end_element).
THEOREM CallsAlwaysAsInDocument == Spec => []CallsAsInDocument
<1>1. PayloadsInv => CallsAsInDocument
  <2> SUFFICES ASSUME PayloadsInv, kind = "upload", exception = "none"
               PROVE  /\ \A i \in DOMAIN doc :
                             doc[i].complete => i + 1 \in DOMAIN calls /\ calls[i + 1] = Meant(doc[i])
                      /\ \A i \in DOMAIN calls :
                             calls[i].call = "process" => i - 1 \in DOMAIN doc /\ doc[i - 1].complete
    BY DEF CallsAsInDocument
  <2>1. SaxInv /\ DocumentInv
    BY DEF PayloadsInv, UploadInv
  <2>2. \A i \in DOMAIN doc :
            doc[i].complete => i + 1 \in DOMAIN calls /\ calls[i + 1] = Meant(doc[i])
    BY <2>1, CallsInOrder
  <2>3. ASSUME NEW i \in DOMAIN calls, calls[i].call = "process"
        PROVE  i - 1 \in DOMAIN doc /\ doc[i - 1].complete
    <3>1. i - 1 \in 1..Told
      BY <2>1, <2>3, CallsInOrder
    <3>2. QED
      BY <2>1, <3>1, CallsInOrder
  <2>4. QED
    BY <2>2, <2>3
<1>2. QED
  BY <1>1, PayloadsInvariant, PTL

LEMMA TagsCounted ==
    ASSUME TagsInv
    PROVE  Len(m_tags) = Cardinality(TagsInDocument)
<1> DEFINE n == Len(m_tags)
           S == {m_tags[i] : i \in 1..n}
<1>1. /\ n \in Nat /\ DOMAIN m_tags = 1..n /\ m_tags = [i \in 1..n |-> m_tags[i]]
      /\ \A i, j \in 1..n : m_tags[i].k = m_tags[j].k => i = j
      /\ S = TagsInDocument
  BY DEF TagsInv, IsSeq
<1>2. m_tags \in Bijection(1..n, S)
  <2>1. m_tags \in [1..n -> S]
    BY <1>1
  <2>2. \A i, j \in 1..n : m_tags[i] = m_tags[j] => i = j
    BY <1>1
  <2>3. \A x \in S : \E i \in 1..n : m_tags[i] = x
    OBVIOUS
  <2> HIDE DEF S, n
  <2>4. QED
    BY <2>1, <2>2, <2>3 DEF Bijection, Injection, Surjection, IsInjective
<1>3. ExistsBijection(1..n, S)
  BY <1>2 DEF ExistsBijection
<1> HIDE DEF S, n
<1>4. Cardinality(S) = n
  BY <1>1, <1>3, FS_CountingElements
<1>5. QED
  BY <1>1, <1>4 DEF n

\* AcceptedIsComplete, for documents of any length: a payload is accepted
\* only when its root is closed; the handler of an upload was told of its end
\* once and last, and a changeset gets the last value of each key of the
\* document (SaxParser::parse, add_tag).
THEOREM AcceptedAlwaysComplete == Spec => []AcceptedIsComplete
<1>1. PayloadsInv => AcceptedIsComplete
  <2> SUFFICES ASSUME PayloadsInv, outcome = "ok" PROVE AcceptedIsComplete
    BY DEF AcceptedIsComplete
  <2>1. SaxInv /\ exception = "none" /\ open = <<>> /\ elements > 0
    BY DEF PayloadsInv, SaxInv
  <2>2. ASSUME kind = "upload"
        PROVE  /\ \A i \in DOMAIN calls : (calls[i].call = "end_document") <=> (i = Len(calls))
               /\ \A i \in DOMAIN doc : doc[i].complete /\ calls[i + 1].call = "process"
               /\ Len(calls) = Len(doc) + 2
    <3>1. DocumentInv
      BY <2>1, <2>2 DEF PayloadsInv, UploadInv
    <3>2. Told = Len(doc) /\ Len(doc) \in Nat /\ DOMAIN doc = 1..Len(doc) /\ DOMAIN calls = 1..Len(calls)
      BY <2>1, <3>1, EmptyIsSeq DEF Told, DocumentInv, IsSeq
    <3>3. Len(calls) = Len(doc) + 2 /\ calls[Len(calls)].call = "end_document"
      BY <2>1, <3>1, <3>2 DEF DocumentInv
    <3>4. \A i \in DOMAIN doc : doc[i].complete /\ calls[i + 1].call = "process"
      BY <2>1, <3>1, <3>2, CallsInOrder
    <3>5. ASSUME NEW i \in DOMAIN calls, calls[i].call = "end_document" PROVE i = Len(calls)
      <4>1. CASE i - 1 \in 1..Told
        <5>1. calls[(i - 1) + 1].call = "process"
          BY <2>1, <3>1, <4>1, CallsInOrder
        <5>2. (i - 1) + 1 = i
          BY <3>2, <3>3
        <5>3. QED
          BY <3>5, <5>1, <5>2
      <4>2. CASE i = 1 /\ calls[i].call = "start_document"
        BY <3>5, <4>2
      <4>3. QED
        BY <2>1, <3>1, <4>1, <4>2, CallsInOrder
    <3>6. QED
      BY <3>3, <3>4, <3>5
  <2>3. ASSUME kind = "changeset", ~nested
        PROVE  /\ {m_tags[i] : i \in DOMAIN m_tags} = TagsInDocument
               /\ Len(m_tags) = Cardinality(TagsInDocument)
    <3>1. nested = FALSE
      BY <2>3 DEF PayloadsInv
    <3>2. TagsInv
      BY <2>1, <2>3, <3>1 DEF PayloadsInv, ChangesetInv
    <3>3. QED
      BY <3>2, TagsCounted DEF TagsInv
  <2>4. QED
    BY <2>1, <2>2, <2>3 DEF AcceptedIsComplete
<1>2. QED
  BY <1>1, PayloadsInvariant, PTL

\* FirstErrorReported, for every document: the answer is the first exception or
\* error there was, because libxml2 is stopped by it (KeptInv), and not the
\* error with which a stopped parser returns (handle_exception,
\* check_for_exception).
THEOREM FirstErrorAlwaysReported == Spec => []FirstErrorReported
<1>1. Init => FirstErrorReported
  BY DEF Init, SaxInit, FirstErrorReported
<1>2. PayloadsInv /\ FirstErrorReported /\ [Next]_vars => FirstErrorReported'
  <2> SUFFICES ASSUME PayloadsInv, FirstErrorReported, [Next]_vars PROVE FirstErrorReported'
    OBVIOUS
  <2>1. ASSUME NEW e \in Names, NEW a \in Attributes(e), start_element(e, a) PROVE FirstErrorReported'
    BY <2>1 DEF start_element, start_tag, Parsing, FirstErrorReported
  <2>2. CASE end_element
    BY <2>2 DEF end_element, end_tag, Parsing, FirstErrorReported
  <2>3. CASE document_breaks
    BY <2>3 DEF document_breaks, not_well_formed, Parsing, FirstErrorReported
  <2>4. CASE process_message_ends
    <3>1. KeptInv /\ first' = first
          /\ outcome' = IF exception # "none" \/ stopped \/ xml_error THEN Raised ELSE "ok"
      BY <2>4 DEF process_message_ends, parse_ends, PayloadsInv, SaxInv
    <3>2. CASE stopped = TRUE
      BY <3>1, <3>2 DEF KeptInv, Raised, FirstErrorReported
    <3>3. CASE stopped = FALSE
      BY <3>1, <3>3 DEF KeptInv, Raised, FirstErrorReported, bad_request
    <3>4. QED
      BY <3>1, <3>2, <3>3 DEF KeptInv
  <2>5. CASE UNCHANGED vars
    BY <2>5 DEF vars, saxVars, FirstErrorReported
  <2>6. QED
    BY <2>1, <2>2, <2>3, <2>4, <2>5 DEF Next
<1>3. QED
  BY <1>1, <1>2, PayloadsInvariant, PTL DEF Spec
=============================================================================
