---------------------------- MODULE RequestsProofs ----------------------------
(***************************************************************************)
(* What holds of one worker for every set of requests: an error answer to  *)
(* a write means that nothing was committed, the head of an answer is sent *)
(* once, its type and encoding are ones the client asked for, and its body *)
(* is a well-formed document.  The first parts are about the Accept and    *)
(* Accept-Encoding headers, then come the worker, the writers and their    *)
(* readers, and the responders that write the body.                        *)
(***************************************************************************)
EXTENDS Requests, WellFoundedInduction, TLAPS

-----------------------------------------------------------------------------
(* Least and greatest members of sets of numbers. *)

\* A set of numbers that is not empty has a least member.
LEMMA Least ==
    ASSUME NEW T \in SUBSET Nat, T # {}
    PROVE  \E x \in T : \A y \in T : x <= y
<1>1. \E x \in T : \A y \in T : ~(<<y, x>> \in OpToRel(<, Nat))
  BY WFMin, NatLessThanWellFounded
<1>2. OpToRel(<, Nat) = {ss \in Nat \X Nat : ss[1] < ss[2]}
  BY DEF OpToRel
<1>3. \E x \in T : \A y \in T : ~(<<y, x>> \in {ss \in Nat \X Nat : ss[1] < ss[2]})
  BY <1>1, <1>2, Zenon
<1>4. PICK x \in T : \A y \in T : ~(<<y, x>> \in {ss \in Nat \X Nat : ss[1] < ss[2]})
  BY <1>3
<1>5. \A y \in T : ~(y < x)
  BY <1>4
<1>6. QED
  BY <1>5

\* A set of numbers with an upper bound has a greatest member.
LEMMA Greatest ==
    ASSUME NEW n \in Nat, NEW T \in SUBSET (0..n), T # {}
    PROVE  \E x \in T : \A y \in T : y <= x
<1> DEFINE U == {m \in 0..n : n - m \in T}
<1>1. U \subseteq Nat /\ U # {}
  <2>1. PICK x \in T : TRUE
    OBVIOUS
  <2>2. n - x \in 0..n /\ n - (n - x) = x
    OBVIOUS
  <2>3. n - x \in U
    BY <2>2
  <2>4. U \subseteq Nat
    OBVIOUS
  <2> HIDE DEF U
  <2>5. QED
    BY <2>3, <2>4
<1>2. PICK x \in U : \A y \in U : x <= y
  BY <1>1, Least
<1>3. \A y \in T : n - y \in U
  OBVIOUS
<1>4. \A y \in T : y <= n - x
  BY <1>2, <1>3
<1>5. QED
  BY <1>2, <1>4

-----------------------------------------------------------------------------
(* The type of an answer: AcceptHeader and choose_best_mime_type. *)

\* The positions at which a header names a type.
Positions(header, t) == {i \in DOMAIN header : header[i].type = t}

\* A header that names a type has a last item for it.
LEMMA LastItem ==
    ASSUME NEW header \in Seq(AcceptItem), NEW t, Positions(header, t) # {}
    PROVE  LET at == Positions(header, t)
               i == CHOOSE i \in at : \A j \in at : j <= i
           IN  i \in at /\ \A j \in at : j <= i
<1> DEFINE at == Positions(header, t)
<1>1. Len(header) \in Nat /\ at \subseteq 0..Len(header)
  BY DEF Positions
<1>2. \E i \in at : \A j \in at : j <= i
  BY <1>1, Greatest
<1>3. QED
  BY <1>2

\* The quality of a type that is named is that of its last item.
LEMMA MappingType ==
    ASSUME NEW header \in Seq(AcceptItem), NEW t, contains(header, t)
    PROVE  mapping(header, t) \in 0..MaxQuality
<1>1. Positions(header, t) # {}
  BY DEF contains, Positions
<1>2. PICK i \in Positions(header, t) :
        mapping(header, t) = header[i].q
  BY <1>1, LastItem DEF mapping, Positions
<1>3. header[i] \in AcceptItem
  BY <1>2 DEF Positions
<1>4. QED
  BY <1>2, <1>3 DEF AcceptItem

\* The type that most_acceptable_of picks is the first of those with the
\* highest quality among the types that are named.
LEMMA MostAcceptable ==
    ASSUME NEW header \in Seq(AcceptItem), NEW available \in Seq(MimeTypes), available # <<>>,
           NEW type, type = most_acceptable_of(header, available)
    PROVE  LET named == {i \in DOMAIN available : contains(header, available[i])}
           IN  IF named # {}
               THEN \E i \in named :
                      /\ type = available[i]
                      /\ \A j \in named : mapping(header, available[j]) <= mapping(header, type)
               ELSE IF contains(header, "any_type") THEN type = available[1]
               ELSE type = "unspecified_type"
<1> DEFINE named == {i \in DOMAIN available : contains(header, available[i])}
           score(i) == mapping(header, available[i])
           IsBest(i) == \A j \in named : score(j) < score(i) \/ (score(j) = score(i) /\ i <= j)
<1>1. MaxQuality \in Nat /\ \A i \in named : i \in Nat /\ score(i) \in 0..MaxQuality
  BY MappingType DEF MaxQuality
<1>2. CASE named # {}
  <2> DEFINE scores == {score(i) : i \in named}
  <2>1. scores \in SUBSET (0..MaxQuality) /\ scores # {}
    BY <1>1, <1>2
  <2>2. PICK top \in scores : \A s \in scores : s <= top
    BY <1>1, <2>1, Greatest
  <2> DEFINE tops == {i \in named : score(i) = top}
  <2>3. tops \in SUBSET Nat /\ tops # {}
    BY <1>1, <2>2
  <2>4. PICK first \in tops : \A i \in tops : first <= i
    BY <2>3, Least
  <2>5. IsBest(first)
    <3> SUFFICES ASSUME NEW j \in named
                 PROVE  score(j) < score(first) \/ (score(j) = score(first) /\ first <= j)
      OBVIOUS
    <3>1. score(j) \in scores /\ score(first) = top
      BY <2>4
    <3>2. score(j) <= top /\ score(j) \in Nat /\ top \in Nat
      BY <3>1, <2>2, <1>1, <2>1
    <3>3. CASE score(j) = top
      BY <3>3, <3>1, <2>4
    <3>4. CASE score(j) # top
      BY <3>4, <3>1, <3>2
    <3>5. QED
      BY <3>3, <3>4
  <2> DEFINE best == CHOOSE i \in named : IsBest(i)
  <2>6. best \in named /\ IsBest(best)
    <3>1. first \in named
      BY <2>4
    <3> HIDE DEF IsBest, named
    <3>2. QED
      BY <3>1, <2>5
  <2>7. type = available[best]
    BY <1>2 DEF most_acceptable_of
  <2> HIDE DEF best
  <2>8. \A j \in named : score(j) <= score(best)
    <3> SUFFICES ASSUME NEW j \in named PROVE score(j) <= score(best)
      OBVIOUS
    <3>1. score(j) < score(best) \/ score(j) = score(best)
      BY <2>6
    <3>2. score(j) \in Nat /\ score(best) \in Nat
      BY <1>1, <2>6
    <3>3. QED
      BY <3>1, <3>2
  <2>9. QED
    BY <2>6, <2>7, <2>8, <1>2
<1>3. CASE named = {}
  BY <1>3 DEF most_acceptable_of
<1>4. QED
  BY <1>2, <1>3

\* What AcceptableType says of a type, for a header, the types that are offered
\* and the suffix of the path.
TypeFits(type, header, available, suffix) ==
    LET accept == {header[i] : i \in DOMAIN header}
        named == {t \in MimeTypes : \E item \in accept : item.type = t}
        offered == {available[i] : i \in DOMAIN available}
    IN  /\ type \in offered
        /\ suffix \in {"unspecified_type", type}
        /\ type \in named \/ \E item \in accept : item.type = "any_type"
        /\ suffix = "unspecified_type" =>
             \A t \in offered \cap named :
                type \in named /\ mapping(header, t) <= mapping(header, type)

\* choose_best_mime_type gives a type that fits or the status 406; 400 is only
\* for a header that could not be parsed.
LEMMA ChosenType ==
    ASSUME NEW header \in Seq(AcceptItem), NEW available \in Seq(MimeTypes), available # <<>>,
           NEW suffix \in ResourceTypes,
           NEW type, type = choose_best_mime_type(header, available, suffix)
    PROVE  /\ type = "bad_request" => header = <<>>
           /\ type \in MimeTypes => TypeFits(type, header, available, suffix)
<1> DEFINE best == most_acceptable_of(header, available)
           accept == {header[i] : i \in DOMAIN header}
           named == {t \in MimeTypes : \E item \in accept : item.type = t}
           offered == {available[i] : i \in DOMAIN available}
           at == {i \in DOMAIN available : contains(header, available[i])}
<1>1. \A t \in MimeTypes : contains(header, t) <=> t \in named
  BY DEF contains, MimeTypes
<1>2. contains(header, "any_type") <=> \E item \in accept : item.type = "any_type"
  BY DEF contains
<1>3. offered \subseteq MimeTypes /\ 1 \in DOMAIN available
  OBVIOUS
<1>4. CASE header = <<>>
  BY <1>4 DEF choose_best_mime_type, MimeTypes
<1>5. CASE header # <<>> /\ suffix # "unspecified_type"
  <2>1. type = suffix \/ type = "not_acceptable"
    BY <1>5 DEF choose_best_mime_type
  <2>2. type # "bad_request"
    BY <2>1 DEF ResourceTypes
  <2>3. type \in MimeTypes => type = suffix /\ Contains(available, suffix) /\ is_acceptable(header, suffix)
    BY <1>5, <2>1 DEF choose_best_mime_type, MimeTypes
  <2>4. type \in MimeTypes => type \in offered
    BY <2>3 DEF Contains
  <2>5. type \in MimeTypes => type \in named \/ \E item \in accept : item.type = "any_type"
    BY <2>3, <1>1, <1>2 DEF is_acceptable
  <2>6. QED
    BY <2>2, <2>3, <2>4, <2>5, <1>5 DEF TypeFits
<1>6. CASE header # <<>> /\ suffix = "unspecified_type"
  <2>1. type = IF best = "unspecified_type" THEN "not_acceptable" ELSE best
    BY <1>6 DEF choose_best_mime_type
  <2>2. CASE at # {}
    <3>1. PICK i \in at : /\ best = available[i]
                          /\ \A j \in at : mapping(header, available[j]) <= mapping(header, best)
      BY <2>2, MostAcceptable
    <3>2. best \in offered /\ best \in MimeTypes /\ best \in named
      BY <3>1, <1>1, <1>3
    <3>3. \A t \in offered \cap named : mapping(header, t) <= mapping(header, best)
      BY <3>1, <1>1, <1>3
    <3>4. type = best
      BY <2>1, <3>2 DEF MimeTypes
    <3>5. type # "bad_request"
      BY <3>2, <3>4 DEF MimeTypes
    <3>6. QED
      BY <3>2, <3>3, <3>4, <3>5, <1>6 DEF TypeFits
  <2>3. CASE at = {} /\ contains(header, "any_type")
    <3>1. best = available[1]
      BY <2>3, MostAcceptable
    <3>2. best \in offered /\ best \in MimeTypes
      BY <3>1, <1>3
    <3>3. offered \cap named = {}
      BY <2>3, <1>1, <1>3
    <3>4. type = best
      BY <2>1, <3>2 DEF MimeTypes
    <3>5. type # "bad_request"
      BY <3>2, <3>4 DEF MimeTypes
    <3>6. QED
      BY <3>2, <3>3, <3>4, <3>5, <1>2, <1>6, <2>3 DEF TypeFits
  <2>4. CASE at = {} /\ ~contains(header, "any_type")
    <3>1. best = "unspecified_type"
      BY <2>4, MostAcceptable
    <3>2. QED
      BY <2>1, <3>1 DEF MimeTypes
  <2>5. QED
    BY <2>2, <2>3, <2>4
<1>7. QED
  BY <1>4, <1>5, <1>6

-----------------------------------------------------------------------------
(* The encoding of an answer: choose_encoding. *)

NoQuality == [e \in Encodings |-> 0]

\* f is what FoldLeft computes over the first k items of a header.
IsFold(h, k, f) ==
    f = [s \in SUBSET (1..k) |->
           IF s = {} THEN NoQuality ELSE set_quality(f[s \ {Max(s)}], h[Max(s)])]

\* The last of the first k positions, and of a set of them that has it.
LEMMA MaxOfPrefix ==
    ASSUME NEW k \in Nat \ {0}, NEW s \in SUBSET (1..k), k \in s
    PROVE  Max(s) = k
<1>1. \A x \in s : (\A y \in s : x >= y) <=> x = k
  OBVIOUS
<1>2. QED
  BY <1>1 DEF Max

\* A header has such a fold.
LEMMA FoldExists ==
    ASSUME NEW h
    PROVE  \A k \in Nat : \E f : IsFold(h, k, f)
<1> DEFINE Without == {k \in Nat : ~\E f : IsFold(h, k, f)}
<1> SUFFICES ASSUME Without # {} PROVE FALSE
  OBVIOUS
<1>1. PICK k \in Without : \A j \in Without : k <= j
  BY Least
<1>2. CASE k = 0
  <2> DEFINE f == [s \in SUBSET (1..0) |-> NoQuality]
  <2>1. \A s \in SUBSET (1..0) : s = {}
    OBVIOUS
  <2>2. f = [s \in SUBSET (1..0) |->
               IF s = {} THEN NoQuality ELSE set_quality(f[s \ {Max(s)}], h[Max(s)])]
    BY <2>1
  <2> HIDE DEF f
  <2>3. IsFold(h, 0, f)
    BY <2>2 DEF IsFold
  <2>4. QED
    BY <2>3, <1>1, <1>2
<1>3. CASE k # 0
  <2>1. k - 1 \in Nat /\ ~(k <= k - 1) /\ k \in Nat \ {0}
    BY <1>1, <1>3
  <2>2. PICK f : IsFold(h, k - 1, f)
    BY <1>1, <2>1
  <2> DEFINE g == [s \in SUBSET (1..k) |->
                     IF k \in s THEN set_quality(f[s \ {k}], h[k]) ELSE f[s]]
  <2>3. ASSUME NEW s \in SUBSET (1..k)
        PROVE  g[s] = IF s = {} THEN NoQuality ELSE set_quality(g[s \ {Max(s)}], h[Max(s)])
    <3>1. CASE k \in s
      <4>1. Max(s) = k
        BY <3>1, <2>1, MaxOfPrefix
      <4>2. s \ {k} \in SUBSET (1..k) /\ k \notin s \ {k}
        OBVIOUS
      <4>3. g[s \ {k}] = f[s \ {k}]
        BY <4>2
      <4>4. g[s] = set_quality(f[s \ {k}], h[k])
        BY <3>1
      <4>5. QED
        BY <3>1, <4>1, <4>3, <4>4
    <3>2. CASE k \notin s
      <4>1. s \in SUBSET (1..(k - 1))
        BY <3>2, <2>1
      <4>2. s \ {Max(s)} \in SUBSET (1..k) /\ k \notin s \ {Max(s)}
        BY <3>2
      <4>3. g[s \ {Max(s)}] = f[s \ {Max(s)}] /\ g[s] = f[s]
        BY <4>2, <3>2
      <4>4. f[s] = IF s = {} THEN NoQuality ELSE set_quality(f[s \ {Max(s)}], h[Max(s)])
        BY <2>2, <4>1 DEF IsFold
      <4>5. QED
        BY <4>3, <4>4
    <3>3. QED
      BY <3>1, <3>2
  <2>4. g = [s \in SUBSET (1..k) |->
               IF s = {} THEN NoQuality ELSE set_quality(g[s \ {Max(s)}], h[Max(s)])]
    BY <2>3
  <2> HIDE DEF g
  <2>5. IsFold(h, k, g)
    BY <2>4 DEF IsFold
  <2>6. QED
    BY <2>5, <1>1
<1>4. QED
  BY <1>2, <1>3

\* What the first k items of a header make of the qualities: one above zero was
\* given to the encoding or to all, and an encoding that is named has at least
\* one that was given to it.
QualitiesFit(h, k, quality) ==
    /\ quality \in [Encodings -> 0..MaxQuality]
    /\ \A e \in Encodings :
         /\ quality[e] # 0 => \E i \in 1..k : h[i].name \in {e, "*"} /\ h[i].q = quality[e]
         /\ (\E i \in 1..k : h[i].name = e /\ h[i].q <= MaxQuality) =>
              \E i \in 1..k : h[i].name = e /\ h[i].q <= MaxQuality /\ h[i].q <= quality[e]

\* One item more.
LEMMA SetQualityFits ==
    ASSUME NEW h \in Seq(EncodingItem), NEW k \in DOMAIN h, NEW quality,
           QualitiesFit(h, k - 1, quality)
    PROVE  QualitiesFit(h, k, set_quality(quality, h[k]))
<1> DEFINE item == h[k]
           new == set_quality(quality, item)
<1> SUFFICES QualitiesFit(h, k, new)
  OBVIOUS
<1>1. /\ k \in Nat /\ k - 1 \in Nat /\ k \in 1..k /\ MaxQuality \in Nat
      /\ \A i \in 1..(k - 1) : i \in 1..k
      /\ \A i \in 1..k : i = k \/ i \in 1..(k - 1)
  BY DEF MaxQuality
<1>2. item.q \in 0..(MaxQuality + 1) /\ (item.q <= MaxQuality => item.q \in 0..MaxQuality)
  <2>1. item \in EncodingItem
    OBVIOUS
  <2>2. item.q \in 0..(MaxQuality + 1)
    BY <2>1 DEF EncodingItem
  <2>3. QED
    BY <2>2, <1>1
<1>3. quality \in [Encodings -> 0..MaxQuality]
  BY DEF QualitiesFit
<1>4. "*" \notin Encodings
  BY DEF Encodings
<1>5. CASE item.q > MaxQuality
  <2>1. new = quality
    BY <1>5 DEF set_quality
  <2>2. ~(item.q <= MaxQuality)
    BY <1>5, <1>2, <1>1
  <2>3. QED
    <3> HIDE DEF item, new
    <3>1. ASSUME NEW e \in Encodings, quality[e] # 0
          PROVE  \E i \in 1..k : h[i].name \in {e, "*"} /\ h[i].q = quality[e]
      BY <3>1, <1>1 DEF QualitiesFit
    <3>2. ASSUME NEW e \in Encodings, \E i \in 1..k : h[i].name = e /\ h[i].q <= MaxQuality
          PROVE  \E i \in 1..k : h[i].name = e /\ h[i].q <= MaxQuality /\ h[i].q <= quality[e]
      <4>1. PICK i \in 1..(k - 1) : h[i].name = e /\ h[i].q <= MaxQuality
        BY <3>2, <2>2, <1>1 DEF item
      <4>2. QED
        BY <4>1, <1>1 DEF QualitiesFit
    <3>3. QED
      BY <3>1, <3>2, <2>1, <1>3 DEF QualitiesFit
<1>6. CASE ~(item.q > MaxQuality) /\ item.name = "*"
  <2>1. new = [e \in Encodings |-> IF quality[e] = 0 THEN item.q ELSE quality[e]]
    BY <1>6 DEF set_quality
  <2>2. item.q \in 0..MaxQuality
    BY <1>6, <1>1, <1>2
  <2>3. new \in [Encodings -> 0..MaxQuality]
    BY <2>1, <2>2, <1>3
  <2>4. \A e \in Encodings : quality[e] <= new[e] /\ (new[e] = item.q \/ new[e] = quality[e])
    BY <2>1, <2>2, <1>3, <1>1
  <2>5. ASSUME NEW e \in Encodings, new[e] # 0
        PROVE  \E i \in 1..k : h[i].name \in {e, "*"} /\ h[i].q = new[e]
    <3>1. CASE new[e] = item.q
      BY <3>1, <1>1, <1>6
    <3>2. CASE new[e] = quality[e]
      <4>1. PICK i \in 1..(k - 1) : h[i].name \in {e, "*"} /\ h[i].q = quality[e]
        BY <3>2, <2>5 DEF QualitiesFit
      <4>2. QED
        BY <4>1, <3>2, <1>1
    <3>3. QED
      BY <3>1, <3>2, <2>4
  <2>6. ASSUME NEW e \in Encodings, \E i \in 1..k : h[i].name = e /\ h[i].q <= MaxQuality
        PROVE  \E i \in 1..k : h[i].name = e /\ h[i].q <= MaxQuality /\ h[i].q <= new[e]
    <3>1. PICK i \in 1..(k - 1) : h[i].name = e /\ h[i].q <= MaxQuality
      BY <2>6, <1>1, <1>6, <1>4
    <3>2. PICK j \in 1..(k - 1) : h[j].name = e /\ h[j].q <= MaxQuality /\ h[j].q <= quality[e]
      BY <3>1 DEF QualitiesFit
    <3>3. h[j].q \in Nat
      <4>1. h[j] \in EncodingItem
        BY <1>1
      <4>2. QED
        BY <4>1, <1>1 DEF EncodingItem
    <3>4. quality[e] \in Nat /\ new[e] \in Nat
      BY <1>3, <2>3, <1>1
    <3>5. h[j].q <= new[e]
      BY <3>2, <3>3, <3>4, <2>4
    <3>6. QED
      BY <3>2, <3>5, <1>1
  <2> HIDE DEF new
  <2>7. QED
    BY <2>3, <2>5, <2>6 DEF QualitiesFit
<1>7. CASE ~(item.q > MaxQuality) /\ item.name # "*"
  <2>1. new = [e \in Encodings |-> IF e = item.name THEN item.q ELSE quality[e]]
    BY <1>7 DEF set_quality
  <2>2. item.q \in 0..MaxQuality
    BY <1>7, <1>1, <1>2
  <2>3. new \in [Encodings -> 0..MaxQuality]
    BY <2>1, <2>2, <1>3
  <2>4. \A e \in Encodings : new[e] = IF e = item.name THEN item.q ELSE quality[e]
    BY <2>1
  <2>5. ASSUME NEW e \in Encodings, new[e] # 0
        PROVE  \E i \in 1..k : h[i].name \in {e, "*"} /\ h[i].q = new[e]
    <3>1. CASE e = item.name
      BY <3>1, <2>4, <1>1
    <3>2. CASE e # item.name
      <4>1. PICK i \in 1..(k - 1) : h[i].name \in {e, "*"} /\ h[i].q = quality[e]
        BY <3>2, <2>4, <2>5 DEF QualitiesFit
      <4>2. QED
        BY <4>1, <3>2, <2>4, <1>1
    <3>3. QED
      BY <3>1, <3>2
  <2>6. ASSUME NEW e \in Encodings, \E i \in 1..k : h[i].name = e /\ h[i].q <= MaxQuality
        PROVE  \E i \in 1..k : h[i].name = e /\ h[i].q <= MaxQuality /\ h[i].q <= new[e]
    <3>1. CASE e = item.name
      <4>1. item.q <= MaxQuality /\ item.q <= item.q
        BY <2>2, <1>1
      <4>2. QED
        BY <3>1, <4>1, <2>4, <1>1
    <3>2. CASE e # item.name
      <4>1. PICK i \in 1..(k - 1) : h[i].name = e /\ h[i].q <= MaxQuality
        BY <2>6, <1>1, <3>2
      <4>2. PICK j \in 1..(k - 1) : h[j].name = e /\ h[j].q <= MaxQuality /\ h[j].q <= quality[e]
        BY <4>1 DEF QualitiesFit
      <4>3. QED
        BY <4>2, <3>2, <2>4, <1>1
    <3>3. QED
      BY <3>1, <3>2
  <2> HIDE DEF new
  <2>7. QED
    BY <2>3, <2>5, <2>6 DEF QualitiesFit
<1>8. QED
  BY <1>5, <1>6, <1>7

\* The qualities of a whole header.
LEMMA QualitiesOfHeader ==
    ASSUME NEW h \in Seq(EncodingItem)
    PROVE  QualitiesFit(h, Len(h), qualities(h))
<1> DEFINE fold == CHOOSE f : IsFold(h, Len(h), f)
<1>1. DOMAIN h = 1..Len(h) /\ Len(h) \in Nat
  OBVIOUS
<1>2. qualities(h) = fold[1..Len(h)]
  <2>1. qualities(h) =
          (CHOOSE f : f = [s \in SUBSET DOMAIN h |->
             IF s = {} THEN NoQuality ELSE set_quality(f[s \ {Max(s)}], h[Max(s)])])[DOMAIN h]
    BY DEF qualities, FoldLeft, MapThenFoldSet, NoQuality
  <2>2. QED
    BY <2>1, <1>1 DEF IsFold
<1>3. IsFold(h, Len(h), fold)
  BY <1>1, FoldExists
<1> HIDE DEF fold
<1> DEFINE Wrong == {k \in Nat : k <= Len(h) /\ ~QualitiesFit(h, k, fold[1..k])}
<1>4. Wrong = {}
  <2> SUFFICES ASSUME Wrong # {} PROVE FALSE
    OBVIOUS
  <2>1. PICK k \in Wrong : \A j \in Wrong : k <= j
    BY Least
  <2>2. CASE k = 0
    <3>1. fold[1..0] = NoQuality
      BY <1>3, <1>1 DEF IsFold
    <3>2. QualitiesFit(h, 0, NoQuality)
      BY DEF QualitiesFit, NoQuality, MaxQuality
    <3>3. QED
      BY <3>1, <3>2, <2>1, <2>2
  <2>3. CASE k # 0
    <3>1. k \in DOMAIN h /\ k - 1 \in Nat /\ k - 1 <= Len(h) /\ ~(k <= k - 1)
      BY <2>1, <2>3, <1>1
    <3>2. QualitiesFit(h, k - 1, fold[1..(k - 1)])
      BY <3>1, <2>1
    <3>3. Max(1..k) = k
      BY <3>1, <1>1, MaxOfPrefix
    <3>4. 1..k \in SUBSET (1..Len(h)) /\ 1..k # {} /\ (1..k) \ {k} = 1..(k - 1)
      BY <3>1, <1>1
    <3>5. fold[1..k] = set_quality(fold[(1..k) \ {Max(1..k)}], h[Max(1..k)])
      BY <3>4, <1>3 DEF IsFold
    <3>6. fold[1..k] = set_quality(fold[1..(k - 1)], h[k])
      BY <3>3, <3>4, <3>5
    <3>7. QED
      BY <3>1, <3>2, <3>6, <2>1, SetQualityFits
  <2>4. QED
    BY <2>2, <2>3
<1>5. QED
  BY <1>2, <1>4, <1>1

\* The items of an empty header are the wildcard.
LEMMA ItemsThatCount ==
    ASSUME NEW h \in Seq(EncodingItem)
    PROVE  encodings(h) \in Seq(EncodingItem)
<1>1. [name |-> "*", q |-> MaxQuality] \in EncodingItem
  BY DEF EncodingItem, MaxQuality
<1>2. QED
  BY <1>1 DEF encodings

\* The encoding that is chosen has a quality above zero, and none has more.
LEMMA BestEncoding ==
    ASSUME NEW h \in Seq(EncodingItem), choose_encoding(h) \in Encodings
    PROVE  LET q == qualities(encodings(h))
           IN  /\ q[choose_encoding(h)] > 0
               /\ \A e \in Encodings : q[e] <= q[choose_encoding(h)]
<1> DEFINE q == qualities(encodings(h))
<1>1. /\ q["br"] \in Nat /\ q["deflate"] \in Nat /\ q["gzip"] \in Nat /\ q["identity"] \in Nat
      /\ MaxQuality \in Nat
  <2>1. q \in [Encodings -> 0..MaxQuality]
    BY ItemsThatCount, QualitiesOfHeader DEF QualitiesFit
  <2>2. QED
    BY <2>1 DEF Encodings, MaxQuality
<1> HIDE DEF q
<1>2. ~\E i \in DOMAIN h : h[i].name = "unparsable"
  BY DEF choose_encoding, Encodings
<1>3. choose_encoding(h) =
        IF q["br"] > 0 /\ \A e \in Encodings : q["br"] >= q[e] THEN "br"
        ELSE IF q["deflate"] > 0 /\ q["deflate"] >= q["gzip"] /\ q["deflate"] >= q["identity"] THEN "deflate"
        ELSE IF q["gzip"] > 0 /\ q["gzip"] >= q["identity"] THEN "gzip"
        ELSE IF q["identity"] > 0 THEN "identity"
        ELSE "not_acceptable"
  BY <1>2 DEF choose_encoding, q
<1>4. QED
  BY <1>1, <1>3 DEF Encodings, q

-----------------------------------------------------------------------------
(* The worker. *)

\* Where nothing was done to the database yet, and where nothing was answered.
Untouched == {"accept", "route", "authenticate", "limit", "options", "select", "permission",
              "payload", "update"}
Unanswered == Untouched \cup {"read_back", "negotiate"}
Stages == Unanswered \cup {"write", "done", "dead"}

\* The type and the encoding generate_response negotiates for the request.
Chosen == choose_best_mime_type(request.accept, types_available, request.suffix)

ChosenEncoding == choose_encoding(request.accept_encoding)

\* The write was committed, or it is an upload that is not parsed.
Applied ==
    \/ db = "committed"
    \/ handler = "changeset_upload" /\ request.suffix = "application_json"

\* An answer with a body or, for HEAD, the head of one.
Negotiated == pc = "write" \/ (Finished /\ head.code = 200 /\ request.method # "OPTIONS")

\* The method is one that the stage is for.
MethodInv ==
    /\ pc \in Stages
    /\ pc # "accept" => request \in Requests
    /\ pc \in {"authenticate", "limit"} => request.method # "other"
    /\ pc = "options" => request.method = "OPTIONS"
    /\ pc = "select" => request.method \in {"GET", "HEAD"}
    /\ pc \in {"permission", "payload", "update", "read_back"} => IsWrite
    /\ pc \in {"negotiate", "write"} => request.method # "OPTIONS"

\* How far the answer and the transaction are.
ProgressInv ==
    /\ pc \in Untouched => db = "unchanged"
    /\ pc \in {"read_back", "negotiate", "write"} /\ IsWrite => Applied
    /\ pc \in Unanswered => head = NoHead
    /\ pc \in Unanswered \ {"accept"} => m_workflow_status = status_NONE
    /\ pc = "write" => m_workflow_status = status_BODY /\ head.code = 200

\* The type and the encoding in the head are those that were negotiated.
ChosenInv ==
    Negotiated => /\ head.type = Chosen /\ Chosen \in MimeTypes
                  /\ head.encoding = ChosenEncoding /\ ChosenEncoding \in Encodings

WorkerInv == MethodInv /\ ProgressInv /\ ChosenInv /\ ErrorsUndone

\* The type a request is answered in depends on the request and its handler.
LEMMA ChosenStays ==
    ASSUME UNCHANGED <<request, handler>>
    PROVE  Chosen' = Chosen /\ types_available' = types_available /\ ChosenEncoding' = ChosenEncoding
<1>1. types_available' = types_available
  BY DEF types_available
<1>2. QED
  BY <1>1 DEF Chosen, ChosenEncoding

\* The lists of types the responders offer.
LEMMA Available == types_available \in Seq(MimeTypes) /\ types_available # <<>>
<1>1. \/ types_available = <<"text_plain">>
      \/ types_available = <<"application_xml">>
      \/ types_available = <<"application_xml", "application_json">>
  BY Zenon DEF types_available
<1>2. /\ <<"text_plain">> \in Seq(MimeTypes)
      /\ <<"application_xml">> \in Seq(MimeTypes)
      /\ <<"application_xml", "application_json">> \in Seq(MimeTypes)
  BY DEF MimeTypes
<1>3. types_available # <<>>
  BY <1>1
<1>4. types_available \in Seq(MimeTypes)
  BY <1>1, <1>2, Zenon
<1>5. QED
  BY <1>3, <1>4

\* A request that is in the works has the fields of a request.
LEMMA RequestFields ==
    ASSUME request \in Requests
    PROVE  /\ request.method \in Methods
           /\ request.accept \in Seq(AcceptItem)
           /\ request.accept_encoding \in Seq(EncodingItem)
           /\ request.suffix \in ResourceTypes
  BY RequestsAssumption DEF RequestType

\* What the negotiation of a request in the works comes to.
LEMMA ChosenFits ==
    ASSUME request \in Requests
    PROVE  /\ Chosen = "bad_request" => request.accept = <<>>
           /\ Chosen \in MimeTypes =>
                TypeFits(Chosen, request.accept, types_available, request.suffix)
  BY Available, RequestFields, ChosenType DEF Chosen

\* The code in a head is the one it was sent for.
LEMMA HeadSent ==
    ASSUME NEW status, NEW code, NEW type, NEW encoding, SendHead(status, code, type, encoding)
    PROVE  head'.code = code /\ head'.type = type /\ head'.encoding = encoding
<1>1. PICK attachment : head' = [status |-> status, code |-> code, type |-> type,
                                encoding |-> encoding, attachment |-> attachment]
  BY Zenon DEF SendHead
<1>2. QED
  BY <1>1

\* That of an error, too.
LEMMA ErrorSent ==
    ASSUME NEW code, ErrorAnswer(code)
    PROVE  head'.code = code
  BY HeadSent DEF ErrorAnswer

\* An error that is thrown before anything was sent is answered: it keeps the
\* invariant if the database was not touched, or the code does not tell.
LEMMA RespondKeeps ==
    ASSUME WorkerInv, NEW code \in Nat, code # 200, NEW next \in {"done", "dead"},
           pc \in Unanswered \ {"accept"},
           Respond(code, next), db' = db,
           IsWrite => db = "unchanged" \/ code \in {406, 500} \/ request.accept = <<>>
    PROVE  WorkerInv'
<1>1. m_workflow_status = status_NONE /\ request \in Requests
  BY DEF WorkerInv, ProgressInv, MethodInv
<1>2. /\ ErrorAnswer(code)
      /\ m_workflow_status' = status_FINISHED
      /\ pc' = next
      /\ UNCHANGED <<request, handler>>
  BY <1>1 DEF Respond, may_enter, status_NONE, status_HEADERS, body
<1>3. head'.code = code
  BY <1>2, ErrorSent
<1>4. MethodInv'
  BY <1>1, <1>2 DEF MethodInv, Stages, IsWrite
<1>5. ProgressInv'
  BY <1>2 DEF ProgressInv, Unanswered, Untouched
<1>6. ChosenInv'
  BY <1>2, <1>3 DEF ChosenInv, Negotiated, Finished
<1>7. ErrorsUndone'
  BY <1>2, <1>3 DEF ErrorsUndone, IsWrite, Finished
<1>8. QED
  BY <1>4, <1>5, <1>6, <1>7 DEF WorkerInv

\* The same for Throw and ThrowOther.
LEMMA ThrowKeeps ==
    ASSUME WorkerInv, NEW code \in Nat, code # 200,
           pc \in Unanswered \ {"accept"}, Throw(code),
           IsWrite => db = "unchanged" \/ code \in {406, 500} \/ request.accept = <<>>
    PROVE  WorkerInv'
<1>1. Respond(code, "done") /\ db' = db
  BY DEF Throw
<1>2. QED
  BY <1>1, RespondKeeps

LEMMA ThrowOtherKeeps ==
    ASSUME WorkerInv, pc \in Unanswered \ {"accept"}, ThrowOther
    PROVE  WorkerInv'
<1>1. Respond(500, "dead") /\ db' = db
  BY DEF ThrowOther
<1>2. QED
  BY <1>1, RespondKeeps

\* A stage that changes neither the answer nor the database hands over to the
\* next one.
LEMMA ContinueKeeps ==
    ASSUME WorkerInv, NEW next \in Unanswered \ {"accept"},
           pc \in Unanswered \ {"accept"}, Continue(next),
           next \in {"authenticate", "limit"} => request.method # "other",
           next = "options" => request.method = "OPTIONS",
           next = "select" => request.method \in {"GET", "HEAD"},
           next \in {"permission", "payload", "update", "read_back"} => IsWrite,
           next = "negotiate" => request.method # "OPTIONS",
           next \in Untouched => db' = "unchanged",
           next \in {"read_back", "negotiate"} /\ IsWrite => Applied'
    PROVE  WorkerInv'
<1>1. /\ pc' = next
      /\ UNCHANGED <<request, m_workflow_status, head>>
  BY DEF Continue
<1>2. MethodInv'
  BY <1>1 DEF WorkerInv, MethodInv, Stages, Unanswered, Untouched, IsWrite
<1>3. ProgressInv'
  BY <1>1 DEF WorkerInv, ProgressInv, Unanswered, Untouched, IsWrite
<1>4. ChosenInv' /\ ErrorsUndone'
  BY <1>1 DEF ChosenInv, Negotiated, ErrorsUndone, Finished, Unanswered, Untouched
<1>5. QED
  BY <1>2, <1>3, <1>4 DEF WorkerInv

\* An error is never thrown with the code of success.
LEMMA ErrorCodes == \A code \in refusals \cup update_refusals : code \in Nat /\ code # 200
<1>1. \A code \in refusals : code \in {400, 404, 410}
  BY DEF refusals
<1>2. \A code \in update_refusals : code \in {400, 404, 409, 410, 412, 413, 429}
  BY DEF update_refusals
<1>3. QED
  BY <1>1, <1>2

\* The steps up to the handler.
LEMMA EarlySteps ==
    ASSUME WorkerInv, Accept \/ Route \/ Authenticate \/ CheckLimit \/ Options
    PROVE  WorkerInv'
<1> USE DEF Unanswered, Untouched
<1>0. pc \in Untouched => db = "unchanged"
  BY DEF WorkerInv, ProgressInv
<1>1. CASE Accept
  <2>1. /\ pc = "accept" /\ pc' = "route"
        /\ request' \in Requests
        /\ m_workflow_status' = status_NONE
        /\ UNCHANGED <<head, db>>
    BY <1>1 DEF Accept, reset
  <2>2. MethodInv'
    BY <2>1 DEF MethodInv, Stages
  <2>3. ProgressInv'
    BY <2>1 DEF WorkerInv, ProgressInv
  <2>4. ChosenInv' /\ ErrorsUndone'
    BY <2>1 DEF ChosenInv, Negotiated, ErrorsUndone, Finished
  <2>5. QED
    BY <2>2, <2>3, <2>4 DEF WorkerInv
<1>2. CASE Route
  <2> DEFINE result == match(request.method, request.path)
  <2>1. pc = "route"
    BY <1>2 DEF Route
  <2>2. CASE Throw(400) \/ Throw(404) \/ Throw(405) \/ Throw(500)
    BY <2>2, <2>1, <1>0, ThrowKeeps
  <2>3. CASE result \notin {"not_found", "method_not_allowed"} /\ Continue("authenticate") /\ UNCHANGED db
    <3>1. request.method # "other"
      BY <2>3 DEF match
    <3>2. QED
      BY <3>1, <2>3, <2>1, <1>0, ContinueKeeps
  <2>4. QED
    BY <1>2, <2>2, <2>3, Zenon DEF Route
<1>3. CASE Authenticate
  <2>1. pc = "authenticate"
    BY <1>3 DEF Authenticate
  <2>2. CASE Throw(401)
    BY <2>2, <2>1, <1>0, ThrowKeeps
  <2>3. CASE Continue("limit") /\ UNCHANGED db
    <3>1. request.method # "other"
      BY <2>1 DEF WorkerInv, MethodInv
    <3>2. QED
      BY <3>1, <2>3, <2>1, <1>0, ContinueKeeps
  <2>4. QED
    BY <1>3, <2>2, <2>3 DEF Authenticate
<1>4. CASE CheckLimit
  <2>1. pc = "limit"
    BY <1>4 DEF CheckLimit
  <2>2. request.method \in Methods \ {"other"}
    BY <2>1, RequestFields DEF WorkerInv, MethodInv
  <2>3. CASE Throw(509)
    BY <2>3, <2>1, <1>0, ThrowKeeps
  <2>4. CASE /\ UNCHANGED db
             /\ \/ request.method \in {"GET", "HEAD"} /\ Continue("select")
                \/ request.method \in {"POST", "PUT"} /\ Continue("permission")
                \/ request.method = "OPTIONS" /\ Continue("options")
    BY <2>4, <2>1, <1>0, ContinueKeeps DEF IsWrite
  <2> DEFINE next == CASE request.method \in {"GET", "HEAD"} -> "select"
                       [] request.method \in {"POST", "PUT"} -> "permission"
                       [] request.method = "OPTIONS" -> "options"
  <2>5. \/ request.method \in {"GET", "HEAD"} /\ next = "select"
        \/ request.method \in {"POST", "PUT"} /\ next = "permission"
        \/ request.method = "OPTIONS" /\ next = "options"
    BY <2>2 DEF Methods
  <2>6. Throw(509) \/ (Continue(next) /\ UNCHANGED db)
    BY <1>4 DEF CheckLimit
  <2> HIDE DEF next
  <2>7. QED
    BY <2>3, <2>4, <2>5, <2>6
<1>5. CASE Options
  <2>1. pc = "options"
    BY <1>5 DEF Options
  <2>2. CASE Throw(405)
    BY <2>2, <2>1, <1>0, ThrowKeeps
  <2>3. CASE ~Throw(405)
    <3>1. /\ m_workflow_status' = status_FINISHED
          /\ pc' = "done"
          /\ UNCHANGED request
      BY <1>5, <2>3 DEF Options
    <3>2. request \in Requests /\ request.method = "OPTIONS"
      BY <2>1 DEF WorkerInv, MethodInv
    <3>3. MethodInv'
      BY <3>1, <3>2 DEF MethodInv, Stages
    <3>4. ProgressInv'
      BY <3>1 DEF ProgressInv
    <3>5. ChosenInv' /\ ErrorsUndone'
      BY <3>1, <3>2 DEF ChosenInv, Negotiated, ErrorsUndone, IsWrite
    <3>6. QED
      BY <3>3, <3>4, <3>5 DEF WorkerInv
  <2>4. QED
    BY <2>2, <2>3
<1>6. QED
  BY <1>1, <1>2, <1>3, <1>4, <1>5

\* The steps of the handler, up to the negotiation of the answer.
LEMMA HandlerSteps ==
    ASSUME WorkerInv,
           \/ Select \/ CheckPermission \/ GetPayload \/ Update \/ ReadBack
           \/ \E at \in {"authenticate", "select", "permission", "payload", "update", "read_back"} :
                DatabaseFails(at)
    PROVE  WorkerInv'
<1> USE DEF Unanswered, Untouched
<1>0. pc \in Untouched => db = "unchanged"
  BY DEF WorkerInv, ProgressInv
<1>1. CASE Select
  <2>1. pc = "select"
    BY <1>1 DEF Select
  <2>2. request.method \in {"GET", "HEAD"}
    BY <2>1 DEF WorkerInv, MethodInv
  <2>3. CASE \E code \in refusals : Throw(code)
    BY <2>3, <2>1, <1>0, ErrorCodes, ThrowKeeps
  <2>4. CASE Continue("negotiate") /\ UNCHANGED db
    BY <2>4, <2>1, <2>2, ContinueKeeps DEF IsWrite
  <2>5. QED
    BY <1>1, <2>3, <2>4 DEF Select
<1>2. CASE CheckPermission
  <2>1. pc = "permission"
    BY <1>2 DEF CheckPermission
  <2>2. IsWrite
    BY <2>1 DEF WorkerInv, MethodInv
  <2>3. CASE \E code \in {400, 401, 403} : Throw(code)
    BY <2>3, <2>1, <1>0, ThrowKeeps
  <2>4. CASE Continue("payload") /\ UNCHANGED db
    BY <2>4, <2>1, <2>2, <1>0, ContinueKeeps
  <2>5. QED
    BY <1>2, <2>3, <2>4 DEF CheckPermission
<1>3. CASE GetPayload
  <2>1. pc = "payload"
    BY <1>3 DEF GetPayload
  <2>2. IsWrite
    BY <2>1 DEF WorkerInv, MethodInv
  <2>3. CASE \E code \in {400, 413, 415, 500} : Throw(code)
    BY <2>3, <2>1, <1>0, ThrowKeeps
  <2>4. CASE Continue("update") /\ UNCHANGED db
    BY <2>4, <2>1, <2>2, <1>0, ContinueKeeps
  <2>5. QED
    BY <1>3, <2>3, <2>4 DEF GetPayload
<1>4. CASE Update
  <2>1. pc = "update"
    BY <1>4 DEF Update, Refused
  <2>2. IsWrite /\ request.method # "OPTIONS"
    BY <2>1 DEF WorkerInv, MethodInv, IsWrite
  <2>3. CASE \E code \in update_refusals : Throw(code)
    BY <2>3, <2>1, <1>0, ErrorCodes, ThrowKeeps
  <2>4. CASE /\ db' = IF handler = "changeset_upload" /\ request.suffix = "application_json"
                      THEN "unchanged" ELSE "committed"
             /\ Continue("read_back") \/ Continue("negotiate")
             /\ UNCHANGED handler
    <3>1. Applied'
      BY <2>4 DEF Applied, Continue
    <3>2. QED
      BY <3>1, <2>1, <2>2, <2>4, ContinueKeeps
  <2>5. QED
    BY <1>4, <2>3, <2>4 DEF Update, Refused
<1>5. CASE ReadBack
  <2>1. pc = "read_back" /\ Continue("negotiate") /\ UNCHANGED <<handler, db>>
    BY <1>5 DEF ReadBack
  <2>2. IsWrite /\ request.method # "OPTIONS" /\ Applied
    BY <2>1 DEF WorkerInv, MethodInv, ProgressInv, IsWrite
  <2>3. Applied'
    BY <2>1, <2>2 DEF Applied, Continue
  <2>4. QED
    BY <2>1, <2>2, <2>3, ContinueKeeps
<1>6. CASE \E at \in {"authenticate", "select", "permission", "payload", "update", "read_back"} :
             DatabaseFails(at)
  BY <1>6, ThrowOtherKeeps DEF DatabaseFails
<1>7. QED
  BY <1>1, <1>2, <1>3, <1>4, <1>5, <1>6

\* A step that changes nothing of the answer but how far it is.
LEMMA AnswerStays ==
    ASSUME WorkerInv, UNCHANGED <<request, handler, head, db>>,
           \/ UNCHANGED <<pc, m_workflow_status>>
           \/ pc = "write" /\ pc' \in {"done", "dead"}
    PROVE  WorkerInv'
<1>1. Chosen' = Chosen /\ ChosenEncoding' = ChosenEncoding
  BY ChosenStays
<1>2. CASE UNCHANGED <<pc, m_workflow_status>>
  <2>1. MethodInv' /\ ProgressInv'
    BY <1>2 DEF WorkerInv, MethodInv, ProgressInv, IsWrite, Applied
  <2>2. ChosenInv' /\ ErrorsUndone'
    BY <1>1, <1>2 DEF WorkerInv, ChosenInv, Negotiated, ErrorsUndone, IsWrite, Finished
  <2>3. QED
    BY <2>1, <2>2 DEF WorkerInv
<1>3. CASE pc = "write" /\ pc' \in {"done", "dead"}
  <2>1. MethodInv' /\ ProgressInv'
    BY <1>3 DEF WorkerInv, MethodInv, ProgressInv, Stages, Unanswered, Untouched
  <2>2. ChosenInv'
    BY <1>1, <1>3 DEF WorkerInv, ChosenInv, Negotiated
  <2>3. ErrorsUndone'
    BY <1>3 DEF WorkerInv, ProgressInv, ErrorsUndone, IsWrite, Applied
  <2>4. QED
    BY <2>1, <2>2, <2>3 DEF WorkerInv
<1>4. QED
  BY <1>2, <1>3

\* The negotiation, and a writer that cannot be set up.
LEMMA NegotiateStep ==
    ASSUME WorkerInv, Negotiate \/ NoWriter
    PROVE  WorkerInv'
<1>1. CASE Negotiate
  <2>1. pc = "negotiate" /\ pc \in Unanswered \ {"accept"} /\ request \in Requests
    BY <1>1 DEF Negotiate, WorkerInv, MethodInv, Unanswered, Untouched
  <2>2. CASE ThrowOther
    BY <2>2, <2>1, ThrowOtherKeeps
  <2>3. CASE Throw(406)
    BY <2>3, <2>1, ThrowKeeps
  <2>4. CASE Chosen = "bad_request" /\ Throw(400)
    BY <2>4, <2>1, ChosenFits, ThrowKeeps
  <2>5. CASE /\ Chosen \in MimeTypes /\ ChosenEncoding \in Encodings
             /\ SendHead(200, 200, Chosen, ChosenEncoding)
             /\ UNCHANGED <<request, handler, db>>
             /\ \/ m_workflow_status' = status_FINISHED /\ pc' = "done"
                \/ m_workflow_status' = status_BODY /\ pc' = "write"
    <3>1. head'.code = 200 /\ head'.type = Chosen /\ head'.encoding = ChosenEncoding
      BY <2>5, HeadSent
    <3>2. Chosen' = Chosen /\ ChosenEncoding' = ChosenEncoding
      BY <2>5, ChosenStays
    <3>3. MethodInv'
      BY <2>1, <2>5 DEF WorkerInv, MethodInv, Stages
    <3>4. IsWrite' => Applied'
      BY <2>1, <2>5 DEF WorkerInv, ProgressInv, IsWrite, Applied
    <3>5. ProgressInv'
      BY <3>1, <3>4, <2>5 DEF ProgressInv, Unanswered, Untouched
    <3>6. ChosenInv'
      BY <3>1, <3>2, <2>5 DEF ChosenInv
    <3>7. ErrorsUndone'
      BY <3>1, <3>4 DEF ErrorsUndone, Applied
    <3>8. QED
      BY <3>3, <3>5, <3>6, <3>7 DEF WorkerInv
  <2>6. QED
    BY <1>1, <2>2, <2>3, <2>4, <2>5 DEF Negotiate, Chosen, ChosenEncoding
<1>2. CASE NoWriter
  <2>1. pc = "write" /\ m_workflow_status = status_BODY
    BY <1>2 DEF NoWriter, WorkerInv, ProgressInv
  <2>2. ~may_enter(status_HEADERS)
    BY <2>1 DEF may_enter, status_BODY, status_HEADERS
  <2>3. pc' = "dead" /\ UNCHANGED <<request, handler, head, db, m_workflow_status>>
    BY <1>2, <2>2 DEF NoWriter, ThrowOther, Respond
  <2>4. QED
    BY <2>1, <2>3, AnswerStays
<1>3. QED
  BY <1>1, <1>2

\* The steps that write the body, and those between two requests.
LEMMA LateSteps ==
    ASSUME WorkerInv, Write \/ ClientGone \/ Dispose \/ Replaced \/ UNCHANGED vars
    PROVE  WorkerInv'
<1>1. CASE UNCHANGED answer \/ UNCHANGED vars
  BY <1>1, AnswerStays DEF answer, vars
<1>2. CASE Finish
  BY <1>2, AnswerStays DEF Finish
<1>3. CASE Dispose \/ Replaced
  <2>1. pc' = "accept" /\ head' = NoHead /\ db' = "unchanged"
    BY <1>3 DEF Dispose, Replaced, NothingLeft
  <2>2. MethodInv' /\ ProgressInv'
    BY <2>1 DEF MethodInv, ProgressInv, Stages, Unanswered, Untouched
  <2>3. ChosenInv' /\ ErrorsUndone'
    BY <2>1 DEF ChosenInv, Negotiated, ErrorsUndone, Finished
  <2>4. QED
    BY <2>2, <2>3 DEF WorkerInv
<1>4. Write \/ ClientGone => UNCHANGED answer \/ Finish
  BY DEF Write, WriteCall, WriteRow, Fetch, FetchFails, WriteSorted, WriteFails, ClientGone, answer
<1>5. QED
  BY <1>1, <1>2, <1>3, <1>4

LEMMA InitWorker == Init => WorkerInv
<1> SUFFICES ASSUME Init PROVE WorkerInv
  OBVIOUS
<1>1. pc = "accept" /\ head = NoHead /\ db = "unchanged"
  BY DEF Init
<1>2. MethodInv /\ ProgressInv
  BY <1>1 DEF MethodInv, ProgressInv, Stages, Unanswered, Untouched
<1>3. ChosenInv /\ ErrorsUndone
  BY <1>1 DEF ChosenInv, Negotiated, ErrorsUndone, Finished
<1>4. QED
  BY <1>2, <1>3 DEF WorkerInv

LEMMA NextWorker == WorkerInv /\ [Next]_vars => WorkerInv'
  BY EarlySteps, HandlerSteps, NegotiateStep, LateSteps DEF Next, Process

\* What the worker relies on at each stage of process_request: the method, how
\* far the answer and the transaction are, and the negotiated type.
THEOREM WorkerInvariant == Spec => []WorkerInv
  BY InitWorker, NextWorker, PTL DEF Spec

\* An error answer to a write means that the database is as it was, and 200
\* that it was committed (process_post_put_request and the responders'
\* constructors), whatever the requests.
THEOREM ErrorsAlwaysUndone == Spec => []ErrorsUndone
<1>1. WorkerInv => ErrorsUndone
  BY DEF WorkerInv
<1>2. QED
  BY <1>1, WorkerInvariant, PTL

\* An answer has a type that is offered, fits the path and is accepted, and
\* none that is named has a higher quality (choose_best_mime_type), whatever
\* Accept header comes in.
THEOREM TypeAlwaysAcceptable == Spec => []AcceptableType
<1>1. WorkerInv => AcceptableType
  <2> SUFFICES ASSUME WorkerInv, Finished, head.code = 200, request.method # "OPTIONS"
               PROVE  AcceptableType
    BY DEF AcceptableType
  <2>1. head.type = Chosen /\ Chosen \in MimeTypes
    BY DEF WorkerInv, ChosenInv, Negotiated
  <2>2. request \in Requests
    BY DEF WorkerInv, MethodInv, Finished
  <2>3. TypeFits(head.type, request.accept, types_available, request.suffix)
    BY <2>1, <2>2, ChosenFits
  <2>4. QED
    BY <2>3, Zenon DEF TypeFits, AcceptableType, mapping
<1>2. QED
  BY <1>1, WorkerInvariant, PTL

\* The encoding of an answer has a quality above zero, and no encoding that is
\* named always has a higher one (choose_encoding), whatever Accept-Encoding
\* header comes in.
THEOREM EncodingAlwaysAcceptable == Spec => []AcceptableEncoding
<1>1. WorkerInv => AcceptableEncoding
  <2> DEFINE header == request.accept_encoding
             h == encodings(header)
             items == Range(h)
             given(e) == {item.q : item \in {x \in items : x.name \in {e, "*"} /\ x.q <= MaxQuality}}
             given_by_name(e) == {item.q : item \in {x \in items : x.name = e /\ x.q <= MaxQuality}}
             q == qualities(h)
             chosen == head.encoding
  <2> SUFFICES ASSUME WorkerInv, Finished, head.code = 200, request.method # "OPTIONS"
               PROVE  /\ \E x \in given(chosen) : x > 0
                      /\ \A e \in Encodings : given_by_name(e) # {} =>
                           \E x \in given(chosen), r \in given_by_name(e) : x >= r
    BY DEF AcceptableEncoding
  <2>1. chosen = choose_encoding(header) /\ chosen \in Encodings
    BY DEF WorkerInv, ChosenInv, Negotiated, ChosenEncoding
  <2>2. header \in Seq(EncodingItem) /\ h \in Seq(EncodingItem)
    <3>1. header \in Seq(EncodingItem)
      BY RequestFields DEF WorkerInv, MethodInv, Finished
    <3>2. QED
      BY <3>1, ItemsThatCount
  <2>3. QualitiesFit(h, Len(h), q)
    BY <2>2, QualitiesOfHeader
  <2>4. q[chosen] > 0 /\ \A e \in Encodings : q[e] <= q[chosen]
    BY <2>1, <2>2, BestEncoding
  <2>5. MaxQuality \in Nat /\ \A e \in Encodings : q[e] \in 0..MaxQuality
    BY <2>3 DEF QualitiesFit, MaxQuality
  <2>6. \A i \in 1..Len(h) : i \in DOMAIN h /\ h[i] \in items /\ h[i].q \in Nat
    <3>1. \A i \in 1..Len(h) : i \in DOMAIN h /\ h[i] \in items /\ h[i] \in EncodingItem
      BY <2>2 DEF Range
    <3>2. QED
      BY <3>1, <2>5 DEF EncodingItem
  <2>0. \A x \in items : \E i \in 1..Len(h) : x = h[i]
    BY <2>2 DEF Range
  <2> HIDE DEF q, chosen, h, items
  <2>7. q[chosen] \in given(chosen)
    <3>1. q[chosen] # 0 /\ q[chosen] <= MaxQuality
      BY <2>1, <2>4, <2>5
    <3>2. PICK i \in 1..Len(h) : h[i].name \in {chosen, "*"} /\ h[i].q = q[chosen]
      BY <3>1, <2>1, <2>3 DEF QualitiesFit
    <3>3. QED
      BY <3>1, <3>2, <2>6
  <2>8. ASSUME NEW e \in Encodings, given_by_name(e) # {}
        PROVE  \E r \in given_by_name(e) : q[chosen] >= r
    <3>1. \E i \in 1..Len(h) : h[i].name = e /\ h[i].q <= MaxQuality
      BY <2>8, <2>0
    <3>2. PICK i \in 1..Len(h) : h[i].name = e /\ h[i].q <= MaxQuality /\ h[i].q <= q[e]
      BY <3>1, <2>3 DEF QualitiesFit
    <3>3. h[i].q \in given_by_name(e)
      BY <3>2, <2>6
    <3>4. q[chosen] >= h[i].q
      BY <3>2, <2>4, <2>5, <2>6, <2>1
    <3>5. QED
      BY <3>3, <3>4
  <2> HIDE DEF given, given_by_name
  <2>9. QED
    BY <2>4, <2>7, <2>8
<1>2. QED
  BY <1>1, WorkerInvariant, PTL

\* Both: the type and the encoding of an answer are what its request asked for.
THEOREM AnswerAlwaysAcceptable == Spec => []AcceptableAnswer
<1>1. AcceptableType /\ AcceptableEncoding => AcceptableAnswer
  BY DEF AcceptableAnswer
<1>2. QED
  BY <1>1, TypeAlwaysAcceptable, EncodingAlwaysAcceptable, PTL

\* Nothing of a head changes once it was sent, whatever fails after it
\* (request::check_workflow).
THEOREM HeadSentOnce == Spec => HeadOnce
<1>1. WorkerInv /\ [Next]_vars => [head # NoHead => head' = head \/ pc \in {"done", "dead"}]_vars
  <2> SUFFICES ASSUME WorkerInv, Next, head # NoHead, pc \notin {"done", "dead"}
               PROVE  head' = head
    OBVIOUS
  <2>1. pc = "write" /\ m_workflow_status = status_BODY
    BY DEF WorkerInv, MethodInv, ProgressInv, Stages
  <2>2. NoWriter \/ Write \/ ClientGone
    BY <2>1 DEF Next, Process, Accept, Route, Authenticate, CheckLimit, Options, Select,
                CheckPermission, GetPayload, Update, Refused, ReadBack, Negotiate, DatabaseFails,
                Dispose, Replaced
  <2>3. CASE NoWriter
    <3>1. ~may_enter(status_HEADERS)
      BY <2>1 DEF may_enter, status_BODY, status_HEADERS
    <3>2. QED
      BY <2>3, <3>1 DEF NoWriter, ThrowOther, Respond
  <2>4. CASE Write \/ ClientGone
    BY <2>4 DEF Write, WriteCall, WriteRow, Fetch, FetchFails, WriteSorted, WriteFails, Finish,
                ClientGone, answer
  <2>5. QED
    BY <2>2, <2>3, <2>4
<1>2. QED
  BY <1>1, WorkerInvariant, PTL DEF Spec, HeadOnce

-----------------------------------------------------------------------------
(* Sequences whose end is taken off and put on. *)

IsSeq(s) == Len(s) \in Nat /\ s = [i \in 1..Len(s) |-> s[i]]

LEMMA MemberOfSeq == ASSUME NEW S, NEW s \in Seq(S) PROVE IsSeq(s)
  BY DEF IsSeq

LEMMA NoSeq == IsSeq(<<>>) /\ Len(<<>>) = 0
<1>1. <<>> \in Seq({}) /\ Len(<<>>) = 0
  OBVIOUS
<1>2. IsSeq(<<>>)
  BY <1>1, MemberOfSeq
<1>3. QED
  BY <1>1, <1>2

LEMMA OneSeq == ASSUME NEW x PROVE IsSeq(<<x>>) /\ Len(<<x>>) = 1 /\ <<x>> # <<>> /\ Last(<<x>>) = x
<1>1. <<x>> \in Seq({x}) /\ Len(<<x>>) = 1 /\ <<x>>[1] = x
  OBVIOUS
<1>2. QED
  BY <1>1, MemberOfSeq, NoSeq DEF Last

\* What Append, Front and Last make of each other.
LEMMA AppendIsSeq ==
    ASSUME NEW s, IsSeq(s), NEW x
    PROVE  /\ IsSeq(Append(s, x)) /\ Append(s, x) # <<>>
           /\ Len(Append(s, x)) = Len(s) + 1
           /\ Last(Append(s, x)) = x /\ Front(Append(s, x)) = s
<1> DEFINE S == {s[i] : i \in 1..Len(s)} \cup {x}
           n == Len(s)
           t == Append(s, x)
<1>1. n \in Nat /\ s = [i \in 1..n |-> s[i]] /\ x \in S /\ \A i \in 1..n : s[i] \in S
  BY DEF IsSeq
<1> HIDE DEF S
<1>2. s \in [1..n -> S]
  BY <1>1
<1>3. s \in Seq(S) /\ Len(s) = n
  BY <1>1, <1>2
<1>4. t \in Seq(S)
  BY <1>1, <1>3
<1>5. Len(t) = n + 1 /\ t[n + 1] = x /\ \A i \in 1..n : t[i] = s[i]
  BY <1>1, <1>3
<1> HIDE DEF n, t
<1>6. IsSeq(t) /\ t # <<>>
  BY <1>1, <1>4, <1>5, MemberOfSeq, NoSeq
<1>7. Last(t) = x
  BY <1>5 DEF Last
<1>8. Front(t) = s
  <2>1. Front(t) = SubSeq(t, 1, n)
    BY <1>1, <1>5 DEF Front
  <2>2. SubSeq(t, 1, n) = [i \in 1..n |-> t[i]]
    BY <1>1, <1>4, <1>5
  <2>3. QED
    BY <1>1, <1>5, <2>1, <2>2
<1>9. QED
  BY <1>5, <1>6, <1>7, <1>8 DEF n, t

-----------------------------------------------------------------------------
(* The XML writer and its reader. *)

\* What a writer has open, how far its reader has come and what was shown.
At(w, stack, read, shown) == w.stack = stack /\ w.read = read /\ w.shown = shown

\* An element is opened.
LEMMA XmlStart ==
    ASSUME NEW w, NEW s, IsSeq(s), s \notin {Bad, Ended}, NEW n, At(w, s, s, n), NEW name
    PROVE  At(xml_start(w, name), Append(s, name), Append(s, name), n \cup {name})
<1>1. XmlStep(s, <<"open", name>>) = Append(s, name)
  BY DEF XmlStep
<1>2. QED
  BY <1>1 DEF xml_start, At

\* The innermost element is closed; with the root the document ends.
LEMMA XmlEnd ==
    ASSUME NEW w, NEW s, IsSeq(s), NEW name, Append(s, name) \notin {Bad, Ended}, NEW n,
           At(w, Append(s, name), Append(s, name), n)
    PROVE  At(xml_end(w), s, IF s = <<>> THEN Ended ELSE s, n)
<1> DEFINE t == Append(s, name)
<1>1. t # <<>> /\ Last(t) = name /\ Front(t) = s /\ (Len(t) = 1 <=> s = <<>>)
  <2>1. Len(s) \in Nat /\ (Len(s) = 0 <=> s = <<>>)
    BY NoSeq DEF IsSeq
  <2>2. QED
    BY <2>1, AppendIsSeq
<1> HIDE DEF t
<1>2. XmlStep(t, <<"close", name>>) = IF s = <<>> THEN Ended ELSE s
  BY <1>1 DEF XmlStep, t
<1>3. QED
  BY <1>1, <1>2 DEF xml_end, At, t

\* A root that may be open.
Root(root) == Append(<<>>, root)

LEMMA RootIsOpen ==
    ASSUME NEW root, root \notin {"bad", "ended"}
    PROVE  /\ IsSeq(Root(root)) /\ Root(root) # <<>> /\ Len(Root(root)) = 1
           /\ Root(root) \notin {Bad, Ended}
<1>1. IsSeq(Root(root)) /\ Root(root) # <<>> /\ Len(Root(root)) = 1 /\ Last(Root(root)) = root
  <2>1. /\ IsSeq(Root(root)) /\ Root(root) # <<>> /\ Last(Root(root)) = root
        /\ Len(Root(root)) = Len(<<>>) + 1
    BY NoSeq, AppendIsSeq, Zenon DEF Root
  <2>2. QED
    BY <2>1, NoSeq
<1>2. Last(Bad) = "bad" /\ Last(Ended) = "ended"
  BY OneSeq DEF Bad, Ended
<1>3. QED
  BY <1>1, <1>2

\* What is inside a root is neither ended nor bad.
LEMMA InsideIsOpen ==
    ASSUME NEW s, IsSeq(s), s # <<>>, NEW name
    PROVE  /\ IsSeq(Append(s, name)) /\ Append(s, name) # <<>>
           /\ Append(s, name) \notin {Bad, Ended}
<1> DEFINE t == Append(s, name)
<1>1. IsSeq(t) /\ t # <<>> /\ Len(t) = Len(s) + 1
  BY AppendIsSeq
<1>2. Len(s) \in Nat /\ Len(s) # 0
  <2>1. Len(s) \in Nat /\ s = [i \in 1..Len(s) |-> s[i]]
    BY DEF IsSeq
  <2>2. Len(s) = 0 => s = <<>>
    BY <2>1
  <2>3. QED
    BY <2>1, <2>2
<1>3. Len(Bad) = 1 /\ Len(Ended) = 1
  BY OneSeq, Zenon DEF Bad, Ended
<1> HIDE DEF t
<1>4. Len(t) # 1
  BY <1>1, <1>2
<1>5. t # Bad /\ t # Ended
  BY <1>3, <1>4, Zenon
<1>6. QED
  BY <1>1, <1>5 DEF t

\* An element inside the root leaves writer and reader where they were.
LEMMA XmlElement ==
    ASSUME NEW w, NEW s, IsSeq(s), s # <<>>, s \notin {Bad, Ended}, NEW n, At(w, s, s, n), NEW name
    PROVE  At(xml_element(w, name), s, s, n \cup {name})
<1> DEFINE t == Append(s, name)
<1>1. At(xml_start(w, name), t, t, n \cup {name})
  BY XmlStart
<1>2. t \notin {Bad, Ended}
  BY InsideIsOpen
<1>3. At(xml_end(xml_start(w, name)), s, IF s = <<>> THEN Ended ELSE s, n \cup {name})
  BY <1>1, <1>2, XmlEnd
<1>4. QED
  BY <1>3 DEF xml_element

-----------------------------------------------------------------------------
(* The JSON generator and its reader. *)

\* The members of an object alternate.
LEMMA JsonKey ==
    ASSUME NEW w, NEW s, IsSeq(s), NEW r, IsSeq(r), NEW n,
           At(w, Append(s, "map_key"), Append(r, "name"), n), NEW name
    PROVE  At(json_writer(w, "key", name), Append(s, "map_val"), Append(r, "member"), n \cup {name})
<1>1. Last(w.stack) = "map_key" /\ Front(w.stack) = s
  BY AppendIsSeq DEF At
<1>2. w.read # <<>> /\ Last(w.read) = "name" /\ Front(w.read) = r
  BY AppendIsSeq DEF At
<1>3. JsonStep(w.read, "string") = Append(r, "member")
  BY <1>2 DEF JsonStep
<1>4. ~refuses("map_key", "key") /\ json_token("key") = "string" /\ appended_atom("map_key") = "map_val"
  BY DEF refuses, json_token, appended_atom
<1>5. QED
  BY <1>1, <1>3, <1>4 DEF json_writer, At

\* A value of a member.
LEMMA JsonEntry ==
    ASSUME NEW w, NEW s, IsSeq(s), NEW r, IsSeq(r), NEW n,
           At(w, Append(s, "map_val"), Append(r, "member"), n), NEW name
    PROVE  At(json_writer(w, "entry", name), Append(s, "map_key"), Append(r, "name"), n \cup {name})
<1>1. Last(w.stack) = "map_val" /\ Front(w.stack) = s
  BY AppendIsSeq DEF At
<1>2. w.read # <<>> /\ Last(w.read) = "member" /\ Front(w.read) = r
  BY AppendIsSeq DEF At
<1>3. JsonStep(w.read, "value") = Append(r, "name")
  BY <1>2 DEF JsonStep, AfterValue
<1>4. ~refuses("map_val", "entry") /\ json_token("entry") = "value" /\ appended_atom("map_val") = "map_key"
  BY DEF refuses, json_token, appended_atom
<1>5. QED
  BY <1>1, <1>3, <1>4 DEF json_writer, At

\* Where a value may come.
ValueMayCome(stack, read) ==
    /\ IsSeq(stack) /\ IsSeq(read)
    /\ Last(stack) \notin {"complete", "map_key"}
    /\ read = <<>> \/ Last(read) \in {"member", "item"}

\* An object, or an array, where a value may come.
LEMMA JsonStartObject ==
    ASSUME NEW w, NEW s, NEW r, ValueMayCome(s, r), NEW n, At(w, s, r, n)
    PROVE  At(start_object(w), Append(s, "map_key"), Append(r, "name"), n \cup {""})
<1>1. JsonStep(r, "{") = Append(r, "name")
  BY DEF JsonStep, ValueMayCome
<1>2. ~refuses(Last(s), "start_object") /\ json_token("start_object") = "{"
  BY DEF refuses, ValueMayCome, json_token
<1>3. QED
  BY <1>1, <1>2 DEF start_object, json_writer, At

LEMMA JsonStartArray ==
    ASSUME NEW w, NEW s, NEW r, ValueMayCome(s, r), NEW n, At(w, s, r, n)
    PROVE  At(json_writer(w, "start_array", ""), Append(s, "array"), Append(r, "item"), n \cup {""})
<1>1. JsonStep(r, "[") = Append(r, "item")
  BY DEF JsonStep, ValueMayCome
<1>2. ~refuses(Last(s), "start_array") /\ json_token("start_array") = "["
  BY DEF refuses, ValueMayCome, json_token
<1>3. QED
  BY <1>1, <1>2 DEF json_writer, At

ValueAppended(stack) == Append(Front(stack), appended_atom(Last(stack)))

\* An object that expects a name, or an array, is closed: a value has come.
LEMMA JsonEndObject ==
    ASSUME NEW w, NEW s, IsSeq(s), NEW r, IsSeq(r), NEW n,
           At(w, Append(s, "map_key"), Append(r, "name"), n)
    PROVE  At(end_object(w), ValueAppended(s), AfterValue(r), n \cup {""})
<1>1. Front(w.stack) = s /\ Last(w.stack) = "map_key"
  BY AppendIsSeq DEF At
<1>2. w.read # <<>> /\ Front(w.read) = r /\ Last(w.read) = "name"
  BY AppendIsSeq DEF At
<1>3. JsonStep(w.read, "}") = AfterValue(r)
  BY <1>2 DEF JsonStep
<1>4. ~refuses("map_key", "end_object") /\ json_token("end_object") = "}"
  BY DEF refuses, json_token
<1>5. QED
  BY <1>1, <1>3, <1>4 DEF end_object, json_writer, At, ValueAppended

LEMMA JsonEndArray ==
    ASSUME NEW w, NEW s, IsSeq(s), NEW r, IsSeq(r), NEW n,
           At(w, Append(s, "array"), Append(r, "item"), n)
    PROVE  At(json_writer(w, "end_array", ""), ValueAppended(s), AfterValue(r), n \cup {""})
<1>1. Front(w.stack) = s /\ Last(w.stack) = "array"
  BY AppendIsSeq DEF At
<1>2. w.read # <<>> /\ Front(w.read) = r /\ Last(w.read) = "item"
  BY AppendIsSeq DEF At
<1>3. JsonStep(w.read, "]") = AfterValue(r)
  BY <1>2 DEF JsonStep
<1>4. ~refuses("array", "end_array") /\ json_token("end_array") = "]"
  BY DEF refuses, json_token
<1>5. QED
  BY <1>1, <1>3, <1>4 DEF json_writer, At, ValueAppended

\* Nothing is added to a value that is complete.
LEMMA JsonRefused ==
    ASSUME NEW w, Last(w.stack) = "complete"
    PROVE  end_object(w) = w
  BY DEF end_object, json_writer, refuses

\* A property of an object.
LEMMA JsonProperty ==
    ASSUME NEW w, NEW s, IsSeq(s), NEW r, IsSeq(r), NEW n,
           At(w, Append(s, "map_key"), Append(r, "name"), n), NEW name
    PROVE  At(property(w, name), Append(s, "map_key"), Append(r, "name"), n \cup {name, ""})
<1>1. At(json_writer(w, "key", name), Append(s, "map_val"), Append(r, "member"), n \cup {name})
  BY JsonKey
<1>2. At(property(w, name), Append(s, "map_key"), Append(r, "name"), (n \cup {name}) \cup {""})
  BY <1>1, JsonEntry DEF property
<1>3. (n \cup {name}) \cup {""} = n \cup {name, ""}
  OBVIOUS
<1>4. QED
  BY <1>2, <1>3

\* An object with one property is a value.
LEMMA JsonObject ==
    ASSUME NEW w, NEW s, NEW r, ValueMayCome(s, r), NEW n, At(w, s, r, n), NEW name
    PROVE  At(json_object(w, name), ValueAppended(s), AfterValue(r), n \cup {name, ""})
<1>0. IsSeq(s) /\ IsSeq(r)
  BY DEF ValueMayCome
<1>1. At(start_object(w), Append(s, "map_key"), Append(r, "name"), n \cup {""})
  BY JsonStartObject
<1>2. At(property(start_object(w), name), Append(s, "map_key"), Append(r, "name"),
         (n \cup {""}) \cup {name, ""})
  BY <1>0, <1>1, JsonProperty
<1>3. At(json_object(w, name), ValueAppended(s), AfterValue(r), ((n \cup {""}) \cup {name, ""}) \cup {""})
  BY <1>0, <1>2, JsonEndObject DEF json_object
<1>4. ((n \cup {""}) \cup {name, ""}) \cup {""} = n \cup {name, ""}
  OBVIOUS
<1>5. QED
  BY <1>3, <1>4

\* What is made of the next call.
LEMMA NextOutside ==
    ASSUME NEW o, NEW t, NEW r, write_calls = Responder(o, t, r), o # <<>>
    PROVE  next_call = Head(o) /\ Made = Responder(Tail(o), t, r) /\ stage = "outside"
<1>1. stage = "outside"
  BY DEF stage, Responder
<1>2. QED
  BY <1>1 DEF next_call, Made, Responder

LEMMA NextTry ==
    ASSUME NEW t, NEW r, write_calls = Responder(<<>>, t, r), t # <<>>
    PROVE  next_call = Head(t) /\ Made = Responder(<<>>, Tail(t), r) /\ stage = "try"
<1>1. stage = "try"
  BY DEF stage, Responder
<1>2. QED
  BY <1>1 DEF next_call, Made, Responder

LEMMA NextRest ==
    ASSUME NEW o, NEW t, NEW r, write_calls = Responder(o, t, r), o = <<>>, t = <<>>
    PROVE  next_call = Head(r) /\ Made = Responder(o, t, Tail(r)) /\ stage = "rest"
<1>1. stage = "rest"
  BY DEF stage, Responder
<1>2. next_call = Head(r)
  BY <1>1 DEF next_call, Responder
<1>3. Made = [write_calls EXCEPT !["rest"] = Tail(@)]
  BY <1>1 DEF Made
<1>4. Made = Responder(o, t, Tail(r))
  BY <1>3 DEF Responder
<1>5. QED
  BY <1>1, <1>2, <1>4

\* Tuples without their first component.
LEMMA Tails ==
    ASSUME NEW a, NEW b, NEW c, NEW d, NEW e
    PROVE  /\ Tail(<<a>>) = <<>> /\ Tail(<<a, b>>) = <<b>> /\ Tail(<<a, b, c>>) = <<b, c>>
           /\ Tail(<<a, b, c, d>>) = <<b, c, d>> /\ Tail(<<a, b, c, d, e>>) = <<b, c, d, e>>
  OBVIOUS

LEMMA Heads ==
    ASSUME NEW a, NEW b, NEW c, NEW d, NEW e
    PROVE  /\ Head(<<a>>) = a /\ Head(<<a, b>>) = a /\ Head(<<a, b, c>>) = a
           /\ Head(<<a, b, c, d>>) = a /\ Head(<<a, b, c, d, e>>) = a
  OBVIOUS

-----------------------------------------------------------------------------
(* The phases of a document. *)

\* Before its start, in its root, in the array of the elements, before the
\* changeset that is the value of a member, after the elements, at its end.
\* An osmChange document, which is always XML, is only opened.
Opened == {"object", "elements", "value", "closing", "opened"}

XmlPhase(root, p, w) ==
    /\ p = "new" => w.stack = <<>> /\ w.read = <<>>
    /\ p \in Opened => w.stack = Root(root) /\ w.read = Root(root)
    /\ p = "ended" => w.stack = <<>> /\ w.read = Ended

JsonPhase(p, w) ==
    /\ p = "new" => w.stack = <<"start">> /\ w.read = <<>>
    /\ p = "object" => w.stack = Append(<<"start">>, "map_key") /\ w.read = Append(<<>>, "name")
    /\ p = "elements" => /\ w.stack = Append(Append(<<"start">>, "map_val"), "array")
                         /\ w.read = Append(Append(<<>>, "member"), "item")
    /\ p = "value" => w.stack = Append(<<"start">>, "map_val") /\ w.read = Append(<<>>, "member")
    /\ p \in {"closing", "ended"} => Last(w.stack) = "complete" /\ w.read = Ended

InPhase(type, root, p, w) ==
    \/ type = "application_xml" /\ XmlPhase(root, p, w)
    \/ type = "application_json" /\ JsonPhase(p, w)

\* The phases a formatter call leads from and to.
Moves(root, p, call, q) ==
    \/ call = Call("start_document", root) /\ p = "new" /\ q = "object"
    \/ call.op \in {"write_bounds", "items", "end_changeset"} /\ p = "object" /\ q = "object"
    \/ call.op = "write_diffresult" /\ call.name # "error" /\ p = "object" /\ q = "object"
    \/ call.op = "start_element" /\ p = "object" /\ q = "elements"
    \/ call.op = "start_changeset" /\ p = "object" /\ q = "value"
    \/ call.op = "write" /\ call.name # "error" /\ p = "elements" /\ q = "elements"
    \/ call.op = "write" /\ call.name # "error" /\ p = "value" /\ q = "object"
    \/ call.op = "error" /\ p = "elements" /\ q = "elements"
    \/ call.op = "error" /\ p = "value" /\ q = "object"
    \/ call.op = "end_element" /\ p = "elements" /\ q = "closing"
    \/ call.op = "end_document" /\ p \in {"object", "closing"} /\ q = "ended"
    \/ /\ root = "osmChange"
       /\ \/ call = Call("start_document", root) /\ p = "new" /\ q = "opened"
          \/ call.op = "error" /\ p = "opened" /\ q = "opened"
          \/ call.op = "end_document" /\ p = "opened" /\ q = "ended"

\* An error is shown by a call that writes one.
ErrorShown(w, call, v) == "error" \in v.shown <=> "error" \in w.shown \/ call.op = "error"

Names(root) == root \notin {"bad", "ended", "error"}

\* The XML formatter moves the document from phase to phase.
LEMMA XmlCall ==
    ASSUME NEW root, Names(root), NEW p, NEW q, NEW w, NEW call,
           XmlPhase(root, p, w), Moves(root, p, call, q)
    PROVE  XmlPhase(root, q, xml_formatter(w, call)) /\ ErrorShown(w, call, xml_formatter(w, call))
<1> DEFINE v == xml_formatter(w, call)
<1>0. root \notin {"bad", "ended"} /\ root # "error"
  BY DEF Names
<1>1. CASE call = Call("start_document", root) /\ p = "new" /\ q \in {"object", "opened"}
  <2>1. call.op = "start_document" /\ call.name = root
    BY <1>1 DEF Call
  <2>2. v = xml_start(w, root)
    BY <2>1 DEF xml_formatter
  <2>3. At(w, <<>>, <<>>, w.shown)
    BY <1>1 DEF XmlPhase, At
  <2>4. <<>> \notin {Bad, Ended}
    <3>1. Bad # <<>> /\ Ended # <<>>
      BY OneSeq, Zenon DEF Bad, Ended
    <3>2. QED
      BY <3>1
  <2>5. At(v, Root(root), Root(root), w.shown \cup {root})
    <3>1. At(xml_start(w, root), Append(<<>>, root), Append(<<>>, root), w.shown \cup {root})
      BY <2>3, <2>4, NoSeq, XmlStart
    <3>2. QED
      BY <3>1, <2>2, Zenon DEF Root
  <2> HIDE DEF v
  <2>6. XmlPhase(root, q, v)
    BY <2>5, <1>1 DEF At, XmlPhase, Opened
  <2>7. ErrorShown(w, call, v)
    BY <2>1, <2>5, <1>0 DEF At, ErrorShown
  <2>8. QED
    BY <2>6, <2>7 DEF v
<1>2. CASE p \in Opened /\ q \in Opened /\ \E name :
             /\ v = xml_element(w, name)
             /\ name = "error" <=> call.op = "error"
  <2>1. PICK name : v = xml_element(w, name) /\ (name = "error" <=> call.op = "error")
    BY <1>2
  <2>2. At(w, Root(root), Root(root), w.shown)
    BY <1>2 DEF XmlPhase, At
  <2>3. At(v, Root(root), Root(root), w.shown \cup {name})
    <3>1. At(xml_element(w, name), Root(root), Root(root), w.shown \cup {name})
      BY <2>2, <1>0, RootIsOpen, XmlElement
    <3>2. QED
      BY <3>1, <2>1, Zenon
  <2> HIDE DEF v
  <2>4. XmlPhase(root, q, v)
    BY <2>3, <1>2 DEF At, XmlPhase, Opened
  <2>5. ErrorShown(w, call, v)
    BY <2>1, <2>3 DEF At, ErrorShown
  <2>6. QED
    BY <2>4, <2>5 DEF v
<1>3. CASE p \in Opened /\ q \in Opened /\ v = w /\ call.op # "error"
  BY <1>3 DEF XmlPhase, ErrorShown, Opened
<1>4. CASE call.op = "end_document" /\ p \in {"object", "closing", "opened"} /\ q = "ended"
  <2>1. v = xml_end(w)
    BY <1>4 DEF xml_formatter
  <2>2. At(w, Append(<<>>, root), Append(<<>>, root), w.shown)
    BY <1>4 DEF XmlPhase, At, Opened, Root
  <2>3. Append(<<>>, root) \notin {Bad, Ended}
    BY <1>0, RootIsOpen DEF Root
  <2>4. At(xml_end(w), <<>>, IF <<>> = <<>> THEN Ended ELSE <<>>, w.shown)
    BY <2>2, <2>3, NoSeq, XmlEnd, Zenon
  <2>5. At(v, <<>>, Ended, w.shown)
    BY <2>1, <2>4
  <2> HIDE DEF v
  <2>6. XmlPhase(root, q, v)
    BY <2>5, <1>4 DEF At, XmlPhase, Opened
  <2>7. ErrorShown(w, call, v)
    BY <2>5, <1>4 DEF At, ErrorShown
  <2>8. QED
    BY <2>6, <2>7 DEF v
<1>5. CASE call.op = "write_bounds" /\ p = "object" /\ q = "object"
  <2>1. v = xml_element(w, "bounds")
    BY <1>5 DEF xml_formatter
  <2> HIDE DEF v
  <2>2. QED
    BY <2>1, <1>5, <1>2 DEF Opened
<1>6. CASE call.op = "error" /\ p \in Opened /\ q \in Opened
  <2>1. v = xml_element(w, "error")
    BY <1>6 DEF xml_formatter
  <2> HIDE DEF v
  <2>2. QED
    BY <2>1, <1>6, <1>2
<1>7. CASE call.op \in {"write", "write_diffresult"} /\ call.name # "error" /\ p \in Opened /\ q \in Opened
  <2>1. v = xml_element(w, call.name)
    BY <1>7 DEF xml_formatter
  <2>2. call.op # "error"
    BY <1>7
  <2> HIDE DEF v
  <2>3. QED
    BY <2>1, <2>2, <1>7, <1>2
<1>8. CASE /\ call.op \in {"items", "end_changeset", "start_element", "start_changeset", "end_element"}
           /\ p \in Opened /\ q \in Opened
  <2>1. v = w
    BY <1>8 DEF xml_formatter
  <2> HIDE DEF v
  <2>2. QED
    BY <2>1, <1>8, <1>3
<1> HIDE DEF v
<1>9. QED
  BY <1>1, <1>4, <1>5, <1>6, <1>7, <1>8 DEF Moves, Opened

\* The stacks of the JSON phases, and where a value may come among them.
LEMMA JsonStacks ==
    /\ IsSeq(<<"start">>) /\ IsSeq(<<>>)
    /\ ValueMayCome(<<"start">>, <<>>)
    /\ Last(ValueAppended(<<"start">>)) = "complete" /\ AfterValue(<<>>) = Ended
    /\ ValueMayCome(Append(<<"start">>, "map_val"), Append(<<>>, "member"))
    /\ ValueAppended(Append(<<"start">>, "map_val")) = Append(<<"start">>, "map_key")
    /\ AfterValue(Append(<<>>, "member")) = Append(<<>>, "name")
    /\ ValueMayCome(Append(Append(<<"start">>, "map_val"), "array"), Append(Append(<<>>, "member"), "item"))
    /\ ValueAppended(Append(Append(<<"start">>, "map_val"), "array")) =
         Append(Append(<<"start">>, "map_val"), "array")
    /\ AfterValue(Append(Append(<<>>, "member"), "item")) = Append(Append(<<>>, "member"), "item")
<1>1. /\ IsSeq(<<"start">>) /\ IsSeq(<<>>) /\ Last(<<"start">>) = "start"
      /\ <<"start">> = Append(<<>>, "start")
  BY OneSeq, NoSeq
<1> DEFINE s1 == Append(<<"start">>, "map_val")
           r1 == Append(<<>>, "member")
           s2 == Append(s1, "array")
           r2 == Append(r1, "item")
<1>2. IsSeq(s1) /\ Last(s1) = "map_val" /\ Front(s1) = <<"start">>
  BY <1>1, AppendIsSeq
<1>3. IsSeq(r1) /\ Last(r1) = "member" /\ Front(r1) = <<>> /\ r1 # <<>>
  BY <1>1, AppendIsSeq
<1>4. IsSeq(s2) /\ Last(s2) = "array" /\ Front(s2) = s1
  BY <1>2, AppendIsSeq
<1>5. IsSeq(r2) /\ Last(r2) = "item" /\ Front(r2) = r1 /\ r2 # <<>>
  BY <1>3, AppendIsSeq
<1>6. /\ appended_atom("start") = "complete" /\ appended_atom("map_val") = "map_key"
      /\ appended_atom("array") = "array"
  BY DEF appended_atom
<1>7. Front(<<"start">>) = <<>>
  BY <1>1, AppendIsSeq, Zenon
<1>8. Last(ValueAppended(<<"start">>)) = "complete"
  <2>1. ValueAppended(<<"start">>) = Append(<<>>, "complete")
    BY <1>1, <1>6, <1>7 DEF ValueAppended
  <2>2. QED
    BY <2>1, NoSeq, AppendIsSeq
<1>9. ValueMayCome(<<"start">>, <<>>) /\ AfterValue(<<>>) = Ended
  BY <1>1 DEF ValueMayCome, AfterValue
<1> HIDE DEF s2, r2
<1>10. ValueMayCome(s2, r2) /\ ValueAppended(s2) = s2 /\ AfterValue(r2) = r2
  <2>1. ValueMayCome(s2, r2)
    BY <1>4, <1>5 DEF ValueMayCome
  <2>2. ValueAppended(s2) = s2
    BY <1>4, <1>6 DEF ValueAppended, s2
  <2>3. AfterValue(r2) = r2
    BY <1>5 DEF AfterValue
  <2>4. QED
    BY <2>1, <2>2, <2>3
<1> HIDE DEF s1, r1
<1>11. ValueMayCome(s1, r1)
  BY <1>2, <1>3 DEF ValueMayCome
<1>12. ValueAppended(s1) = Append(<<"start">>, "map_key")
  BY <1>2, <1>6 DEF ValueAppended
<1>13. AfterValue(r1) = Append(<<>>, "name")
  BY <1>3 DEF AfterValue
<1>14. QED
  BY <1>1, <1>8, <1>9, <1>10, <1>11, <1>12, <1>13, Zenon DEF s1, r1, s2, r2

\* Other names than that of an error.
LEMMA NoErrorShown ==
    ASSUME NEW w, NEW v, NEW call, call.op # "error", NEW s, NEW r, NEW A, NEW B,
           "error" \notin A, "error" \notin B, At(v, s, r, (w.shown \cup A) \cup B)
    PROVE  ErrorShown(w, call, v)
<1>1. v.shown = (w.shown \cup A) \cup B
  BY DEF At
<1>2. QED
  BY <1>1 DEF ErrorShown

\* So does the JSON formatter.
LEMMA JsonCall ==
    ASSUME NEW root, root # "osmChange", NEW p, NEW q, NEW w, NEW call,
           JsonPhase(p, w), Moves(root, p, call, q)
    PROVE  JsonPhase(q, json_formatter(w, call)) /\ ErrorShown(w, call, json_formatter(w, call))
<1> DEFINE v == json_formatter(w, call)
           s0 == <<"start">>
           n == w.shown
<1>0. IsSeq(s0) /\ IsSeq(<<>>)
  BY JsonStacks
<1>1. CASE call = Call("start_document", root) /\ p = "new" /\ q = "object"
  <2>1. call.op = "start_document"
    BY <1>1 DEF Call
  <2>2. v = property(start_object(w), "version")
    BY <2>1 DEF json_formatter
  <2>3. At(w, s0, <<>>, n)
    BY <1>1 DEF JsonPhase, At
  <2>4. At(start_object(w), Append(s0, "map_key"), Append(<<>>, "name"), n \cup {""})
    BY <2>3, JsonStacks, JsonStartObject
  <2>5. At(v, Append(s0, "map_key"), Append(<<>>, "name"), (n \cup {""}) \cup {"version", ""})
    <3>1. At(property(start_object(w), "version"), Append(s0, "map_key"), Append(<<>>, "name"),
             (n \cup {""}) \cup {"version", ""})
      BY <2>4, <1>0, JsonProperty
    <3>2. QED
      BY <3>1, <2>2, Zenon
  <2> HIDE DEF v
  <2>6. JsonPhase(q, v)
    BY <2>5, <1>1 DEF At, JsonPhase
  <2>7. ErrorShown(w, call, v)
    <3>1. "error" \notin {""} /\ "error" \notin {"version", ""} /\ call.op # "error"
      BY <2>1
    <3>2. QED
      BY <2>5, <3>1, NoErrorShown
  <2>8. QED
    BY <2>6, <2>7 DEF v
<1>2. CASE call.op = "write_bounds" /\ p = "object" /\ q = "object"
  <2>1. v = json_object(json_writer(w, "key", "bounds"), "minlat")
    BY <1>2 DEF json_formatter
  <2>2. At(w, Append(s0, "map_key"), Append(<<>>, "name"), n)
    BY <1>2 DEF JsonPhase, At
  <2>3. At(json_writer(w, "key", "bounds"),
           Append(s0, "map_val"), Append(<<>>, "member"), n \cup {"bounds"})
    BY <2>2, <1>0, JsonKey, Zenon
  <2>4. At(v, ValueAppended(Append(s0, "map_val")), AfterValue(Append(<<>>, "member")),
           (n \cup {"bounds"}) \cup {"minlat", ""})
    <3>1. At(json_object(json_writer(w, "key", "bounds"), "minlat"),
             ValueAppended(Append(s0, "map_val")), AfterValue(Append(<<>>, "member")),
             (n \cup {"bounds"}) \cup {"minlat", ""})
      BY <2>3, JsonStacks, JsonObject
    <3>2. QED
      BY <3>1, <2>1, Zenon
  <2>5. At(v, Append(s0, "map_key"), Append(<<>>, "name"), (n \cup {"bounds"}) \cup {"minlat", ""})
    BY <2>4, JsonStacks, Zenon
  <2> HIDE DEF v
  <2>6. JsonPhase(q, v)
    BY <2>5, <1>2 DEF At, JsonPhase
  <2>7. ErrorShown(w, call, v)
    <3>1. "error" \notin {"bounds"} /\ "error" \notin {"minlat", ""} /\ call.op # "error"
      BY <1>2
    <3>2. QED
      BY <2>5, <3>1, NoErrorShown
  <2>8. QED
    BY <2>6, <2>7 DEF v
<1>3. CASE call.op \in {"items", "end_changeset", "write_diffresult"} /\ p = "object" /\ q = "object"
  <2>1. v = w
    BY <1>3 DEF json_formatter
  <2> HIDE DEF v
  <2>2. QED
    BY <2>1, <1>3 DEF JsonPhase, ErrorShown, v
<1>4. CASE call.op = "start_element" /\ p = "object" /\ q = "elements"
  <2>1. v = json_writer(json_writer(w, "key", "elements"), "start_array", "")
    BY <1>4 DEF json_formatter
  <2>2. At(w, Append(s0, "map_key"), Append(<<>>, "name"), n)
    BY <1>4 DEF JsonPhase, At
  <2>3. At(json_writer(w, "key", "elements"),
           Append(s0, "map_val"), Append(<<>>, "member"), n \cup {"elements"})
    BY <2>2, <1>0, JsonKey, Zenon
  <2>4. At(v, Append(Append(s0, "map_val"), "array"), Append(Append(<<>>, "member"), "item"),
           (n \cup {"elements"}) \cup {""})
    <3>1. At(json_writer(json_writer(w, "key", "elements"), "start_array", ""),
             Append(Append(s0, "map_val"), "array"), Append(Append(<<>>, "member"), "item"),
             (n \cup {"elements"}) \cup {""})
      BY <2>3, JsonStacks, JsonStartArray
    <3>2. QED
      BY <3>1, <2>1, Zenon
  <2> HIDE DEF v
  <2>5. JsonPhase(q, v)
    BY <2>4, <1>4 DEF At, JsonPhase
  <2>6. ErrorShown(w, call, v)
    <3>1. "error" \notin {"elements"} /\ "error" \notin {""} /\ call.op # "error"
      BY <1>4
    <3>2. QED
      BY <2>4, <3>1, NoErrorShown
  <2>7. QED
    BY <2>5, <2>6 DEF v
<1>5. CASE call.op = "start_changeset" /\ p = "object" /\ q = "value"
  <2>1. v = json_writer(w, "key", "changeset")
    BY <1>5 DEF json_formatter
  <2>2. At(w, Append(s0, "map_key"), Append(<<>>, "name"), n)
    BY <1>5 DEF JsonPhase, At
  <2>3. At(v, Append(s0, "map_val"), Append(<<>>, "member"), n \cup {"changeset"})
    <3>1. At(json_writer(w, "key", "changeset"),
             Append(s0, "map_val"), Append(<<>>, "member"), n \cup {"changeset"})
      BY <2>2, <1>0, JsonKey
    <3>2. QED
      BY <3>1, <2>1, Zenon
  <2> HIDE DEF v
  <2>4. JsonPhase(q, v)
    BY <2>3, <1>5 DEF At, JsonPhase
  <2>5. ErrorShown(w, call, v)
    <3>1. "error" \notin {"changeset"} /\ call.op # "error"
      BY <1>5
    <3>2. At(v, Append(s0, "map_val"), Append(<<>>, "member"), (n \cup {}) \cup {"changeset"})
      BY <2>3
    <3>3. QED
      BY <3>1, <3>2, NoErrorShown
  <2>6. QED
    BY <2>4, <2>5 DEF v
<1>6. CASE /\ (call.op = "write" /\ call.name # "error") \/ call.op = "error"
           /\ (p = "elements" /\ q = "elements") \/ (p = "value" /\ q = "object")
  <2>1. PICK name : v = json_object(w, name) /\ (name = "error" <=> call.op = "error")
    BY <1>6 DEF json_formatter, json_error
  <2> HIDE DEF v
  <2>2. CASE p = "elements" /\ q = "elements"
    <3> DEFINE s2 == Append(Append(s0, "map_val"), "array")
               r2 == Append(Append(<<>>, "member"), "item")
    <3>1. At(w, s2, r2, n)
      BY <2>2 DEF JsonPhase, At
    <3>2. At(v, ValueAppended(s2), AfterValue(r2), n \cup {name, ""})
      BY <2>1, <3>1, JsonStacks, JsonObject, Zenon
    <3>3. At(v, s2, r2, n \cup {name, ""})
      BY <3>2, JsonStacks, Zenon
    <3>4. JsonPhase(q, v)
      BY <3>3, <2>2 DEF At, JsonPhase
    <3>5. ErrorShown(w, call, v)
      BY <3>3, <2>1 DEF At, ErrorShown
    <3>6. QED
      BY <3>4, <3>5 DEF v
  <2>3. CASE p = "value" /\ q = "object"
    <3>1. At(w, Append(s0, "map_val"), Append(<<>>, "member"), n)
      BY <2>3 DEF JsonPhase, At
    <3>2. At(v, ValueAppended(Append(s0, "map_val")), AfterValue(Append(<<>>, "member")), n \cup {name, ""})
      BY <2>1, <3>1, JsonStacks, JsonObject, Zenon
    <3>3. At(v, Append(s0, "map_key"), Append(<<>>, "name"), n \cup {name, ""})
      BY <3>2, JsonStacks, Zenon
    <3>4. JsonPhase(q, v)
      BY <3>3, <2>3 DEF At, JsonPhase
    <3>5. ErrorShown(w, call, v)
      BY <3>3, <2>1 DEF At, ErrorShown
    <3>6. QED
      BY <3>4, <3>5 DEF v
  <2>4. QED
    BY <1>6, <2>2, <2>3
<1>7. CASE call.op = "end_element" /\ p = "elements" /\ q = "closing"
  <2> DEFINE s1 == Append(s0, "map_val")
             r1 == Append(<<>>, "member")
  <2>1. v = end_object(json_writer(w, "end_array", ""))
    BY <1>7 DEF json_formatter
  <2>2. At(w, Append(s1, "array"), Append(r1, "item"), n)
    BY <1>7 DEF JsonPhase, At
  <2>3. IsSeq(s1) /\ IsSeq(r1)
    BY <1>0, AppendIsSeq
  <2>4. At(json_writer(w, "end_array", ""), ValueAppended(s1), AfterValue(r1), n \cup {""})
    BY <2>2, <2>3, JsonEndArray, Zenon
  <2>5. At(json_writer(w, "end_array", ""), Append(s0, "map_key"), Append(<<>>, "name"), n \cup {""})
    BY <2>4, JsonStacks, Zenon
  <2>6. At(v, ValueAppended(s0), AfterValue(<<>>), (n \cup {""}) \cup {""})
    <3>1. At(end_object(json_writer(w, "end_array", "")), ValueAppended(s0), AfterValue(<<>>),
             (n \cup {""}) \cup {""})
      BY <2>5, <1>0, JsonEndObject
    <3>2. QED
      BY <3>1, <2>1, Zenon
  <2> HIDE DEF v
  <2>7. JsonPhase(q, v)
    BY <2>6, <1>7, JsonStacks DEF At, JsonPhase
  <2>8. ErrorShown(w, call, v)
    <3>1. "error" \notin {""} /\ call.op # "error"
      BY <1>7
    <3>2. QED
      BY <2>6, <3>1, NoErrorShown
  <2>9. QED
    BY <2>7, <2>8 DEF v
<1>8. CASE call.op = "end_document" /\ p = "object" /\ q = "ended"
  <2>1. v = end_object(w)
    BY <1>8 DEF json_formatter
  <2>2. At(w, Append(s0, "map_key"), Append(<<>>, "name"), n)
    BY <1>8 DEF JsonPhase, At
  <2>3. At(v, ValueAppended(s0), AfterValue(<<>>), n \cup {""})
    BY <2>1, <2>2, <1>0, JsonEndObject, Zenon
  <2> HIDE DEF v
  <2>4. JsonPhase(q, v)
    BY <2>3, <1>8, JsonStacks DEF At, JsonPhase
  <2>5. ErrorShown(w, call, v)
    BY <2>3, <1>8 DEF At, ErrorShown
  <2>6. QED
    BY <2>4, <2>5 DEF v
<1>9. CASE call.op = "end_document" /\ p = "closing" /\ q = "ended"
  <2>1. v = end_object(w) /\ Last(w.stack) = "complete"
    BY <1>9 DEF json_formatter, JsonPhase
  <2>2. v = w
    BY <2>1, JsonRefused
  <2> HIDE DEF v
  <2>3. QED
    BY <2>2, <1>9 DEF JsonPhase, ErrorShown, v
<1> HIDE DEF v
<1>10. QED
  BY <1>1, <1>2, <1>3, <1>4, <1>5, <1>6, <1>7, <1>8, <1>9 DEF Moves

-----------------------------------------------------------------------------
(* The calls that are left at each phase of a responder's document. *)

FetchNodes == Call("fetch", "node")
FetchWays == Call("fetch", "way")
FetchRelations == Call("fetch", "relation")
FetchChangeset == Call("fetch", "changeset")

Fetches == {<<FetchNodes, FetchWays, FetchRelations>>, <<FetchWays, FetchRelations>>,
            <<FetchRelations>>, <<>>}
FetchesToSort == {<<FetchNodes, FetchWays, FetchRelations, Plain("sorted")>>,
                  <<FetchWays, FetchRelations, Plain("sorted")>>,
                  <<FetchRelations, Plain("sorted")>>, <<Plain("sorted")>>, <<>>}

LastCall == <<Plain("end_document")>>
AfterElements == <<Plain("end_element"), Plain("end_document")>>
AfterChangeset == <<Plain("end_changeset"), Plain("end_document")>>
ErrorCall == <<Plain("error")>>

Special == {"changeset", "changeset_download", "changeset_upload"}

ElementsPoint(p, c) ==
    \/ p = "new" /\ c = osm_current_responder(TRUE)
    \/ p = "new" /\ c = osm_current_responder(FALSE)
    \/ p = "object" /\ c = Responder(<<>>, <<Plain("write_bounds"), Plain("start_element"), FetchNodes,
                                             FetchWays, FetchRelations>>, AfterElements)
    \/ p = "object" /\ c = Responder(<<>>, <<Plain("start_element"), FetchNodes, FetchWays,
                                             FetchRelations>>, AfterElements)
    \/ p = "elements" /\ \E t \in Fetches : c = Responder(<<>>, t, AfterElements)
    \/ p = "elements" /\ c = Responder(ErrorCall, <<>>, AfterElements)
    \/ p = "closing" /\ c = Responder(<<>>, <<>>, LastCall)
    \/ p = "ended" /\ c = NoCalls

ChangesetPoint(p, c) ==
    \/ p = "new" /\ c = osm_changeset_responder
    \/ p = "object" /\ c = Responder(<<>>, <<Plain("start_changeset"), FetchChangeset>>, AfterChangeset)
    \/ p = "value" /\ c = Responder(<<>>, <<FetchChangeset>>, AfterChangeset)
    \/ p = "value" /\ c = Responder(ErrorCall, <<>>, AfterChangeset)
    \/ p = "object" /\ c = Responder(<<>>, <<>>, AfterChangeset)
    \/ p = "object" /\ c = Responder(<<>>, <<>>, LastCall)
    \/ p = "ended" /\ c = NoCalls

DownloadPoint(p, c) ==
    \/ p = "new" /\ c = osmchange_responder
    \/ p = "opened" /\ \E t \in FetchesToSort : c = Responder(<<>>, t, LastCall)
    \/ p = "opened" /\ c = Responder(ErrorCall, <<>>, LastCall)
    \/ p = "ended" /\ c = NoCalls

UploadPoint(p, c) ==
    \/ p = "new" /\ c = osm_diffresult_responder
    \/ p = "object" /\ c = Responder(<<>>, <<Plain("items")>>, LastCall)
    \/ p = "object" /\ c = Responder(<<>>, <<>>, LastCall)
    \/ p = "ended" /\ c = NoCalls

Point(h, p, c) ==
    \/ h = "changeset" /\ ChangesetPoint(p, c)
    \/ h = "changeset_download" /\ DownloadPoint(p, c)
    \/ h = "changeset_upload" /\ UploadPoint(p, c)
    \/ h \notin Special /\ ElementsPoint(p, c)

RootOf(h) ==
    IF h = "changeset_download" THEN "osmChange" ELSE IF h = "changeset_upload" THEN "diffResult" ELSE "osm"

Phases == {"new", "ended"} \cup Opened

\* What was written and what is left to be written fit together, and a query
\* that failed is shown, or fmt.error is the next call.
Page(h, type, calls, w, failed, found_editions) ==
    /\ \E p \in Phases : Point(h, p, calls) /\ InPhase(type, RootOf(h), p, w)
    /\ failed <=> "error" \in w.shown \/ calls.outside = ErrorCall
    /\ \A e \in found_editions : e.type # "error"

Body == Page(handler, head.type, write_calls, writer, query_failed, fetched)

\* Nothing is written before the negotiation; a client that is there sees pages
\* and, at the end, a document.
BodyInv ==
    /\ pc \in Unanswered => ~query_failed /\ fetched = {}
    /\ pc = "write" /\ client = "there" /\ head.type # "text_plain" => Body
    /\ WellFormed

\* A formatter call in either type.
LEMMA CallStep ==
    ASSUME NEW type, NEW root, Names(root), NEW p, NEW q, NEW w, NEW call,
           type = "application_json" => root # "osmChange",
           InPhase(type, root, p, w), Moves(root, p, call, q)
    PROVE  InPhase(type, root, q, written(type, w, call)) /\ ErrorShown(w, call, written(type, w, call))
<1>1. CASE type = "application_xml" /\ XmlPhase(root, p, w)
  <2>1. written(type, w, call) = xml_formatter(w, call)
    BY <1>1 DEF written
  <2>2. XmlPhase(root, q, xml_formatter(w, call)) /\ ErrorShown(w, call, xml_formatter(w, call))
    BY <1>1, XmlCall
  <2>3. QED
    BY <2>1, <2>2, <1>1, Zenon DEF InPhase
<1>2. CASE type = "application_json" /\ JsonPhase(p, w)
  <2>1. written(type, w, call) = json_formatter(w, call)
    BY <1>2 DEF written
  <2>2. JsonPhase(q, json_formatter(w, call)) /\ ErrorShown(w, call, json_formatter(w, call))
    BY <1>2, JsonCall
  <2>3. QED
    BY <2>1, <2>2, <1>2, Zenon DEF InPhase
<1>3. QED
  BY <1>1, <1>2 DEF InPhase

\* What the next call may be: a query in the try block, the sorted editions,
\* or a call that moves the document to where the calls after it are due.
Goes(h, p, call, made, caught) ==
    \/ /\ call.op = "fetch" /\ call.name # "error"
       /\ h = "changeset" => p = "value" /\ call.name = "changeset" /\ Point(h, "object", made)
       /\ h = "changeset_download" => p = "opened" /\ Point(h, p, made)
       /\ h # "changeset_upload"
       /\ h \notin Special => p = "elements" /\ Point(h, p, made)
       /\ Point(h, p, caught)
    \/ call.op = "sorted" /\ h = "changeset_download" /\ p = "opened" /\ Point(h, p, made)
    \/ /\ call.op \notin {"fetch", "sorted"}
       /\ \E q \in Phases : Moves(RootOf(h), p, call, q) /\ Point(h, q, made)
       /\ call.op = "items" => h = "changeset_upload" /\ p = "object"

\* One query less.
LEMMA FetchesStep ==
    ASSUME NEW t \in Fetches, t # <<>>
    PROVE  Head(t) \in {FetchNodes, FetchWays, FetchRelations} /\ Tail(t) \in Fetches
<1>1. CASE t = <<FetchNodes, FetchWays, FetchRelations>>
  <2>1. Head(t) = FetchNodes /\ Tail(t) = <<FetchWays, FetchRelations>>
    BY <1>1, Heads, Tails
  <2>2. QED
    BY <2>1, Zenon DEF Fetches
<1>2. CASE t = <<FetchWays, FetchRelations>>
  <2>1. Head(t) = FetchWays /\ Tail(t) = <<FetchRelations>>
    BY <1>2, Heads, Tails
  <2>2. QED
    BY <2>1, Zenon DEF Fetches
<1>3. CASE t = <<FetchRelations>>
  <2>1. Head(t) = FetchRelations /\ Tail(t) = <<>>
    BY <1>3, Heads, Tails
  <2>2. QED
    BY <2>1, Zenon DEF Fetches
<1>4. QED
  BY <1>1, <1>2, <1>3, Zenon DEF Fetches

LEMMA FetchesToSortStep ==
    ASSUME NEW t \in FetchesToSort, t # <<>>
    PROVE  Head(t) \in {FetchNodes, FetchWays, FetchRelations, Plain("sorted")} /\ Tail(t) \in FetchesToSort
<1>1. CASE t = <<FetchNodes, FetchWays, FetchRelations, Plain("sorted")>>
  <2>1. Head(t) = FetchNodes /\ Tail(t) = <<FetchWays, FetchRelations, Plain("sorted")>>
    BY <1>1, Heads, Tails
  <2>2. QED
    BY <2>1, Zenon DEF FetchesToSort
<1>2. CASE t = <<FetchWays, FetchRelations, Plain("sorted")>>
  <2>1. Head(t) = FetchWays /\ Tail(t) = <<FetchRelations, Plain("sorted")>>
    BY <1>2, Heads, Tails
  <2>2. QED
    BY <2>1, Zenon DEF FetchesToSort
<1>3. CASE t = <<FetchRelations, Plain("sorted")>>
  <2>1. Head(t) = FetchRelations /\ Tail(t) = <<Plain("sorted")>>
    BY <1>3, Heads, Tails
  <2>2. QED
    BY <2>1, Zenon DEF FetchesToSort
<1>4. CASE t = <<Plain("sorted")>>
  <2>1. Head(t) = Plain("sorted") /\ Tail(t) = <<>>
    BY <1>4, Heads, Tails
  <2>2. QED
    BY <2>1, Zenon DEF FetchesToSort
<1>5. QED
  BY <1>1, <1>2, <1>3, <1>4, Zenon DEF FetchesToSort

\* The names of the calls.
LEMMA CallNames ==
    /\ \A c \in {FetchNodes, FetchWays, FetchRelations, FetchChangeset} : c.op = "fetch" /\ c.name # "error"
    /\ FetchChangeset.name = "changeset"
    /\ \A op : Plain(op).op = op
  BY DEF FetchNodes, FetchWays, FetchRelations, FetchChangeset, Plain, Call

\* A call that writes, as the next one.
LEMMA Writes ==
    ASSUME NEW h, NEW p, NEW q \in Phases, NEW call, call.op \notin {"fetch", "sorted", "items"},
           Moves(RootOf(h), p, call, q), NEW made, Point(h, q, made), NEW caught
    PROVE  Goes(h, p, call, made, caught)
  BY DEF Goes

\* What the catch block leaves.
LEMMA CaughtCalls ==
    ASSUME NEW o, NEW t, NEW r, write_calls = Responder(o, t, r)
    PROVE  Caught = Responder(ErrorCall, <<>>, r)
  BY DEF Caught, Responder, ErrorCall

\* The same for the calls of the responders.
LEMMA TryCalls6 ==
    ASSUME NEW a, NEW b, NEW c, NEW d, NEW e, NEW f, NEW r,
           write_calls = Responder(<<>>, <<a, b, c, d, e, f>>, r)
    PROVE  next_call = a /\ Made = Responder(<<>>, <<b, c, d, e, f>>, r)
<1>1. /\ <<a, b, c, d, e, f>> # <<>>
      /\ Head(<<a, b, c, d, e, f>>) = a /\ Tail(<<a, b, c, d, e, f>>) = <<b, c, d, e, f>>
  OBVIOUS
<1>2. QED
  BY <1>1, NextTry

LEMMA TryCalls5 ==
    ASSUME NEW a, NEW b, NEW c, NEW d, NEW e, NEW r, write_calls = Responder(<<>>, <<a, b, c, d, e>>, r)
    PROVE  next_call = a /\ Made = Responder(<<>>, <<b, c, d, e>>, r)
<1>1. <<a, b, c, d, e>> # <<>> /\ Head(<<a, b, c, d, e>>) = a /\ Tail(<<a, b, c, d, e>>) = <<b, c, d, e>>
  OBVIOUS
<1>2. QED
  BY <1>1, NextTry

LEMMA TryCalls4 ==
    ASSUME NEW a, NEW b, NEW c, NEW d, NEW r, write_calls = Responder(<<>>, <<a, b, c, d>>, r)
    PROVE  next_call = a /\ Made = Responder(<<>>, <<b, c, d>>, r)
<1>1. <<a, b, c, d>> # <<>> /\ Head(<<a, b, c, d>>) = a /\ Tail(<<a, b, c, d>>) = <<b, c, d>>
  OBVIOUS
<1>2. QED
  BY <1>1, NextTry

LEMMA TryCalls3 ==
    ASSUME NEW a, NEW b, NEW c, NEW r, write_calls = Responder(<<>>, <<a, b, c>>, r)
    PROVE  next_call = a /\ Made = Responder(<<>>, <<b, c>>, r)
<1>1. <<a, b, c>> # <<>> /\ Head(<<a, b, c>>) = a /\ Tail(<<a, b, c>>) = <<b, c>>
  OBVIOUS
<1>2. QED
  BY <1>1, NextTry

LEMMA TryCalls2 ==
    ASSUME NEW a, NEW b, NEW r, write_calls = Responder(<<>>, <<a, b>>, r)
    PROVE  next_call = a /\ Made = Responder(<<>>, <<b>>, r)
<1>1. <<a, b>> # <<>> /\ Head(<<a, b>>) = a /\ Tail(<<a, b>>) = <<b>>
  OBVIOUS
<1>2. QED
  BY <1>1, NextTry

LEMMA TryCalls1 ==
    ASSUME NEW a, NEW r, write_calls = Responder(<<>>, <<a>>, r)
    PROVE  next_call = a /\ Made = Responder(<<>>, <<>>, r)
<1>1. <<a>> # <<>> /\ Head(<<a>>) = a /\ Tail(<<a>>) = <<>>
  OBVIOUS
<1>2. QED
  BY <1>1, NextTry

LEMMA RestCalls2 ==
    ASSUME NEW a, NEW b, write_calls = Responder(<<>>, <<>>, <<a, b>>)
    PROVE  next_call = a /\ Made = Responder(<<>>, <<>>, <<b>>)
<1>1. Head(<<a, b>>) = a /\ Tail(<<a, b>>) = <<b>>
  OBVIOUS
<1>2. QED
  BY <1>1, NextRest

LEMMA RestCalls1 ==
    ASSUME NEW a, write_calls = Responder(<<>>, <<>>, <<a>>)
    PROVE  next_call = a /\ Made = Responder(<<>>, <<>>, <<>>)
<1>1. Head(<<a>>) = a /\ Tail(<<a>>) = <<>>
  OBVIOUS
<1>2. QED
  BY <1>1, NextRest

LEMMA OutsideCall ==
    ASSUME NEW a, NEW t, NEW r, write_calls = Responder(<<a>>, t, r)
    PROVE  next_call = a /\ Made = Responder(<<>>, t, r)
<1>1. <<a>> # <<>> /\ Head(<<a>>) = a /\ Tail(<<a>>) = <<>>
  OBVIOUS
<1>2. QED
  BY <1>1, NextOutside

\* The next call of the responders, at each of their points.
LEMMA ElementsNext ==
    ASSUME NEW h, h \notin Special, NEW p, ElementsPoint(p, write_calls), CallsLeft
    PROVE  Goes(h, p, next_call, Made, Caught)
<1>0. RootOf(h) = "osm" /\ \A q, c : ElementsPoint(q, c) => Point(h, q, c)
  BY DEF RootOf, Point, Special
<1>1. CASE p = "new" /\ write_calls = osm_current_responder(TRUE)
  <2>1. /\ next_call = Call("start_document", "osm")
        /\ Made = Responder(<<>>, <<Plain("write_bounds"), Plain("start_element"), FetchNodes, FetchWays,
                                    FetchRelations>>, AfterElements)
    BY <1>1, TryCalls6, Zenon DEF osm_current_responder, FetchNodes, FetchWays, FetchRelations, AfterElements
  <2>2. next_call.op = "start_document" /\ ElementsPoint("object", Made)
    <3>1. next_call.op = "start_document"
      BY <2>1 DEF Call
    <3>2. ElementsPoint("object", Made)
      BY <2>1, Zenon DEF ElementsPoint
    <3>3. QED
      BY <3>1, <3>2
  <2>3. Moves(RootOf(h), p, next_call, "object") /\ "object" \in Phases
    BY <2>1, <1>1, <1>0 DEF Moves, Phases, Opened
  <2>4. QED
    BY <2>2, <2>3, <1>0, Writes
<1>2. CASE p = "new" /\ write_calls = osm_current_responder(FALSE)
  <2>1. /\ next_call = Call("start_document", "osm")
        /\ Made = Responder(<<>>, <<Plain("start_element"), FetchNodes, FetchWays,
                                    FetchRelations>>, AfterElements)
    BY <1>2, TryCalls5, Zenon DEF osm_current_responder, FetchNodes, FetchWays, FetchRelations, AfterElements
  <2>2. next_call.op = "start_document" /\ ElementsPoint("object", Made)
    <3>1. next_call.op = "start_document"
      BY <2>1 DEF Call
    <3>2. ElementsPoint("object", Made)
      BY <2>1, Zenon DEF ElementsPoint
    <3>3. QED
      BY <3>1, <3>2
  <2>3. Moves(RootOf(h), p, next_call, "object") /\ "object" \in Phases
    BY <2>1, <1>2, <1>0 DEF Moves, Phases, Opened
  <2>4. QED
    BY <2>2, <2>3, <1>0, Writes
<1>3. CASE p = "object" /\ write_calls = Responder(<<>>, <<Plain("write_bounds"), Plain("start_element"),
             FetchNodes, FetchWays, FetchRelations>>, AfterElements)
  <2>1. /\ next_call = Plain("write_bounds")
        /\ Made = Responder(<<>>, <<Plain("start_element"), FetchNodes, FetchWays,
                                    FetchRelations>>, AfterElements)
    BY <1>3, TryCalls5, Zenon
  <2>2. next_call.op = "write_bounds" /\ ElementsPoint("object", Made)
    <3>1. next_call.op = "write_bounds"
      BY <2>1, CallNames
    <3>2. ElementsPoint("object", Made)
      BY <2>1, Zenon DEF ElementsPoint
    <3>3. QED
      BY <3>1, <3>2
  <2>3. Moves(RootOf(h), p, next_call, "object") /\ "object" \in Phases
    BY <2>2, <1>3 DEF Moves, Phases, Opened
  <2>4. QED
    BY <2>2, <2>3, <1>0, Writes
<1>4. CASE p = "object" /\ write_calls = Responder(<<>>, <<Plain("start_element"),
             FetchNodes, FetchWays, FetchRelations>>, AfterElements)
  <2>1. /\ next_call = Plain("start_element")
        /\ Made = Responder(<<>>, <<FetchNodes, FetchWays, FetchRelations>>, AfterElements)
    BY <1>4, TryCalls4, Zenon
  <2>2. next_call.op = "start_element" /\ ElementsPoint("elements", Made)
    <3>1. next_call.op = "start_element"
      BY <2>1, CallNames
    <3>2. ElementsPoint("elements", Made)
      BY <2>1, Zenon DEF ElementsPoint, Fetches
    <3>3. QED
      BY <3>1, <3>2
  <2>3. Moves(RootOf(h), p, next_call, "elements") /\ "elements" \in Phases
    BY <2>2, <1>4 DEF Moves, Phases, Opened
  <2>4. QED
    BY <2>2, <2>3, <1>0, Writes
<1>5. ASSUME p = "elements", NEW t \in Fetches, write_calls = Responder(<<>>, t, AfterElements)
      PROVE  Goes(h, p, next_call, Made, Caught)
  <2>1. CASE t # <<>>
    <3>1. next_call = Head(t) /\ Made = Responder(<<>>, Tail(t), AfterElements)
      BY <2>1, <1>5, NextTry
    <3>2. next_call \in {FetchNodes, FetchWays, FetchRelations} /\ ElementsPoint("elements", Made)
      BY <3>1, <2>1, FetchesStep DEF ElementsPoint
    <3>3. ElementsPoint("elements", Caught)
      BY <1>5, CaughtCalls DEF ElementsPoint
    <3>4. next_call.op = "fetch" /\ next_call.name # "error"
      BY <3>2, CallNames
    <3>5. QED
      BY <3>2, <3>3, <3>4, <1>5, <1>0 DEF Goes, Special
  <2>2. CASE t = <<>>
    <3>1. next_call = Plain("end_element") /\ Made = Responder(<<>>, <<>>, LastCall)
      BY <2>2, <1>5, RestCalls2, Zenon DEF AfterElements, LastCall
    <3>2. next_call.op = "end_element" /\ ElementsPoint("closing", Made)
      <4>1. next_call.op = "end_element"
        BY <3>1, CallNames
      <4>2. ElementsPoint("closing", Made)
        BY <3>1, Zenon DEF ElementsPoint
      <4>3. QED
        BY <4>1, <4>2
    <3>3. Moves(RootOf(h), p, next_call, "closing") /\ "closing" \in Phases
      BY <3>2, <1>5 DEF Moves, Phases, Opened
    <3>4. QED
      BY <3>2, <3>3, <1>0, Writes
  <2>3. QED
    BY <2>1, <2>2
<1>6. CASE p = "elements" /\ write_calls = Responder(ErrorCall, <<>>, AfterElements)
  <2>1. next_call = Plain("error") /\ Made = Responder(<<>>, <<>>, AfterElements)
    BY <1>6, OutsideCall, Zenon DEF ErrorCall
  <2>2. next_call.op = "error" /\ ElementsPoint("elements", Made)
    <3>1. next_call.op = "error"
      BY <2>1, CallNames
    <3>2. ElementsPoint("elements", Made)
      BY <2>1, Zenon DEF ElementsPoint, Fetches
    <3>3. QED
      BY <3>1, <3>2
  <2>3. Moves(RootOf(h), p, next_call, "elements") /\ "elements" \in Phases
    BY <2>2, <1>6 DEF Moves, Phases, Opened
  <2>4. QED
    BY <2>2, <2>3, <1>0, Writes
<1>7. CASE p = "closing" /\ write_calls = Responder(<<>>, <<>>, LastCall)
  <2>1. next_call = Plain("end_document") /\ Made = NoCalls
    BY <1>7, RestCalls1, Zenon DEF LastCall, NoCalls
  <2>2. next_call.op = "end_document" /\ ElementsPoint("ended", Made)
    <3>1. next_call.op = "end_document"
      BY <2>1, CallNames
    <3>2. ElementsPoint("ended", Made)
      BY <2>1, Zenon DEF ElementsPoint
    <3>3. QED
      BY <3>1, <3>2
  <2>3. Moves(RootOf(h), p, next_call, "ended") /\ "ended" \in Phases
    BY <2>2, <1>7 DEF Moves, Phases, Opened
  <2>4. QED
    BY <2>2, <2>3, <1>0, Writes
<1>8. QED
  BY <1>1, <1>2, <1>3, <1>4, <1>5, <1>6, <1>7 DEF ElementsPoint, CallsLeft

LEMMA ChangesetNext ==
    ASSUME NEW h, h = "changeset", NEW p, ChangesetPoint(p, write_calls), CallsLeft
    PROVE  Goes(h, p, next_call, Made, Caught)
<1>0. RootOf(h) = "osm" /\ \A q, c : ChangesetPoint(q, c) => Point(h, q, c)
  BY DEF RootOf, Point
<1>1. CASE p = "new" /\ write_calls = osm_changeset_responder
  <2>1. /\ next_call = Call("start_document", "osm")
        /\ Made = Responder(<<>>, <<Plain("start_changeset"), FetchChangeset>>, AfterChangeset)
    BY <1>1, TryCalls3, Zenon DEF osm_changeset_responder, FetchChangeset, AfterChangeset
  <2>2. next_call.op = "start_document"
    BY <2>1, CallNames DEF Call
  <2>3. ChangesetPoint("object", Made)
    BY <2>1, Zenon DEF ChangesetPoint
  <2>4. Moves(RootOf(h), p, next_call, "object") /\ "object" \in Phases
    BY <2>1, <2>2, <1>1, <1>0 DEF Moves, Phases, Opened
  <2>5. QED
    BY <2>2, <2>3, <2>4, <1>0, Writes
<1>2. CASE /\ p = "object"
           /\ write_calls = Responder(<<>>, <<Plain("start_changeset"), FetchChangeset>>, AfterChangeset)
  <2>1. /\ next_call = Plain("start_changeset")
        /\ Made = Responder(<<>>, <<FetchChangeset>>, AfterChangeset)
    BY <1>2, TryCalls2, Zenon
  <2>2. next_call.op = "start_changeset"
    BY <2>1, CallNames
  <2>3. ChangesetPoint("value", Made)
    BY <2>1, Zenon DEF ChangesetPoint
  <2>4. Moves(RootOf(h), p, next_call, "value") /\ "value" \in Phases
    BY <2>1, <2>2, <1>2, <1>0 DEF Moves, Phases, Opened
  <2>5. QED
    BY <2>2, <2>3, <2>4, <1>0, Writes
<1>3. CASE p = "value" /\ write_calls = Responder(<<>>, <<FetchChangeset>>, AfterChangeset)
  <2>1. next_call = FetchChangeset /\ Made = Responder(<<>>, <<>>, AfterChangeset)
    BY <1>3, TryCalls1, Zenon
  <2>2. Caught = Responder(ErrorCall, <<>>, AfterChangeset)
    BY <1>3, CaughtCalls, Zenon
  <2>3. ChangesetPoint("object", Made)
    BY <2>1, Zenon DEF ChangesetPoint
  <2>4. ChangesetPoint("value", Caught)
    BY <2>2, Zenon DEF ChangesetPoint
  <2>5. next_call.op = "fetch" /\ next_call.name # "error" /\ next_call.name = "changeset"
    BY <2>1, CallNames
  <2>6. QED
    BY <2>3, <2>4, <2>5, <1>3, <1>0 DEF Goes, Special
<1>4. CASE p = "value" /\ write_calls = Responder(ErrorCall, <<>>, AfterChangeset)
  <2>1. next_call = Plain("error") /\ Made = Responder(<<>>, <<>>, AfterChangeset)
    BY <1>4, OutsideCall, Zenon DEF ErrorCall
  <2>2. next_call.op = "error"
    BY <2>1, CallNames
  <2>3. ChangesetPoint("object", Made)
    BY <2>1, Zenon DEF ChangesetPoint
  <2>4. Moves(RootOf(h), p, next_call, "object") /\ "object" \in Phases
    BY <2>1, <2>2, <1>4, <1>0 DEF Moves, Phases, Opened
  <2>5. QED
    BY <2>2, <2>3, <2>4, <1>0, Writes
<1>5. CASE p = "object" /\ write_calls = Responder(<<>>, <<>>, AfterChangeset)
  <2>1. next_call = Plain("end_changeset") /\ Made = Responder(<<>>, <<>>, LastCall)
    BY <1>5, RestCalls2, Zenon DEF AfterChangeset, LastCall
  <2>2. next_call.op = "end_changeset"
    BY <2>1, CallNames
  <2>3. ChangesetPoint("object", Made)
    BY <2>1, Zenon DEF ChangesetPoint
  <2>4. Moves(RootOf(h), p, next_call, "object") /\ "object" \in Phases
    BY <2>1, <2>2, <1>5, <1>0 DEF Moves, Phases, Opened
  <2>5. QED
    BY <2>2, <2>3, <2>4, <1>0, Writes
<1>6. CASE p = "object" /\ write_calls = Responder(<<>>, <<>>, LastCall)
  <2>1. next_call = Plain("end_document") /\ Made = NoCalls
    BY <1>6, RestCalls1, Zenon DEF LastCall, NoCalls
  <2>2. next_call.op = "end_document"
    BY <2>1, CallNames
  <2>3. ChangesetPoint("ended", Made)
    BY <2>1, Zenon DEF ChangesetPoint
  <2>4. Moves(RootOf(h), p, next_call, "ended") /\ "ended" \in Phases
    BY <2>1, <2>2, <1>6, <1>0 DEF Moves, Phases, Opened
  <2>5. QED
    BY <2>2, <2>3, <2>4, <1>0, Writes
<1>7. QED
  BY <1>1, <1>2, <1>3, <1>4, <1>5, <1>6 DEF ChangesetPoint, CallsLeft

LEMMA DownloadNext ==
    ASSUME NEW h, h = "changeset_download", NEW p, DownloadPoint(p, write_calls), CallsLeft
    PROVE  Goes(h, p, next_call, Made, Caught)
<1>0. RootOf(h) = "osmChange" /\ \A q, c : DownloadPoint(q, c) => Point(h, q, c)
  BY DEF RootOf, Point
<1>1. CASE p = "new" /\ write_calls = osmchange_responder
  <2>1. /\ next_call = Call("start_document", "osmChange")
        /\ Made = Responder(<<>>, <<FetchNodes, FetchWays, FetchRelations, Plain("sorted")>>, LastCall)
    BY <1>1, OutsideCall, Zenon DEF osmchange_responder, FetchNodes, FetchWays, FetchRelations, LastCall
  <2>2. next_call.op = "start_document"
    BY <2>1, CallNames DEF Call
  <2>3. DownloadPoint("opened", Made)
    BY <2>1, Zenon DEF DownloadPoint, FetchesToSort
  <2>4. Moves(RootOf(h), p, next_call, "opened") /\ "opened" \in Phases
    BY <2>1, <2>2, <1>1, <1>0 DEF Moves, Phases, Opened
  <2>5. QED
    BY <2>2, <2>3, <2>4, <1>0, Writes
<1>2. ASSUME p = "opened", NEW t \in FetchesToSort, write_calls = Responder(<<>>, t, LastCall)
      PROVE  Goes(h, p, next_call, Made, Caught)
  <2>1. CASE t # <<>>
    <3>1. next_call = Head(t) /\ Made = Responder(<<>>, Tail(t), LastCall)
      BY <2>1, <1>2, NextTry
    <3>2. Head(t) \in {FetchNodes, FetchWays, FetchRelations, Plain("sorted")} /\ Tail(t) \in FetchesToSort
      BY <2>1, FetchesToSortStep
    <3>3. Point(h, "opened", Made)
      <4>1. DownloadPoint("opened", Made)
        BY <3>1, <3>2, Zenon DEF DownloadPoint
      <4>2. QED
        BY <4>1, <1>0
    <3>4. Point(h, "opened", Caught)
      <4>1. Caught = Responder(ErrorCall, <<>>, LastCall)
        BY <1>2, CaughtCalls, Zenon
      <4>2. DownloadPoint("opened", Caught)
        BY <4>1, Zenon DEF DownloadPoint
      <4>3. QED
        BY <4>2, <1>0
    <3>5. CASE next_call = Plain("sorted")
      <4>1. next_call.op = "sorted"
        BY <3>5, CallNames
      <4>2. QED
        BY <4>1, <3>3, <1>2 DEF Goes
    <3>6. CASE next_call \in {FetchNodes, FetchWays, FetchRelations}
      <4>1. next_call.op = "fetch" /\ next_call.name # "error"
        BY <3>6, CallNames
      <4>2. QED
        BY <4>1, <3>3, <3>4, <1>2 DEF Goes, Special
    <3>7. QED
      BY <3>1, <3>2, <3>5, <3>6
  <2>2. CASE t = <<>>
    <3>1. next_call = Plain("end_document") /\ Made = NoCalls
      BY <2>2, <1>2, RestCalls1, Zenon DEF LastCall, NoCalls
    <3>2. next_call.op = "end_document"
      BY <3>1, CallNames
    <3>3. DownloadPoint("ended", Made)
      BY <3>1, Zenon DEF DownloadPoint
    <3>4. Moves(RootOf(h), p, next_call, "ended") /\ "ended" \in Phases
      BY <3>2, <1>2, <1>0 DEF Moves, Phases
    <3>5. QED
      BY <3>2, <3>3, <3>4, <1>0, Writes
  <2>3. QED
    BY <2>1, <2>2
<1>3. CASE p = "opened" /\ write_calls = Responder(ErrorCall, <<>>, LastCall)
  <2>1. next_call = Plain("error") /\ Made = Responder(<<>>, <<>>, LastCall)
    BY <1>3, OutsideCall, Zenon DEF ErrorCall
  <2>2. next_call.op = "error"
    BY <2>1, CallNames
  <2>3. DownloadPoint("opened", Made)
    BY <2>1, Zenon DEF DownloadPoint, FetchesToSort
  <2>4. Moves(RootOf(h), p, next_call, "opened") /\ "opened" \in Phases
    BY <2>1, <2>2, <1>3, <1>0 DEF Moves, Phases, Opened
  <2>5. QED
    BY <2>2, <2>3, <2>4, <1>0, Writes
<1>4. QED
  BY <1>1, <1>2, <1>3 DEF DownloadPoint, CallsLeft

LEMMA UploadNext ==
    ASSUME NEW h, h = "changeset_upload", NEW p, UploadPoint(p, write_calls), CallsLeft
    PROVE  Goes(h, p, next_call, Made, Caught)
<1>0. RootOf(h) = "diffResult" /\ \A q, c : UploadPoint(q, c) => Point(h, q, c)
  BY DEF RootOf, Point
<1>1. CASE p = "new" /\ write_calls = osm_diffresult_responder
  <2>1. /\ next_call = Call("start_document", "diffResult")
        /\ Made = Responder(<<>>, <<Plain("items")>>, LastCall)
    BY <1>1, TryCalls2, Zenon DEF osm_diffresult_responder, LastCall
  <2>2. next_call.op = "start_document"
    BY <2>1, CallNames DEF Call
  <2>3. UploadPoint("object", Made)
    BY <2>1, Zenon DEF UploadPoint
  <2>4. Moves(RootOf(h), p, next_call, "object") /\ "object" \in Phases
    BY <2>1, <2>2, <1>1, <1>0 DEF Moves, Phases, Opened
  <2>5. QED
    BY <2>2, <2>3, <2>4, <1>0, Writes
<1>2. CASE p = "object" /\ write_calls = Responder(<<>>, <<Plain("items")>>, LastCall)
  <2>1. next_call = Plain("items") /\ Made = Responder(<<>>, <<>>, LastCall)
    BY <1>2, TryCalls1, Zenon
  <2>2. next_call.op = "items"
    BY <2>1, CallNames
  <2>3. UploadPoint("object", Made)
    BY <2>1, Zenon DEF UploadPoint
  <2>4. Moves(RootOf(h), p, next_call, "object") /\ "object" \in Phases
    BY <2>2, <1>2 DEF Moves, Phases, Opened
  <2>5. Point(h, "object", Made)
    BY <2>3, <1>0
  <2>6. QED
    BY <2>2, <2>4, <2>5, <1>2 DEF Goes
<1>3. CASE p = "object" /\ write_calls = Responder(<<>>, <<>>, LastCall)
  <2>1. next_call = Plain("end_document") /\ Made = NoCalls
    BY <1>3, RestCalls1, Zenon DEF LastCall, NoCalls
  <2>2. next_call.op = "end_document"
    BY <2>1, CallNames
  <2>3. UploadPoint("ended", Made)
    BY <2>1, Zenon DEF UploadPoint
  <2>4. Moves(RootOf(h), p, next_call, "ended") /\ "ended" \in Phases
    BY <2>1, <2>2, <1>3, <1>0 DEF Moves, Phases, Opened
  <2>5. QED
    BY <2>2, <2>3, <2>4, <1>0, Writes
<1>4. QED
  BY <1>1, <1>2, <1>3 DEF UploadPoint, CallsLeft

\* Whatever responder it is, the next call is one that may come at its phase.
LEMMA PointNext ==
    ASSUME NEW h, NEW p, Point(h, p, write_calls), CallsLeft
    PROVE  Goes(h, p, next_call, Made, Caught)
  BY ElementsNext, ChangesetNext, DownloadNext, UploadNext DEF Point

\* The calls outside of the try block.
StartsChange == <<Call("start_document", "osmChange")>>

\* Only fmt.error is the error call.
LEMMA NotErrorCall == <<>> # ErrorCall /\ StartsChange # ErrorCall
<1>1. <<>> # ErrorCall
  BY OneSeq, Zenon DEF ErrorCall
<1>2. Plain("error") # Call("start_document", "osmChange")
  BY DEF Plain, Call
<1>3. Last(StartsChange) = Call("start_document", "osmChange") /\ Last(ErrorCall) = Plain("error")
  BY OneSeq, Zenon DEF StartsChange, ErrorCall
<1>4. QED
  BY <1>1, <1>2, <1>3, Zenon

LEMMA OutsideCalls ==
    ASSUME NEW h, NEW p, NEW calls, Point(h, p, calls)
    PROVE  \E o, t, r : calls = Responder(o, t, r) /\ o \in {<<>>, ErrorCall, StartsChange}
<1>1. CASE ElementsPoint(p, calls)
  <2>1. \E t, r : \/ calls = Responder(<<>>, t, r)
                  \/ calls = Responder(ErrorCall, <<>>, r)
    BY <1>1, Zenon DEF ElementsPoint, osm_current_responder, NoCalls
  <2>2. QED
    BY <2>1, Zenon
<1>2. CASE ChangesetPoint(p, calls)
  <2>1. \E t, r : \/ calls = Responder(<<>>, t, r)
                  \/ calls = Responder(ErrorCall, <<>>, r)
    BY <1>2, Zenon DEF ChangesetPoint, osm_changeset_responder, NoCalls
  <2>2. QED
    BY <2>1, Zenon
<1>3. CASE DownloadPoint(p, calls)
  <2>1. \E t, r : \/ calls = Responder(<<>>, t, r)
                  \/ calls = Responder(ErrorCall, <<>>, r)
                  \/ calls = Responder(StartsChange, t, r)
    BY <1>3, Zenon DEF DownloadPoint, osmchange_responder, NoCalls, StartsChange
  <2>2. QED
    BY <2>1, Zenon
<1>4. CASE UploadPoint(p, calls)
  <2>1. \E t, r : calls = Responder(<<>>, t, r)
    BY <1>4, Zenon DEF UploadPoint, osm_diffresult_responder, NoCalls
  <2>2. QED
    BY <2>1, Zenon
<1>5. QED
  BY <1>1, <1>2, <1>3, <1>4 DEF Point

\* The call of fmt.error is made once, and only by the catch block.
LEMMA ErrorIsOutside ==
    ASSUME NEW h, NEW p, Point(h, p, write_calls), CallsLeft, next_call.op = "error"
    PROVE  write_calls.outside = ErrorCall
<1>0. \A t, r : write_calls = Responder(ErrorCall, t, r) => write_calls.outside = ErrorCall
  BY DEF Responder
<1>1. Goes(h, p, next_call, Made, Caught)
  BY PointNext
<1>2. PICK q : Moves(RootOf(h), p, next_call, q)
  BY <1>1 DEF Goes
<1>3. p \in {"elements", "value", "opened"}
  <2>1. ~(next_call = Call("start_document", RootOf(h)))
    BY DEF Call
  <2>2. QED
    BY <1>2, <2>1 DEF Moves
<1>4. CASE h \notin Special /\ ElementsPoint(p, write_calls)
  <2> SUFFICES ASSUME NEW t \in Fetches, write_calls = Responder(<<>>, t, AfterElements)
               PROVE  FALSE
    BY <1>4, <1>3, <1>0 DEF ElementsPoint
  <2>1. CASE t # <<>>
    <3>1. next_call \in {FetchNodes, FetchWays, FetchRelations}
      BY <2>1, NextTry, FetchesStep
    <3>2. QED
      BY <3>1, CallNames
  <2>2. CASE t = <<>>
    <3>1. next_call = Plain("end_element")
      BY <2>2, RestCalls2, Zenon DEF AfterElements
    <3>2. QED
      BY <3>1, CallNames
  <2>3. QED
    BY <2>1, <2>2
<1>5. CASE h = "changeset" /\ ChangesetPoint(p, write_calls)
  <2> SUFFICES ASSUME write_calls = Responder(<<>>, <<FetchChangeset>>, AfterChangeset)
               PROVE  FALSE
    BY <1>5, <1>3, <1>0 DEF ChangesetPoint
  <2>1. next_call = FetchChangeset
    BY TryCalls1, Zenon
  <2>2. QED
    BY <2>1, CallNames
<1>6. CASE h = "changeset_download" /\ DownloadPoint(p, write_calls)
  <2> SUFFICES ASSUME NEW t \in FetchesToSort, write_calls = Responder(<<>>, t, LastCall)
               PROVE  FALSE
    BY <1>6, <1>3, <1>0 DEF DownloadPoint
  <2>1. CASE t # <<>>
    <3>1. next_call \in {FetchNodes, FetchWays, FetchRelations, Plain("sorted")}
      BY <2>1, NextTry, FetchesToSortStep
    <3>2. QED
      BY <3>1, CallNames
  <2>2. CASE t = <<>>
    <3>1. next_call = Plain("end_document")
      BY <2>2, RestCalls1, Zenon DEF LastCall
    <3>2. QED
      BY <3>1, CallNames
  <2>3. QED
    BY <2>1, <2>2
<1>7. CASE h = "changeset_upload" /\ UploadPoint(p, write_calls)
  BY <1>7, <1>3 DEF UploadPoint
<1>8. QED
  BY <1>4, <1>5, <1>6, <1>7 DEF Point

\* fmt.error is the next call exactly after a catch, and is called once.
LEMMA ErrorCalled ==
    ASSUME NEW h, NEW p, Point(h, p, write_calls), CallsLeft
    PROVE  /\ write_calls.outside = ErrorCall <=> next_call.op = "error"
           /\ Made.outside # ErrorCall /\ Caught.outside = ErrorCall
<1>1. PICK o, t, r : write_calls = Responder(o, t, r) /\ o \in {<<>>, ErrorCall, StartsChange}
  BY OutsideCalls
<1>2. write_calls.outside = o
  BY <1>1 DEF Responder
<1>3. CASE o = ErrorCall
  <2>1. next_call = Plain("error") /\ Made = Responder(<<>>, t, r)
    BY <1>1, <1>3, OutsideCall, Zenon DEF ErrorCall
  <2>2. next_call.op = "error" /\ Made.outside = <<>>
    BY <2>1, CallNames DEF Responder
  <2>3. QED
    BY <2>2, <1>2, <1>3, NotErrorCall DEF Caught, ErrorCall
<1>4. CASE o = StartsChange
  <2>1. Made = Responder(<<>>, t, r)
    BY <1>1, <1>4, OutsideCall, Zenon DEF StartsChange
  <2>2. Made.outside = <<>>
    BY <2>1 DEF Responder
  <2>3. QED
    BY <2>2, <1>2, <1>4, NotErrorCall, ErrorIsOutside DEF Caught, ErrorCall
<1>5. CASE o = <<>>
  <2>1. stage \in {"try", "rest"}
    BY <1>2, <1>5 DEF stage
  <2>2. Made.outside = <<>>
    BY <2>1, <1>1, <1>5 DEF Made, Responder
  <2>3. QED
    BY <2>2, <1>2, <1>5, NotErrorCall, ErrorIsOutside DEF Caught, ErrorCall
<1>6. QED
  BY <1>1, <1>3, <1>4, <1>5

\* When no call is left the document is ended.
LEMMA NothingLeftToCall ==
    ASSUME NEW h, NEW p, Point(h, p, write_calls), ~CallsLeft
    PROVE  p = "ended" /\ write_calls.outside # ErrorCall
<1>1. write_calls = Responder(<<>>, <<>>, <<>>)
  BY DEF CallsLeft, NoCalls
<1>2. \A o, t, r : write_calls = Responder(o, t, r) => o = <<>> /\ t = <<>> /\ r = <<>>
  BY <1>1 DEF Responder
<1>3. AfterElements # <<>> /\ AfterChangeset # <<>> /\ LastCall # <<>>
  BY DEF AfterElements, AfterChangeset, LastCall
<1>4. write_calls.outside # ErrorCall
  BY <1>1, NotErrorCall DEF Responder
<1>5. ASSUME ElementsPoint(p, write_calls) PROVE p = "ended"
  <2>1. write_calls # osm_current_responder(TRUE) /\ write_calls # osm_current_responder(FALSE)
    BY <1>2, <1>3, Zenon DEF osm_current_responder, AfterElements
  <2>2. QED
    BY <1>2, <1>3, <1>5, <2>1, Zenon DEF ElementsPoint
<1>6. ASSUME ChangesetPoint(p, write_calls) PROVE p = "ended"
  <2>1. write_calls # osm_changeset_responder
    BY <1>2, <1>3, Zenon DEF osm_changeset_responder, AfterChangeset
  <2>2. QED
    BY <1>2, <1>3, <1>6, <2>1, Zenon DEF ChangesetPoint
<1>7. ASSUME DownloadPoint(p, write_calls) PROVE p = "ended"
  <2>1. write_calls # osmchange_responder
    BY <1>2, <1>3, Zenon DEF osmchange_responder, LastCall
  <2>2. QED
    BY <1>2, <1>3, <1>7, <2>1, Zenon DEF DownloadPoint
<1>8. ASSUME UploadPoint(p, write_calls) PROVE p = "ended"
  <2>1. write_calls # osm_diffresult_responder
    BY <1>2, <1>3, Zenon DEF osm_diffresult_responder, LastCall
  <2>2. QED
    BY <1>2, <1>3, <1>8, <2>1, Zenon DEF UploadPoint
<1>9. QED
  BY <1>4, <1>5, <1>6, <1>7, <1>8 DEF Point

\* An edition is written as an element in an action.
LEMMA XmlEdition ==
    ASSUME NEW root, Names(root), NEW w, XmlPhase(root, "opened", w), NEW e, e.type # "error"
    PROVE  /\ XmlPhase(root, "opened", written_edition("application_xml", w, e))
           /\ "error" \in written_edition("application_xml", w, e).shown <=> "error" \in w.shown
<1> DEFINE a == action_of(e)
           s == Root(root)
           t == Append(s, a)
           w1 == xml_start(w, a)
           w2 == xml_element(w1, e.type)
           v == written_edition("application_xml", w, e)
<1>1. a \in {"create", "modify", "delete"}
  BY DEF action_of
<1>2. IsSeq(s) /\ s # <<>> /\ s \notin {Bad, Ended}
  BY RootIsOpen DEF Names
<1>3. v = xml_end(w2)
  <2>1. \A x : \A call : written("application_xml", x, call) = xml_formatter(x, call)
    BY DEF written
  <2>2. xml_formatter(w, Call("start_action", a)) = w1
    BY DEF xml_formatter, Call
  <2>3. xml_formatter(w1, Call("write", e.type)) = w2
    BY DEF xml_formatter, Call
  <2>4. xml_formatter(w2, Call("end_action", a)) = xml_end(w2)
    BY DEF xml_formatter, Call
  <2>5. v = written("application_xml", written("application_xml",
              written("application_xml", w, Call("start_action", a)), Call("write", e.type)), Call("end_action", a))
    BY Zenon DEF written_edition
  <2> HIDE DEF w1, w2, a, v
  <2>6. QED
    BY <2>1, <2>2, <2>3, <2>4, <2>5
<1>4. At(w, s, s, w.shown)
  BY DEF XmlPhase, At, Opened
<1> HIDE DEF a, s
<1>5. At(w1, t, t, w.shown \cup {a})
  BY <1>2, <1>4, XmlStart
<1>6. IsSeq(t) /\ t # <<>> /\ t \notin {Bad, Ended}
  BY <1>2, InsideIsOpen
<1> HIDE DEF w1
<1>7. At(w2, t, t, (w.shown \cup {a}) \cup {e.type})
  BY <1>5, <1>6, XmlElement
<1> HIDE DEF w2
<1>8. At(xml_end(w2), s, IF s = <<>> THEN Ended ELSE s, (w.shown \cup {a}) \cup {e.type})
  BY <1>2, <1>6, <1>7, XmlEnd
<1>9. At(v, s, s, (w.shown \cup {a}) \cup {e.type})
  BY <1>2, <1>3, <1>8
<1> HIDE DEF v
<1>10. XmlPhase(root, "opened", v)
  BY <1>9 DEF At, XmlPhase, Opened, s
<1>11. "error" \in v.shown <=> "error" \in w.shown
  BY <1>9, <1>1 DEF At
<1>12. QED
  BY <1>10, <1>11 DEF v

\* The destructor has nothing to close after the document has ended.
LEMMA ClosedAlready ==
    ASSUME NEW root, NEW type, NEW w, InPhase(type, root, "ended", w)
    PROVE  closed(type, w) = w /\ w.read = Ended
<1>1. CASE type = "application_xml" /\ XmlPhase(root, "ended", w)
  <2>1. w.stack = <<>> /\ w.read = Ended
    BY <1>1 DEF XmlPhase
  <2>2. closed(type, w) =
          (CHOOSE f : f = [s \in SUBSET DOMAIN w.stack |->
             IF s = {} THEN w ELSE xml_end(f[s \ {Max(s)}])])[DOMAIN w.stack]
    BY <1>1 DEF closed, FoldLeft, MapThenFoldSet
  <2>3. DOMAIN w.stack = {}
    BY <2>1
  <2> DEFINE g == [s \in SUBSET {} |-> w]
             f == CHOOSE x : x = [s \in SUBSET {} |-> IF s = {} THEN w ELSE xml_end(x[s \ {Max(s)}])]
  <2>4. g = [s \in SUBSET {} |-> IF s = {} THEN w ELSE xml_end(g[s \ {Max(s)}])]
    BY SMT
  <2>5. f = [s \in SUBSET {} |-> IF s = {} THEN w ELSE xml_end(f[s \ {Max(s)}])]
    BY <2>4, Zenon
  <2>6. closed(type, w) = f[{}]
    BY <2>2, <2>3
  <2> HIDE DEF f, g
  <2>7. f[{}] = w
    BY <2>5
  <2>8. QED
    BY <2>1, <2>6, <2>7
<1>2. CASE type = "application_json" /\ JsonPhase("ended", w)
  BY <1>2 DEF closed, JsonPhase
<1>3. QED
  BY <1>1, <1>2 DEF InPhase

-----------------------------------------------------------------------------
(* The body of an answer. *)

\* A step before the body: it writes nothing, and ends in an error if it ends
\* the answer.
Early ==
    /\ UNCHANGED <<query_failed, fetched>>
    /\ pc' # "write"
    /\ pc' \in Unanswered \/ head'.code # 200 \/ request'.method = "OPTIONS"

\* An error before the body is such a step, and so is handing over.
LEMMA ThrowIsEarly ==
    ASSUME WorkerInv, pc \in Unanswered \ {"accept"}, NEW code \in Nat, code # 200,
           Throw(code) \/ (code = 500 /\ ThrowOther)
    PROVE  Early
<1>1. m_workflow_status = status_NONE
  BY DEF WorkerInv, ProgressInv
<1>2. PICK next \in {"done", "dead"} : Respond(code, next)
  BY DEF Throw, ThrowOther
<1>3. ErrorAnswer(code) /\ pc' = next /\ UNCHANGED body
  BY <1>1, <1>2 DEF Respond, may_enter, status_NONE, status_HEADERS
<1>4. head'.code = code
  BY <1>3, ErrorSent
<1>5. QED
  BY <1>3, <1>4 DEF Early, body

LEMMA ContinueIsEarly ==
    ASSUME NEW next \in Unanswered, Continue(next)
    PROVE  Early
<1>1. next # "write"
  BY DEF Unanswered, Untouched
<1>2. QED
  BY <1>1 DEF Continue, Early, body

LEMMA StepsAreEarly ==
    ASSUME WorkerInv,
           \/ Accept \/ Route \/ Authenticate \/ CheckLimit \/ Options
           \/ Select \/ CheckPermission \/ GetPayload \/ Update \/ ReadBack
           \/ \E at \in {"authenticate", "select", "permission", "payload", "update", "read_back"} :
                DatabaseFails(at)
    PROVE  pc \in Unanswered /\ Early
<1>0. /\ \A code \in Nat : code # 200 /\ Throw(code) /\ pc \in Unanswered \ {"accept"} => Early
      /\ ThrowOther /\ pc \in Unanswered \ {"accept"} => Early
      /\ \A next \in Unanswered : Continue(next) => Early
  BY ThrowIsEarly, ContinueIsEarly
<1> USE DEF Unanswered, Untouched
<1>1. CASE Accept
  BY <1>1 DEF Accept, Early, body
<1>2. CASE Route
  <2>1. pc = "route"
    BY <1>2 DEF Route
  <2>2. \/ Throw(400) \/ Throw(404) \/ Throw(405) \/ Throw(500)
        \/ Continue("authenticate")
    BY <1>2, Zenon DEF Route
  <2>3. QED
    BY <2>1, <2>2, <1>0
<1>3. CASE Authenticate
  BY <1>3, <1>0 DEF Authenticate
<1>4. CASE CheckLimit
  <2> DEFINE next == CASE request.method \in {"GET", "HEAD"} -> "select"
                       [] request.method \in {"POST", "PUT"} -> "permission"
                       [] request.method = "OPTIONS" -> "options"
  <2>1. pc = "limit" /\ (Throw(509) \/ Continue(next))
    BY <1>4 DEF CheckLimit
  <2>2. request.method \in Methods \ {"other"}
    BY <2>1, RequestFields DEF WorkerInv, MethodInv
  <2>3. next \in {"select", "permission", "options"}
    BY <2>2 DEF Methods
  <2> HIDE DEF next
  <2>4. QED
    BY <2>1, <2>3, <1>0
<1>5. CASE Options
  <2>1. pc = "options" /\ request.method = "OPTIONS"
    BY <1>5 DEF Options, WorkerInv, MethodInv
  <2>2. Throw(405) \/ (pc' = "done" /\ UNCHANGED request /\ UNCHANGED body)
    BY <1>5 DEF Options
  <2>3. CASE pc' = "done" /\ UNCHANGED request /\ UNCHANGED body
    BY <2>1, <2>3 DEF Early, body
  <2>4. QED
    BY <2>1, <2>2, <2>3, <1>0
<1>6. CASE Select
  BY <1>6, <1>0, ErrorCodes DEF Select
<1>7. CASE CheckPermission
  BY <1>7, <1>0 DEF CheckPermission
<1>8. CASE GetPayload
  BY <1>8, <1>0 DEF GetPayload
<1>9. CASE Update
  <2>1. pc = "update"
    BY <1>9 DEF Update, Refused
  <2>2. CASE \E code \in update_refusals : Throw(code)
    BY <2>1, <2>2, <1>0, ErrorCodes
  <2>3. CASE Continue("read_back") \/ Continue("negotiate")
    BY <2>1, <2>3, <1>0
  <2>4. QED
    BY <1>9, <2>2, <2>3 DEF Update, Refused
<1>10. CASE ReadBack
  BY <1>10, <1>0 DEF ReadBack
<1>11. CASE \E at \in {"authenticate", "select", "permission", "payload", "update", "read_back"} :
             DatabaseFails(at)
  BY <1>11, <1>0 DEF DatabaseFails
<1>12. QED
  BY <1>1, <1>2, <1>3, <1>4, <1>5, <1>6, <1>7, <1>8, <1>9, <1>10, <1>11

\* They keep the invariant.
LEMMA EarlyKeeps ==
    ASSUME BodyInv, pc \in Unanswered, Early
    PROVE  BodyInv'
<1>1. ~query_failed /\ fetched = {}
  BY DEF BodyInv
<1>2. ~query_failed' /\ fetched' = {}
  BY <1>1 DEF Early
<1>3. pc' \in Unanswered => pc' \notin {"done", "dead"}
  BY DEF Unanswered, Untouched
<1>4. WellFormed'
  BY <1>3 DEF Early, WellFormed, Finished
<1>5. QED
  BY <1>2, <1>4 DEF Early, BodyInv

\* The types a responder offers.
LEMMA OfferedTypes ==
    /\ handler \in {"changeset_create", "changeset_close"} => types_available = <<"text_plain">>
    /\ handler = "changeset_download" => types_available = <<"application_xml">>
    /\ handler \notin {"changeset_create", "changeset_close", "changeset_download"} =>
         types_available = <<"application_xml", "application_json">>
  BY DEF types_available

\* The type of a body is one its formatter is for.
TypeOfBody(type, h) ==
    /\ type \in {"application_xml", "application_json"}
    /\ h \notin {"changeset_create", "changeset_close"}
    /\ type = "application_json" => h # "changeset_download"

LEMMA BodyType ==
    ASSUME request \in Requests, Chosen \in MimeTypes, Chosen # "text_plain"
    PROVE  TypeOfBody(Chosen, handler)
<1>1. TypeFits(Chosen, request.accept, types_available, request.suffix)
  BY ChosenFits
<1>2. PICK i \in DOMAIN types_available : Chosen = types_available[i]
  BY <1>1, Zenon DEF TypeFits
<1>3. CASE types_available = <<"text_plain">>
  BY <1>2, <1>3
<1>4. CASE types_available = <<"application_xml">>
  <2>1. Chosen = "application_xml"
    BY <1>2, <1>4
  <2>2. handler \notin {"changeset_create", "changeset_close"}
    BY <1>4, OfferedTypes
  <2>3. QED
    BY <2>1, <2>2 DEF TypeOfBody
<1>5. CASE types_available = <<"application_xml", "application_json">>
  <2>1. Chosen \in {"application_xml", "application_json"}
    BY <1>2, <1>5
  <2>2. types_available # <<"text_plain">> /\ types_available # <<"application_xml">>
    BY <1>5
  <2>3. handler \notin {"changeset_create", "changeset_close", "changeset_download"}
    BY <2>2, OfferedTypes
  <2>4. QED
    BY <2>1, <2>3 DEF TypeOfBody
<1>6. QED
  BY <1>3, <1>4, <1>5, OfferedTypes

\* No root is called like an error.
LEMMA RootNames == \A h : Names(RootOf(h)) /\ (h # "changeset_download" => RootOf(h) # "osmChange")
  BY DEF Names, RootOf

\* A page before its first call.
LEMMA FirstPage ==
    ASSUME NEW type, TypeOfBody(type, handler), NEW failed, ~failed
    PROVE  Page(handler, type, responder, NewWriter(type), failed, {})
<1>1. handler \notin {"changeset_create", "changeset_close"}
  BY DEF TypeOfBody
<1>2. Point(handler, "new", responder)
  <2>1. CASE handler = "changeset"
    <3>1. responder = osm_changeset_responder
      BY <2>1 DEF responder
    <3>2. ChangesetPoint("new", responder)
      BY <3>1, Zenon DEF ChangesetPoint
    <3>3. QED
      BY <3>2, <2>1 DEF Point
  <2>2. CASE handler = "changeset_download"
    <3>1. responder = osmchange_responder
      BY <2>2 DEF responder
    <3>2. DownloadPoint("new", responder)
      BY <3>1, Zenon DEF DownloadPoint
    <3>3. QED
      BY <3>2, <2>2 DEF Point
  <2>3. CASE handler = "changeset_upload"
    <3>1. responder = osm_diffresult_responder
      BY <2>3 DEF responder
    <3>2. UploadPoint("new", responder)
      BY <3>1, Zenon DEF UploadPoint
    <3>3. QED
      BY <3>2, <2>3 DEF Point
  <2>4. CASE handler \notin Special
    <3>1. responder = osm_current_responder(TRUE) \/ responder = osm_current_responder(FALSE)
      BY <2>4, <1>1 DEF responder, Special
    <3>2. ElementsPoint("new", responder)
      BY <3>1, Zenon DEF ElementsPoint
    <3>3. QED
      BY <3>2, <2>4 DEF Point
  <2>5. QED
    BY <2>1, <2>2, <2>3, <2>4 DEF Special
<1>3. responder.outside # ErrorCall
  <2>1. responder.outside = <<>> \/ responder.outside = StartsChange
    <3>1. \A t, r : Responder(<<>>, t, r).outside = <<>> /\ Responder(StartsChange, t, r).outside = StartsChange
      BY DEF Responder
    <3>2. \/ responder = osm_current_responder(TRUE) \/ responder = osm_current_responder(FALSE)
          \/ responder = osm_changeset_responder \/ responder = osmchange_responder
          \/ responder = osm_diffresult_responder
      BY <1>1 DEF responder
    <3>3. QED
      BY <3>1, <3>2, Zenon DEF osm_current_responder, osm_changeset_responder, osmchange_responder,
                         osm_diffresult_responder, StartsChange
  <2>2. QED
    BY <2>1, NotErrorCall
<1>4. InPhase(type, RootOf(handler), "new", NewWriter(type)) /\ NewWriter(type).shown = {}
  <2>1. CASE type = "application_xml"
    <3>1. /\ NewWriter(type).stack = <<>> /\ NewWriter(type).read = <<>>
          /\ NewWriter(type).shown = {}
      BY <2>1 DEF NewWriter
    <3>2. XmlPhase(RootOf(handler), "new", NewWriter(type))
      BY <3>1 DEF XmlPhase, Opened
    <3>3. QED
      BY <3>1, <3>2, <2>1 DEF InPhase
  <2>2. CASE type = "application_json"
    <3>1. /\ NewWriter(type).stack = <<"start">> /\ NewWriter(type).read = <<>>
          /\ NewWriter(type).shown = {}
      BY <2>2 DEF NewWriter
    <3>2. JsonPhase("new", NewWriter(type))
      BY <3>1 DEF JsonPhase
    <3>3. QED
      BY <3>1, <3>2, <2>2 DEF InPhase
  <2>3. QED
    BY <2>1, <2>2 DEF TypeOfBody
<1>5. "new" \in Phases
  BY DEF Phases
<1>6. QED
  BY <1>2, <1>3, <1>4, <1>5 DEF Page

\* A writing call leads from one page to the next.
LEMMA CallTurnsPage ==
    ASSUME NEW type, NEW h, TypeOfBody(type, h), NEW p, NEW q \in Phases, NEW w, NEW call,
           InPhase(type, RootOf(h), p, w), Moves(RootOf(h), p, call, q),
           NEW calls, NEW made, Point(h, q, made), NEW failed, NEW found_editions,
           failed <=> "error" \in w.shown \/ calls.outside = ErrorCall,
           call.op = "error" <=> (calls.outside = ErrorCall /\ made # calls),
           made = calls \/ made.outside # ErrorCall,
           \A e \in found_editions : e.type # "error"
    PROVE  Page(h, type, made, written(type, w, call), failed, found_editions)
<1> DEFINE v == written(type, w, call)
<1>1. InPhase(type, RootOf(h), q, v) /\ ErrorShown(w, call, v)
  BY RootNames, CallStep DEF TypeOfBody
<1> HIDE DEF v
<1>2. failed <=> "error" \in v.shown \/ made.outside = ErrorCall
  BY <1>1 DEF ErrorShown
<1>3. QED
  BY <1>1, <1>2 DEF Page, v

\* A step that writes to the page makes a page of it.
LEMMA WritingPages ==
    ASSUME Body, TypeOfBody(head.type, handler), CallsLeft, UNCHANGED <<handler, head>>,
           WriteCall \/ WriteRow \/ Fetch \/ FetchFails \/ WriteSorted
    PROVE  Body'
<1>1. PICK p \in Phases : Point(handler, p, write_calls) /\ InPhase(head.type, RootOf(handler), p, writer)
  BY DEF Body, Page
<1>2. /\ query_failed <=> "error" \in writer.shown \/ write_calls.outside = ErrorCall
      /\ \A e \in fetched : e.type # "error"
  BY DEF Body, Page
<1>3. Goes(handler, p, next_call, Made, Caught)
  BY <1>1, PointNext
<1>4. /\ write_calls.outside = ErrorCall <=> next_call.op = "error"
      /\ Made.outside # ErrorCall /\ Caught.outside = ErrorCall
  BY <1>1, ErrorCalled
<1> DEFINE Turned(calls, w, failed, found_editions) == Page(handler, head.type, calls, w, failed, found_editions)
<1> SUFFICES Turned(write_calls', writer', query_failed', fetched')
  BY DEF Body
<1>5. CASE WriteCall
  <2>1. /\ next_call.op \notin {"fetch", "sorted"}
        /\ writer' = written(head.type, writer, next_call)
        /\ write_calls' = Made
        /\ UNCHANGED <<query_failed, fetched>>
    BY <1>5 DEF WriteCall
  <2>2. PICK q \in Phases : Moves(RootOf(handler), p, next_call, q) /\ Point(handler, q, Made)
    BY <2>1, <1>3 DEF Goes
  <2>3. next_call.op = "error" <=> (write_calls.outside = ErrorCall /\ Made # write_calls)
    BY <1>4
  <2>4. Turned(Made, written(head.type, writer, next_call), query_failed, fetched)
    BY <2>2, <2>3, <1>1, <1>2, <1>4, CallTurnsPage
  <2>5. QED
    BY <2>1, <2>4
<1>6. CASE WriteRow
  <2>1. PICK row \in RowsOf(next_call) : writer' = written(head.type, writer, row)
    BY <1>6 DEF WriteRow
  <2>2. UNCHANGED <<write_calls, query_failed, fetched>>
    BY <1>6 DEF WriteRow
  <2>3. CASE next_call.op = "fetch"
    <3>1. handler \notin Special /\ row = Call("write", next_call.name)
      BY <2>1, <2>3, <1>3 DEF RowsOf, Goes, Special
    <3>2. p = "elements" /\ next_call.name # "error"
      BY <2>3, <3>1, <1>3 DEF Goes, Special
    <3>3. row.op = "write" /\ row.name = next_call.name
      BY <3>1 DEF Call
    <3>4. Moves(RootOf(handler), p, row, p) /\ row.op # "error"
      BY <3>2, <3>3 DEF Moves
    <3>5. Turned(write_calls, written(head.type, writer, row), query_failed, fetched)
      BY <3>4, <1>1, <1>2, CallTurnsPage
    <3>6. QED
      BY <3>5, <2>1, <2>2
  <2>4. CASE next_call.op = "items"
    <3>1. PICK t \in Range(ElementTypes) : row = Call("write_diffresult", t)
      BY <2>1, <2>4 DEF RowsOf
    <3>2. t # "error"
      BY DEF ElementTypes, Range
    <3>3. row.op = "write_diffresult" /\ row.name = t
      BY <3>1 DEF Call
    <3>4. p = "object"
      BY <2>4, <1>3 DEF Goes
    <3>5. Moves(RootOf(handler), p, row, p) /\ row.op # "error"
      BY <3>2, <3>3, <3>4 DEF Moves
    <3>6. Turned(write_calls, written(head.type, writer, row), query_failed, fetched)
      BY <3>5, <1>1, <1>2, CallTurnsPage
    <3>7. QED
      BY <3>6, <2>1, <2>2
  <2>5. next_call.op \in {"fetch", "items"}
    BY <2>1 DEF RowsOf
  <2>6. QED
    BY <2>3, <2>4, <2>5
<1>7. CASE Fetch
  <2>1. next_call.op = "fetch" /\ write_calls' = Made /\ UNCHANGED query_failed
    BY <1>7 DEF Fetch
  <2>2. next_call.name # "error"
    BY <2>1, <1>3 DEF Goes
  <2>3. \A e \in fetched' : e.type # "error"
    BY <1>7, <1>2, <2>2 DEF Fetch
  <2>4. write_calls.outside # ErrorCall
    BY <2>1, <1>4
  <2>5. CASE handler = "changeset"
    <3>1. writer' = written(head.type, writer, Call("write", "changeset"))
      BY <1>7, <2>5 DEF Fetch
    <3>2. p = "value" /\ Point(handler, "object", Made)
      BY <2>1, <2>5, <1>3 DEF Goes
    <3> DEFINE row == Call("write", "changeset")
    <3>3. row.op = "write" /\ row.name = "changeset"
      BY DEF Call
    <3> HIDE DEF row
    <3>4. Moves(RootOf(handler), p, row, "object") /\ row.op # "error" /\ "object" \in Phases
      BY <3>2, <3>3 DEF Moves, Phases, Opened
    <3>5. Turned(Made, written(head.type, writer, row), query_failed, fetched')
      BY <3>2, <3>4, <2>3, <2>4, <1>1, <1>2, <1>4, CallTurnsPage
    <3>6. QED
      BY <3>1, <3>5, <2>1 DEF row
  <2>6. CASE handler # "changeset"
    <3>1. writer' = writer
      BY <1>7, <2>6 DEF Fetch
    <3>2. Point(handler, p, Made)
      BY <2>1, <2>6, <1>3 DEF Goes, Special
    <3>3. query_failed <=> "error" \in writer.shown \/ Made.outside = ErrorCall
      BY <2>4, <1>2, <1>4
    <3>4. Turned(Made, writer, query_failed, fetched')
      BY <3>2, <3>3, <2>3, <1>1 DEF Page
    <3>5. QED
      BY <3>1, <3>4, <2>1
  <2>7. QED
    BY <2>5, <2>6
<1>8. CASE FetchFails
  <2>1. next_call.op = "fetch" /\ write_calls' = Caught /\ query_failed' /\ UNCHANGED <<writer, fetched>>
    BY <1>8 DEF FetchFails
  <2>2. Point(handler, p, Caught)
    BY <2>1, <1>3 DEF Goes
  <2>3. query_failed' <=> "error" \in writer.shown \/ Caught.outside = ErrorCall
    BY <2>1, <1>4
  <2>4. Turned(Caught, writer, query_failed', fetched)
    BY <2>2, <2>3, <1>1, <1>2 DEF Page
  <2>5. QED
    BY <2>1, <2>4
<1>9. CASE WriteSorted
  <2>1. next_call.op = "sorted" /\ UNCHANGED query_failed
    BY <1>9 DEF WriteSorted
  <2>2. handler = "changeset_download" /\ p = "opened" /\ Point(handler, p, Made)
    BY <2>1, <1>3 DEF Goes
  <2>3. head.type = "application_xml"
    BY <2>2 DEF TypeOfBody
  <2>4. write_calls.outside # ErrorCall
    BY <2>1, <1>4
  <2>5. CASE write_calls' = Made /\ UNCHANGED <<writer, fetched>>
    <3>1. query_failed <=> "error" \in writer.shown \/ Made.outside = ErrorCall
      BY <2>4, <1>2, <1>4
    <3>2. Turned(Made, writer, query_failed, fetched)
      BY <2>2, <3>1, <1>1, <1>2 DEF Page
    <3>3. QED
      BY <2>1, <2>5, <3>2
  <2>6. ASSUME NEW e \in fetched, writer' = written_edition(head.type, writer, e),
               fetched' = fetched \ {e}, write_calls' = write_calls
        PROVE  Turned(write_calls', writer', query_failed', fetched')
    <3> DEFINE v == written_edition("application_xml", writer, e)
    <3>1. writer' = v
      BY <2>6, <2>3
    <3>2. XmlPhase(RootOf(handler), "opened", writer) /\ e.type # "error"
      BY <2>2, <2>3, <1>1, <1>2 DEF InPhase
    <3>3. XmlPhase(RootOf(handler), "opened", v) /\ ("error" \in v.shown <=> "error" \in writer.shown)
      BY <3>2, RootNames, XmlEdition
    <3> HIDE DEF v
    <3>4. InPhase(head.type, RootOf(handler), p, v)
      BY <3>3, <2>2, <2>3 DEF InPhase
    <3>5. \A x \in fetched' : x.type # "error"
      BY <2>6, <1>2
    <3>6. query_failed <=> "error" \in v.shown \/ write_calls.outside = ErrorCall
      BY <3>3, <1>2
    <3>7. Turned(write_calls, v, query_failed, fetched')
      BY <3>4, <3>5, <3>6, <1>1 DEF Page
    <3>8. QED
      BY <3>1, <3>7, <2>1, <2>6
  <2>7. QED
    BY <1>9, <2>5, <2>6 DEF WriteSorted
<1>10. QED
  BY <1>5, <1>6, <1>7, <1>8, <1>9

\* Negotiate starts a page, and ends the answer only for HEAD.
LEMMA NegotiateStarts ==
    ASSUME WorkerInv, BodyInv, Negotiate
    PROVE  BodyInv'
<1>1. pc = "negotiate" /\ pc \in Unanswered \ {"accept"} /\ request \in Requests
  BY DEF Negotiate, WorkerInv, MethodInv, Unanswered, Untouched
<1>2. CASE Throw(400) \/ Throw(406) \/ ThrowOther
  BY <1>1, <1>2, ThrowIsEarly, EarlyKeeps
<1>3. CASE /\ Chosen \in MimeTypes
           /\ SendHead(200, 200, Chosen, ChosenEncoding)
           /\ UNCHANGED <<request, handler, fetched, query_failed>>
           /\ \/ request.method = "HEAD" /\ pc' = "done"
              \/ pc' = "write" /\ write_calls' = responder /\ writer' = NewWriter(Chosen)
  <2>1. head'.type = Chosen
    BY <1>3, HeadSent
  <2>2. ~query_failed /\ fetched = {}
    BY <1>1 DEF BodyInv
  <2>3. pc' \notin Unanswered
    BY <1>3 DEF Unanswered, Untouched
  <2>4. WellFormed'
    BY <1>3 DEF WellFormed, Finished
  <2>5. ASSUME pc' = "write", head'.type # "text_plain" PROVE Body'
    <3>1. TypeOfBody(Chosen, handler)
      BY <2>1, <2>5, <1>1, <1>3, BodyType
    <3>2. Page(handler, Chosen, responder, NewWriter(Chosen), query_failed, {})
      BY <3>1, <2>2, FirstPage
    <3>3. write_calls' = responder /\ writer' = NewWriter(Chosen)
      BY <2>5, <1>3
    <3>4. QED
      BY <3>2, <3>3, <2>1, <2>2, <1>3 DEF Body
  <2>6. QED
    BY <2>3, <2>4, <2>5 DEF BodyInv, Body
<1>4. QED
  BY <1>2, <1>3 DEF Negotiate, Chosen, ChosenEncoding

\* A step that writes.
LEMMA WriteKeeps ==
    ASSUME WorkerInv, BodyInv, Write \/ ClientGone
    PROVE  BodyInv'
<1>1. pc = "write"
  BY DEF Write, WriteCall, WriteRow, Fetch, FetchFails, WriteSorted, WriteFails, Finish, ClientGone
<1>2. head.type = Chosen /\ Chosen \in MimeTypes /\ request \in Requests /\ pc \notin Unanswered
  BY <1>1 DEF WorkerInv, MethodInv, ChosenInv, Negotiated, Unanswered, Untouched
<1>3. head.type # "text_plain" => TypeOfBody(head.type, handler)
  BY <1>2, BodyType
<1>4. CASE Finish
  <2>1. /\ ~CallsLeft /\ pc' = "done" /\ writer' = closed(head.type, writer)
        /\ UNCHANGED <<request, handler, head, query_failed, client>>
    BY <1>4 DEF Finish
  <2>2. ASSUME client = "there", head.type # "text_plain"
        PROVE  writer'.read = Ended /\ ("error" \in writer'.shown <=> query_failed)
    <3>1. Page(handler, head.type, write_calls, writer, query_failed, fetched)
      BY <2>2, <1>1 DEF BodyInv, Body
    <3>2. PICK p : Point(handler, p, write_calls) /\ InPhase(head.type, RootOf(handler), p, writer)
      BY <3>1 DEF Page
    <3>3. p = "ended" /\ write_calls.outside # ErrorCall
      BY <3>2, <2>1, NothingLeftToCall
    <3>4. closed(head.type, writer) = writer /\ writer.read = Ended
      BY <3>2, <3>3, ClosedAlready
    <3>5. QED
      BY <3>1, <3>3, <3>4, <2>1 DEF Page
  <2>3. WellFormed'
    BY <2>1, <2>2 DEF WellFormed, IsDocument
  <2>4. pc' \notin Unanswered /\ pc' # "write"
    BY <2>1 DEF Unanswered, Untouched
  <2>5. QED
    BY <2>3, <2>4 DEF BodyInv
<1>5. CASE WriteFails \/ ClientGone
  <2>1. client' # "there" /\ UNCHANGED pc
    BY <1>5 DEF WriteFails, ClientGone, answer
  <2>2. QED
    BY <2>1, <1>1, <1>2 DEF BodyInv, WellFormed, Finished
<1>6. CASE WriteCall \/ WriteRow \/ Fetch \/ FetchFails \/ WriteSorted
  <2>1. CallsLeft /\ UNCHANGED <<pc, handler, head, client>>
    BY <1>6 DEF WriteCall, WriteRow, Fetch, FetchFails, WriteSorted, answer
  <2>2. client = "there" /\ head.type # "text_plain" => Body'
    BY <1>1, <1>3, <1>6, <2>1, WritingPages DEF BodyInv, Body
  <2>3. QED
    BY <2>1, <2>2, <1>1, <1>2 DEF BodyInv, Body, WellFormed, Finished
<1>7. QED
  BY <1>4, <1>5, <1>6 DEF Write

\* The steps between two requests, and a writer that cannot be set up.
LEMMA OtherKeeps ==
    ASSUME WorkerInv, BodyInv, NoWriter \/ Dispose \/ Replaced \/ UNCHANGED vars
    PROVE  BodyInv'
<1>1. CASE NoWriter
  <2>1. pc = "write" /\ m_workflow_status = status_BODY
    BY <1>1 DEF NoWriter, WorkerInv, ProgressInv
  <2>2. ~may_enter(status_HEADERS)
    BY <2>1 DEF may_enter, status_BODY, status_HEADERS
  <2>3. pc' = "dead" /\ UNCHANGED m_workflow_status
    BY <1>1, <2>2 DEF NoWriter, ThrowOther, Respond
  <2>4. ~Finished' /\ pc' \notin Unanswered
    BY <2>1, <2>3 DEF Finished, status_BODY, status_FINISHED, Unanswered, Untouched
  <2>5. QED
    BY <2>3, <2>4 DEF BodyInv, WellFormed
<1>2. CASE Dispose \/ Replaced
  <2>1. pc' = "accept" /\ ~query_failed' /\ fetched' = {}
    BY <1>2 DEF Dispose, Replaced, NothingLeft
  <2>2. QED
    BY <2>1 DEF BodyInv, WellFormed, Finished
<1>3. CASE UNCHANGED vars
  <2>1. WellFormed'
    BY <1>3 DEF vars, BodyInv, WellFormed, Finished
  <2>2. QED
    BY <1>3, <2>1 DEF vars, BodyInv, Body
<1>4. QED
  BY <1>1, <1>2, <1>3

LEMMA NextBody == WorkerInv /\ BodyInv /\ [Next]_vars => BodyInv'
  BY StepsAreEarly, EarlyKeeps, NegotiateStarts, WriteKeeps, OtherKeeps DEF Next, Process

LEMMA InitBody == Init => BodyInv
<1> SUFFICES ASSUME Init PROVE BodyInv
  OBVIOUS
<1>1. pc = "accept" /\ ~query_failed /\ fetched = {}
  BY DEF Init
<1>2. QED
  BY <1>1 DEF BodyInv, WellFormed, Finished

\* What is written is a prefix of a document, and what is left to be called
\* completes it.
THEOREM BodyInvariant == Spec => []BodyInv
  BY InitBody, NextBody, WorkerInvariant, PTL DEF Spec

\* A client that stays gets a well-formed document of the type in the head, and
\* it shows an error exactly if a query failed.
THEOREM DocumentsAlwaysWellFormed == Spec => []WellFormed
<1>1. BodyInv => WellFormed
  BY DEF BodyInv
<1>2. QED
  BY <1>1, BodyInvariant, PTL
=============================================================================
