----------------------------- MODULE Negotiation -----------------------------
(***************************************************************************)
(* How the type and the encoding of an answer are chosen from the Accept   *)
(* and Accept-Encoding headers (choose_formatter.cpp, mime_types.cpp,      *)
(* http.cpp).  A header is the sequence of its items; a quality is a       *)
(* number of steps up to MaxQuality, which stands for 1.0.                 *)
(***************************************************************************)
EXTENDS Naturals, SequencesExt

MimeTypes == {"application_xml", "application_json", "text_plain"}
Encodings == {"br", "deflate", "gzip", "identity"}
MaxQuality == 2

\* The items of an Accept header after mime::parse_from: names it does not
\* know are "unspecified".  The empty sequence is a header that
\* AcceptHeader::parse refuses; a missing header is "*/*".
AcceptItem == [type: MimeTypes \cup {"any_type", "unspecified_type"}, q: 0..MaxQuality]
AnyType == <<[type |-> "any_type", q |-> MaxQuality]>>

\* is_acceptable, but for one type: mapping.contains
contains(header, t) == t # "unspecified_type" /\ \E i \in DOMAIN header : header[i].type = t

\* AcceptHeader::AcceptHeader: a later item replaces an earlier one.
mapping(header, t) ==
    LET at == {i \in DOMAIN header : header[i].type = t}
    IN  header[CHOOSE i \in at : \A j \in at : j <= i].q

is_acceptable(header, t) == contains(header, t) \/ contains(header, "any_type")

\* Mutant: the wildcard is tried first.
most_acceptable_of_mutant(header, available) ==
    IF contains(header, "any_type") THEN Head(available) ELSE "unspecified_type"

\* The first of the types with the highest quality; the wildcard only counts
\* when none of them is named.
most_acceptable_of(header, available) ==
    LET named == {i \in DOMAIN available : contains(header, available[i])}
        score(i) == mapping(header, available[i])
        best == CHOOSE i \in named : \A j \in named :
                    score(j) < score(i) \/ (score(j) = score(i) /\ i <= j)
    IN  IF named # {} THEN available[best]
        ELSE IF contains(header, "any_type") THEN Head(available)
        ELSE "unspecified_type"

\* The type, or the status that is thrown.
choose_best_mime_type(header, available, resource_type) ==
    IF header = <<>> THEN "bad_request"
    ELSE IF resource_type # "unspecified_type"
    THEN IF Contains(available, resource_type) /\ is_acceptable(header, resource_type)
         THEN resource_type
         ELSE "not_acceptable"
    ELSE IF most_acceptable_of(header, available) = "unspecified_type"
    THEN "not_acceptable"
    ELSE most_acceptable_of(header, available)

\* Items of an Accept-Encoding header: a quality above MaxQuality is out of
\* range, "unparsable" is one std::stof throws at.  A missing header is
\* identity.
EncodingItem == [name: Encodings \cup {"*", "other", "unparsable"}, q: 0..(MaxQuality + 1)]
Identity == <<[name |-> "identity", q |-> MaxQuality]>>

\* The items that count: "set default if header empty", so that a header
\* without items accepts every encoding (it is not a missing header).
encodings(header) == IF header = <<>> THEN <<[name |-> "*", q |-> MaxQuality]>> ELSE header

\* "*" stands for the encodings that have no quality yet.
set_quality(quality, item) ==
    IF item.q > MaxQuality THEN quality
    ELSE IF item.name = "*"
    THEN [e \in Encodings |-> IF quality[e] = 0 THEN item.q ELSE quality[e]]
    ELSE [e \in Encodings |-> IF e = item.name THEN item.q ELSE quality[e]]

qualities(items) == FoldLeft(set_quality, [e \in Encodings |-> 0], items)

choose_encoding(header) ==
    LET q == qualities(encodings(header))
    IN  CASE \E i \in DOMAIN header : header[i].name = "unparsable" -> "std_exception"
          [] OTHER ->
               IF q["br"] > 0 /\ \A e \in Encodings : q["br"] >= q[e] THEN "br"
               ELSE IF /\ q["deflate"] > 0
                       /\ q["deflate"] >= q["gzip"]
                       /\ q["deflate"] >= q["identity"] THEN "deflate"
               ELSE IF q["gzip"] > 0 /\ q["gzip"] >= q["identity"] THEN "gzip"
               ELSE IF q["identity"] > 0 THEN "identity"
               ELSE "not_acceptable"
=============================================================================
