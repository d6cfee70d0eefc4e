----------------------------- MODULE MCRequests ------------------------------
(***************************************************************************)
(* Requests for TLC: every method at every kind of path; every Accept and  *)
(* Accept-Encoding header of up to two items, asked with HEAD, as a body   *)
(* does not depend on them; and the bodies in every type and encoding.     *)
(***************************************************************************)
EXTENDS Requests

MCOsmIds == {"1"}

Plain_request(method, path) ==
    [method |-> method, path |-> path, suffix |-> "unspecified_type", complete |-> TRUE,
     accept |-> AnyType, accept_encoding |-> Identity, error_format |-> "", preflight |-> FALSE]

Paths ==
    {<<"map">>, <<"node", "1">>, <<"node", "1", "ways">>, <<"node", "1", "1">>, <<"way", "1", "full">>,
     <<"relations">>, <<"changeset", "1">>, <<"changeset", "1", "download">>,
     <<"changeset", "1", "upload">>, <<"changeset", "1", "close">>, <<"changeset", "create">>,
     <<"node", "create">>, <<"changeset", "1", "0">>}

Routes ==
    {[Plain_request(m, p) EXCEPT !.error_format = f, !.preflight = o, !.complete = c] :
        m \in Methods, p \in Paths, f \in {"", "xml"}, o \in BOOLEAN, c \in BOOLEAN}

Answered ==
    {Plain_request("GET", <<"map">>), Plain_request("GET", <<"node", "1">>),
     Plain_request("GET", <<"changeset", "1">>), Plain_request("GET", <<"changeset", "1", "download">>),
     Plain_request("POST", <<"changeset", "1", "upload">>), Plain_request("PUT", <<"changeset", "create">>),
     Plain_request("PUT", <<"changeset", "1", "close">>), Plain_request("PUT", <<"changeset", "1">>)}

Item(t, q) == [type |-> t, q |-> q]
Coding(n, q) == [name |-> n, q |-> q]

\* Bodies in the types and encodings a path can be answered in.
Bodies ==
    {[r EXCEPT !.suffix = s, !.accept = a, !.accept_encoding = e] :
        r \in Answered, s \in ResourceTypes,
        a \in {AnyType, <<Item("application_json", 1)>>, <<>>},
        e \in {Identity, <<Coding("gzip", 1)>>, <<Coding("br", 1), Coding("*", 2)>>, <<Coding("other", 1)>>}}

UpToTwo(S) == {<<a>> : a \in S} \cup {<<a, b>> : a \in S, b \in S} \cup {<<>>}

Negotiations ==
    {[Plain_request("HEAD", <<"node", "1">>) EXCEPT !.suffix = s, !.accept = a] :
        s \in ResourceTypes, a \in UpToTwo(AcceptItem)}
    \cup {[Plain_request("HEAD", <<"changeset", "1">>) EXCEPT !.accept_encoding = e] :
        e \in UpToTwo({i \in EncodingItem : i.name \in {"unparsable", "other"} => i.q = 1})}

MCRequests == Routes \cup Bodies \cup Negotiations

\* Editions of a node that was made and deleted again, and of a way.
MCEditions ==
    {[type |-> "node", id |-> 1, version |-> 1, timestamp |-> 1, visible |-> TRUE],
     [type |-> "node", id |-> 1, version |-> 2, timestamp |-> 2, visible |-> FALSE],
     [type |-> "way", id |-> 1, version |-> 2, timestamp |-> 1, visible |-> TRUE]}
=============================================================================
