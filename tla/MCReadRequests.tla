--------------------------- MODULE MCReadRequests ---------------------------
(* Two nodes, a way through them, and three relations, each of which may    *)
(* hold the one before it; in one database the way has been redrawn and the *)
(* second node was deleted and redacted in between.                         *)
EXTENDS ReadRequests

n1 == <<"Node", 1>>
n2 == <<"Node", 2>>
w1 == <<"Way", 1>>
r1 == <<"Relation", 1>>
r2 == <<"Relation", 2>>
r3 == <<"Relation", 3>>

MCElements == {n1, n2, w1, r1, r2, r3}
MCChangesets == {1, 2}
MCOpenChangesets == {1}

row(vis, box, refs, cs, red) ==
    [visible |-> vis, in_bbox |-> box, refs |-> refs, changeset |-> cs, redacted |-> red]
plain(refs) == row(TRUE, FALSE, refs, 1, FALSE)
inside == row(TRUE, TRUE, {}, 1, FALSE)
gone_row == row(FALSE, FALSE, {}, 1, FALSE)

Db(a, b, c, d, e, f) == [x \in MCElements |->
    CASE x = n1 -> a [] x = n2 -> b [] x = w1 -> c [] x = r1 -> d [] x = r2 -> e [] x = r3 -> f]

Chain == Db(<<inside>>, <<plain({})>>, <<plain({n1, n2})>>,
            <<plain({w1})>>, <<plain({r1})>>, <<plain({r2})>>)
Edited == Db(<<inside, inside>>,
             <<row(TRUE, TRUE, {}, 1, TRUE), row(FALSE, TRUE, {}, 2, FALSE)>>,
             <<plain({n1, n2}), plain({n1})>>,
             <<plain({n2, w1}), gone_row>>, <<plain({n1})>>, <<>>)

MCInitialDbs == {Chain, Edited}
MCRefSets == {{}, {n1}, {n2}, {n1, n2}, {w1}, {r1}}

Get(kind, ids, eds) ==
    [kind |-> kind, ids |-> ids, eds |-> eds, changeset |-> 1, method |-> "GET",
     token |-> "none", show_redactions |-> FALSE]
Asked(r) == [r EXCEPT !.show_redactions = TRUE, !.token = "user"]
Moderator(r) == [Asked(r) EXCEPT !.token = "moderator"]
Head_(r) == [r EXCEPT !.method = "HEAD"]

Named == {Get("element", {e}, {}) : e \in {n2, w1, r1, r3}}
    \cup {Get("full", {e}, {}) : e \in {w1, r1, r2}}
    \cup {Get("ways", {n2}, {}), Get("map", {}, {}), Get("download", {}, {}),
          [Get("download", {}, {}) EXCEPT !.changeset = 3]}
    \cup {Get("relations", {e}, {}) : e \in {n2, w1, r1, r3}}
    \cup {Get("multi", {n1}, {<<n1, 1>>}), Get("multi", {n1, n2}, {}),
          Get("multi", {}, {<<n1, 1>>, <<n2, 1>>}), Get("multi", {r1, r3}, {})}
    \cup {Get("version", {}, {<<n2, 1>>}), Get("history", {n2}, {}), Get("history", {w1}, {}),
          Get("history", {r3}, {})}
Redactable == {r \in Named : r.kind \in {"version", "history", "download"}}
MCRequests == Named \cup {Head_(r) : r \in Named}
    \cup {[Get("map", {}, {}) EXCEPT !.token = t] : t \in {"unknown", "expired", "revoked"}}
    \cup {Asked(r) : r \in Redactable} \cup {Moderator(r) : r \in Redactable}
=============================================================================
