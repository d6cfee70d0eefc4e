------------------------------- MODULE Router --------------------------------
(***************************************************************************)
(* The routes of API 0.6 and how a request finds its handler (routes.cpp,  *)
(* router.hpp, router.cpp).  A path is the sequence of its components      *)
(* after /api/0.6/, without the .xml or .json at its end.                  *)
(***************************************************************************)
EXTENDS Naturals, SequencesExt

CONSTANT OsmIds \* components match_osm_id takes: digits, and not zero

Methods == {"GET", "HEAD", "POST", "PUT", "OPTIONS", "other"}

Rule(path, handler) == [path |-> path, handler |-> handler]

\* The calls that nodes, ways and relations have in common.
ElementRules(name, others) ==
    <<Rule(<<name, "osm_id", "relations">>, name \o "_relations"),
      Rule(<<name, "osm_id", "history">>, name \o "_history"),
      Rule(<<name, "osm_id", "osm_id">>, name \o "_version"),
      Rule(<<name, "osm_id">>, name),
      Rule(<<name \o "s">>, name \o "s")>> \o others

rules_get ==
    <<Rule(<<"map">>, "map")>>
        \o ElementRules("node", <<Rule(<<"node", "osm_id", "ways">>, "node_ways")>>)
        \o ElementRules("way", <<Rule(<<"way", "osm_id", "full">>, "way_full")>>)
        \o ElementRules("relation", <<Rule(<<"relation", "osm_id", "full">>, "relation_full")>>)
        \o <<Rule(<<"changeset", "osm_id", "download">>, "changeset_download"),
             Rule(<<"changeset", "osm_id">>, "changeset")>>

rules_post == <<Rule(<<"changeset", "osm_id", "upload">>, "changeset_upload")>>

rules_put ==
    <<Rule(<<"changeset", "osm_id", "close">>, "changeset_close"),
      Rule(<<"changeset", "create">>, "changeset_create"),
      Rule(<<"changeset", "osm_id">>, "changeset_update")>>

Handlers == {rule.handler : rule \in Range(rules_get \o rules_post \o rules_put)}
WriteHandlers == {rule.handler : rule \in Range(rules_post \o rules_put)}

\* match_string and match_osm_id, and no component left over.
invoke_if(rule, path) ==
    /\ Len(rule.path) = Len(path)
    /\ \A i \in DOMAIN path :
         IF rule.path[i] = "osm_id" THEN path[i] \in OsmIds ELSE path[i] = rule.path[i]

\* Position of the first rule that matches, 0 if none does.
first_match(rules, path) == SelectInSeq(rules, LAMBDA rule : invoke_if(rule, path))

found(rules, path) == first_match(rules, path) # 0
handler_of(rules, path) == rules[first_match(rules, path)].handler

\* Methods the path has some rule for (with OPTIONS).
allowed_methods(path) ==
    {"OPTIONS"}
        \cup (IF found(rules_get, path) THEN {"GET", "HEAD"} ELSE {})
        \cup (IF found(rules_post, path) THEN {"POST"} ELSE {})
        \cup (IF found(rules_put, path) THEN {"PUT"} ELSE {})

\* The handler, or the status that is thrown.
match(method, path) ==
    CASE method = "other" -> "not_found"
      [] method \in {"GET", "HEAD", "OPTIONS"} /\ found(rules_get, path) ->
            handler_of(rules_get, path)
      [] method \in {"POST", "OPTIONS"} /\ found(rules_post, path) ->
            handler_of(rules_post, path)
      [] method \in {"PUT", "OPTIONS"} /\ found(rules_put, path) ->
            handler_of(rules_put, path)
      [] OTHER ->
            IF allowed_methods(path) # {"OPTIONS"} THEN "method_not_allowed" ELSE "not_found"

\* Handlers whose constructor reads the query string and may refuse it.  The
\* constructors of all GET rules that match run, whatever the method.
QueryHandlers == {"map", "nodes", "ways", "relations"}
constructor_may_throw(method, path) ==
    /\ method # "other"
    /\ found(rules_get, path)
    /\ handler_of(rules_get, path) \in QueryHandlers
=============================================================================
