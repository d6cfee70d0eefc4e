------------------------------ MODULE MCPayloads ------------------------------
(***************************************************************************)
(* Documents of osmChange and osm elements, with one example of everything *)
(* that is accepted and of everything that is refused at each place.       *)
(***************************************************************************)
EXTENDS Payloads

MCNames ==
    {"osmChange", "create", "modify", "delete", "node", "way", "relation", "tag", "nd", "member",
     "osm", "changeset"}

Obj(id, changeset, version, position) ==
    [id |-> id, changeset |-> changeset, version |-> version, position |-> position]

MCObjects ==
    {Obj(-1, 1, missing, "valid"), Obj(1, 1, 2, "valid"), Obj(1, 1, Word + 1, "none"),
     Obj(1, 1, Word, "valid"), Obj(1, 1, 0, "valid"), Obj(0, 1, 1, "valid"),
     Obj(missing, 1, 1, "valid"), Obj(1, missing, 1, "valid"), Obj(-1, 0, text, "valid"),
     Obj(1, 1, huge, "invalid"), Obj(-1, 1, -1, "invalid")}

MCTags ==
    {[k |-> "a", v |-> "x"], [k |-> "a", v |-> "y"], [k |-> missing, v |-> "x"],
     [k |-> "a", v |-> TooLong], [k |-> "", v |-> "x"]}

MCAttributes(e) ==
    CASE e = "node" -> MCObjects
      [] e \in {"way", "relation"} -> {o \in MCObjects : o.position = "valid" /\ o.changeset = 1}
      [] e = "delete" -> {[if_unused |-> "true"], [if_unused |-> missing]}
      [] e = "tag" -> MCTags
      [] e = "nd" -> {[ref |-> 1], [ref |-> 0], [ref |-> missing]}
      [] e = "member" -> {[type |-> "way", ref |-> 1, role |-> ""],
                          [type |-> "area", ref |-> 1, role |-> ""],
                          [type |-> "node", ref |-> text, role |-> ""]}
      [] OTHER -> {[none |-> missing]}

=============================================================================
