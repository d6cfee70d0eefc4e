-------------------------------- MODULE BBox --------------------------------
(***************************************************************************)
(* Bounding boxes (class bbox_t of include/cgimap/util.hpp).               *)
(*                                                                         *)
(* bbox_t keeps a latitude and a longitude interval, and treats them       *)
(* independently and alike: the model keeps one coordinate.  The value a   *)
(* default-constructed box holds, an inverted interval outside the valid   *)
(* range (+-180), is kept as it is.                                        *)
(***************************************************************************)
EXTENDS Integers

Coord == -180..180

bbox_t == [min: Int, max: Int]

\* The default constructor: an interval that no coordinate lies in.
undefined_bbox == [min |-> 200, max |-> -200]

\* bbox_t::expand(): the smallest box around both.
expand(a, b) ==
    [min |-> IF b.min < a.min THEN b.min ELSE a.min,
     max |-> IF b.max > a.max THEN b.max ELSE a.max]

linear_size(b) == b.max - b.min

\* MIN/MAX over the coordinates a query selects.  Without any row both
\* aggregates are NULL and extract_bbox_from_row() leaves the box undefined.
extract_bbox(coords) ==
    IF coords = {}
    THEN undefined_bbox
    ELSE [min |-> CHOOSE c \in coords : \A d \in coords : c <= d,
          max |-> CHOOSE c \in coords : \A d \in coords : d <= c]

Covers(b, c) == b.min <= c /\ c <= b.max
=============================================================================
