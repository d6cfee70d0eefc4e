CONSTANTS
    Names <- MCNames
    Attributes <- MCAttributes
    missing = missing
    text = text
    huge = huge
    MaxElements = 7
    Word = 4
    element_max_tags = 1
    way_max_nodes = 1
    relation_max_members = 1
SPECIFICATION Spec
INVARIANTS CallsAsInDocument AcceptedIsComplete FirstErrorReported
CHECK_DEADLOCK FALSE
