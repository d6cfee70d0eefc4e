SPECIFICATION Spec
CONSTANTS
    n1 = n1
    n2 = n2
    w1 = w1
    w2 = w2
    r1 = r1
    u3 = u3
    Uploads = {u1, u2, u3}
    Changesets = {c1, c2}
    Elements <- MCElements
    Relations <- MCRelations
    Ways <- MCWays
    Documents <- MCDocuments
    InitialRows <- MCInitialRows
INVARIANTS RefsVisible NoLostUpdate
PROPERTIES Serializable UploadsEnd
CHECK_DEADLOCK FALSE
