SPECIFICATION Spec
CONSTANTS
    Users = {u1, u2}
    ChangesetIds <- OneId
    TagSets <- MCTagSets
    Uploads <- MCUploads
    MaxTime = 4
    Workers = {w1, w2}
    changeset_max_elements = 2
    changeset_timeout_open_max = 3
    changeset_timeout_idle = 1
SYMMETRY Symmetry
INVARIANTS LocksProtect WithinLimits
PROPERTIES ClosedForGood AtomicCalls
