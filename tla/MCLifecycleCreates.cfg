SPECIFICATION FairSpec
CONSTANTS
    Users = {u1, u2}
    ChangesetIds <- TwoIds
    TagSets <- NoTags
    Uploads <- NoUploads
    MaxTime = 0
    Workers = {w1, w2}
    changeset_max_elements = 3
    changeset_timeout_open_max = 3
    changeset_timeout_idle = 1
INVARIANT CountsExact
PROPERTY RequestEnds
