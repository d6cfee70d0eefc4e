SPECIFICATION Spec
CONSTANTS
    MaxId = 5
    Placeholders <- MCPlaceholders
    Tags <- MCTags
    changeset_max_elements = 4
    changeset_timeout_open_max = 24
    changeset_timeout_idle = 1
    Scenarios <- LastMemberRemovedOnly
INVARIANT BoxCoversRemovedMembers
