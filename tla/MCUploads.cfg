SPECIFICATION Spec
CONSTANTS
    MaxId = 6
    Placeholders <- MCPlaceholders
    Tags <- MCTags
    changeset_max_elements = 4
    changeset_timeout_open_max = 24
    changeset_timeout_idle = 1
    Scenarios <- MCScenarios
INVARIANTS MembersVisible RelationMembersVisible HistoryComplete BoxCoversNodesAndWays BoxCoversAddedMembers BoxCoversReplacedMembers NumChangesExact
PROPERTIES DiffResultTruthful HistoryAppendOnly LimitsRespected
