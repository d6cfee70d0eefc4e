SPECIFICATION Spec
CONSTANTS
    Elements <- MCElements
    Changesets <- MCChangesets
    Requests <- MCRequests
    InitialDbs <- MCInitialDbs
    RefSets <- MCRefSets
    OpenChangesets <- MCOpenChangesets
    map_max_nodes = 1
    MaxUpdates = 2
INVARIANTS AnswersTheCall WaysHaveTheirNodes DeletedNotShown RedactedNotShown NoEditionMissed AuthorsAgree
