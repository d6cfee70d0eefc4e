SPECIFICATION Spec
CONSTANTS
    OsmIds <- MCOsmIds
    Requests <- MCRequests
    Editions <- MCEditions
INVARIANT ErrorsUndone WellFormed AcceptableAnswer
PROPERTY HeadOnce
