CONSTANTS
    Items <- MCItems
    Created <- MCCreated
    First <- MCFirst
    Limit = 4
    PageSize = 2
    MaxPages = 3
    MaxMoves = 3
SPECIFICATION Spec
INVARIANTS
    ProposalsComplete
    TopicsComplete
PROPERTY
    ListingEnds
CHECK_DEADLOCK FALSE
